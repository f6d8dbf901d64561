---------------------- MODULE AppStreamMgrResults_proofs ----------------------
(***************************************************************************)
(* Proofs about the results of a frame in the application stream manager:  *)
(* how its metadata come in, and what the framework is told of errors.     *)
(***************************************************************************)
EXTENDS AppStreamMgr_proofs, FiniteSetTheorems

Elements(s) == {s[i] : i \in DOMAIN s}
OneToOne(s) == \A i, j \in DOMAIN s : s[i] = s[j] => i = j

\* The metadata of a result that may not be there.
MetasOf(q) == IF q = None THEN {} ELSE Elements(q.buffer)

-----------------------------------------------------------------------------
(***************************************************************************)
(* Invariants.                                                             *)
(***************************************************************************)

\* The frame handler has an entry for each frame.
FormInv ==
    /\ state = [f \in Frame |-> state[f]]
    /\ errorSent = [f \in Frame |-> errorSent[f]]
    /\ emptied = [f \in Frame |-> emptied[f]]
    /\ errors = [f \in Frame |-> errors[f]]

\* A node calls updateResult once for a frame, with the metadata it fills.
CallInv ==
    /\ \A c \in calls :
        /\ c.node \in released[c.frame] /\ Len(c.buffer) <= 1
        /\ \A m \in Elements(c.buffer) : m \in OutMetas(c.frame) /\ Producer[m] = c.node
    /\ \A c, d \in calls : c.frame = d.frame /\ c.node = d.node => c = d

\* Metadata go from the queue to the thread and from it to the frame handler, each
\* once, and not before the call that brought them has been made.
JourneyOf(f) ==
    LET queued == MetasOf(mResultQueue[f])
        taken == MetasOf(batch[f])
    IN  /\ mResultQueue[f] # None => OneToOne(mResultQueue[f].buffer)
        /\ batch[f] # None => OneToOne(batch[f].buffer)
        /\ \A m \in queued \cup taken \cup Arrived(f) :
                m \in OutMetas(f) /\ Through(f, Producer[m])
        /\ queued \cap taken = {}
        /\ (queued \cup taken) \cap Arrived(f) = {}
JourneyInv == \A f \in Frame : JourneyOf(f)

ResultInv == AppTypeOK /\ FormInv /\ CallInv /\ JourneyInv

-----------------------------------------------------------------------------
(***************************************************************************)
(* Sequences.                                                              *)
(***************************************************************************)

LEMMA ElementsOfConcat ==
    ASSUME NEW S, NEW s \in Seq(S), NEW t \in Seq(S)
    PROVE  /\ Elements(s \o t) = Elements(s) \cup Elements(t)
           /\ OneToOne(s) /\ OneToOne(t) /\ Elements(s) \cap Elements(t) = {}
                => OneToOne(s \o t)
<1>1. /\ DOMAIN (s \o t) = 1 .. Len(s) + Len(t)
      /\ DOMAIN s = 1 .. Len(s) /\ DOMAIN t = 1 .. Len(t)
      /\ Len(s) \in Nat /\ Len(t) \in Nat
  OBVIOUS
<1>2. \A i \in 1 .. Len(s) + Len(t) :
        (s \o t)[i] = IF i <= Len(s) THEN s[i] ELSE t[i - Len(s)]
  OBVIOUS
<1>3. \A i \in 1 .. Len(s) : i \in 1 .. Len(s) + Len(t) /\ (s \o t)[i] = s[i]
  BY <1>1, <1>2
<1>4. \A i \in 1 .. Len(t) : Len(s) + i \in 1 .. Len(s) + Len(t) /\ (s \o t)[Len(s) + i] = t[i]
  BY <1>1, <1>2
<1>5. Elements(s \o t) = Elements(s) \cup Elements(t)
  <2>1. ASSUME NEW i \in 1 .. Len(s) + Len(t)
        PROVE  (s \o t)[i] \in Elements(s) \cup Elements(t)
    <3>1. CASE i <= Len(s)
      BY <1>1, <1>2, <3>1 DEF Elements
    <3>2. CASE i > Len(s)
      <4>1. i - Len(s) \in 1 .. Len(t) /\ (s \o t)[i] = t[i - Len(s)]
        BY <1>1, <1>2, <3>2
      <4>2. QED
        BY <1>1, <4>1 DEF Elements
    <3>3. QED
      BY <1>1, <3>1, <3>2
  <2>2. Elements(s \o t) \subseteq Elements(s) \cup Elements(t)
    BY <1>1, <2>1 DEF Elements
  <2>3. Elements(s) \subseteq Elements(s \o t)
    BY <1>1, <1>3 DEF Elements
  <2>4. Elements(t) \subseteq Elements(s \o t)
    BY <1>1, <1>4 DEF Elements
  <2>5. QED
    BY <2>2, <2>3, <2>4
<1>6. ASSUME OneToOne(s), OneToOne(t), Elements(s) \cap Elements(t) = {},
             NEW i \in DOMAIN (s \o t), NEW j \in DOMAIN (s \o t),
             (s \o t)[i] = (s \o t)[j]
      PROVE  i = j
  <2>1. CASE i <= Len(s) /\ j <= Len(s)
    BY <1>1, <1>2, <1>6, <2>1 DEF OneToOne
  <2>2. CASE i > Len(s) /\ j > Len(s)
    <3>1. i - Len(s) \in DOMAIN t /\ j - Len(s) \in DOMAIN t
      BY <1>1, <2>2
    <3>2. t[i - Len(s)] = t[j - Len(s)]
      BY <1>1, <1>2, <1>6, <2>2
    <3>3. i - Len(s) = j - Len(s)
      BY <1>6, <3>1, <3>2 DEF OneToOne
    <3>4. QED
      BY <1>1, <3>3
  <2>3. CASE i <= Len(s) /\ j > Len(s)
    <3>1. i \in DOMAIN s /\ j - Len(s) \in DOMAIN t /\ s[i] = t[j - Len(s)]
      BY <1>1, <1>2, <1>6, <2>3
    <3>2. QED
      BY <1>6, <3>1 DEF Elements
  <2>4. CASE i > Len(s) /\ j <= Len(s)
    <3>1. j \in DOMAIN s /\ i - Len(s) \in DOMAIN t /\ s[j] = t[i - Len(s)]
      BY <1>1, <1>2, <1>6, <2>4
    <3>2. QED
      BY <1>6, <3>1 DEF Elements
  <2>5. QED
    BY <1>1, <2>1, <2>2, <2>3, <2>4
<1>7. QED
  BY <1>5, <1>6 DEF OneToOne

\* A sequence with no element twice has as many elements as it is long.
LEMMA ElementsCount ==
    ASSUME NEW S, NEW s \in Seq(S), OneToOne(s)
    PROVE  IsFiniteSet(Elements(s)) /\ Cardinality(Elements(s)) = Len(s)
<1>1. Len(s) \in Nat /\ DOMAIN s = 1 .. Len(s) /\ s = [i \in 1 .. Len(s) |-> s[i]]
  OBVIOUS
<1>2. s \in [1 .. Len(s) -> Elements(s)]
  BY <1>1 DEF Elements
<1>3. s \in Bijection(1 .. Len(s), Elements(s))
  <2>1. s \in Injection(1 .. Len(s), Elements(s))
    BY <1>2 DEF Injection, IsInjective, OneToOne
  <2>2. s \in Surjection(1 .. Len(s), Elements(s))
    BY <1>1, <1>2 DEF Surjection, Elements
  <2>3. QED
    BY <2>1, <2>2 DEF Bijection
<1>4. ExistsBijection(1 .. Len(s), Elements(s))
  BY <1>3 DEF ExistsBijection
<1>5. IsFiniteSet(1 .. Len(s)) /\ Cardinality(1 .. Len(s)) = Len(s)
  <2>1. Len(s) \in Int
    BY <1>1
  <2>2. /\ IsFiniteSet(1 .. Len(s))
        /\ Cardinality(1 .. Len(s)) = IF 1 > Len(s) THEN 0 ELSE Len(s) - 1 + 1
    BY <2>1, FS_Interval
  <2>3. QED
    BY <1>1, <2>2
<1>6. QED
  BY <1>1, <1>4, <1>5, FS_Bijection

-----------------------------------------------------------------------------
(***************************************************************************)
(* The steps on the way of a result.                                       *)
(***************************************************************************)

\* What a result is made of on its way to the items of its frame.
path == <<released, bad, calls, mResultQueue, batch, bufferNo, hasLastPartial, state>>

LEMMA PathSteps ==
    ASSUME [Next]_vars
    PROVE  \/ UNCHANGED path
           \/ \E n \in Node, f \in Frame : Release(n, f)
           \/ \E c \in calls : UpdateResult(c)
           \/ DequeResult
           \/ \E f \in Pending : UpdateFrame(f) \/ SkipResult(f)
<1>1. CASE DeviceStep \/ FlushStep \/ TimeOut \/ \E f \in Frame : SubmitRequest(f)
  BY <1>1 DEF DeviceStep, FlushStep, RegisterRequest, FlushRequest, BeginFlush,
              WaitUntilDrained, EndFlush, TimeOut, SubmitRequest, path, pipelines,
              results, handler, items
<1>2. CASE VisitFrames \/ StartCallbacks \/ PerformCallback \/ SignalDrained
  BY <1>2 DEF VisitFrames, StartCallbacks, PerformCallback, SignalDrained,
              path, pipelines, results, handler, items
<1>3. CASE \E f \in visit : ErrorFrame(f) \/ ReturnFrame(f)
  BY <1>3 DEF ErrorFrame, ReturnFrame, path, pipelines, results
<1>4. CASE UNCHANGED vars
  BY <1>4 DEF vars, path, pipelines, results, handler, items
<1>5. QED
  BY <1>1, <1>2, <1>3, <1>4 DEF Next, NodeStep, ThreadStep

\* The call that a node is about to make when it has released a frame.
LEMMA ReleaseCall ==
    ASSUME AppTypeOK, NEW n \in Node, NEW f \in Frame, Release(n, f)
    PROVE  \E c \in Call :
            /\ calls' = calls \cup {c} /\ c.frame = f /\ c.node = n /\ Len(c.buffer) <= 1
            /\ Elements(c.buffer) = {m \in OutMetas(f) : Producer[m] = n}
            /\ c.lastPartial <=> \A m \in OutMetas(f) : Producer[m] \in released'[f]
<1> DEFINE M == {m \in OutMetas(f) : Producer[m] = n}
<1> DEFINE b == IF M = {} THEN <<>> ELSE <<CHOOSE m \in M : TRUE>>
<1> DEFINE l == \A m \in OutMetas(f) : Producer[m] \in released'[f]
<1> DEFINE c == [frame |-> f, node |-> n, buffer |-> b, lastPartial |-> l]
<1>1. calls' = calls \cup {c}
  BY DEF Release
<1>2. M \subseteq Meta /\ \A m, k \in M : m = k
  BY AppAssumption DEF OutMetas
<1>3. b \in Seq(Meta) /\ Len(b) <= 1 /\ Elements(b) = M
  <2>1. CASE M = {}
    <3>1. b = <<>>
      BY <2>1
    <3>2. Elements(<<>>) = {} /\ <<>> \in Seq(Meta) /\ Len(<<>>) = 0
      BY DEF Elements
    <3>3. QED
      BY <2>1, <3>1, <3>2
  <2>2. ASSUME NEW m \in M PROVE b \in Seq(Meta) /\ Len(b) <= 1 /\ Elements(b) = M
    <3>1. M = {m} /\ b = <<m>>
      BY <1>2
    <3>2. Elements(<<m>>) = {m} /\ <<m>> \in Seq(Meta) /\ Len(<<m>>) = 1
      BY <1>2 DEF Elements
    <3>3. QED
      BY <3>1, <3>2
  <2>3. QED
    BY <2>1, <2>2
<1>4. l \in BOOLEAN
  OBVIOUS
<1>5. c \in Call
  BY <1>3, <1>4 DEF Call
<1> HIDE DEF b, l, M
<1>6. c.frame = f /\ c.node = n /\ c.buffer = b /\ c.lastPartial = l
  OBVIOUS
<1> HIDE DEF c
<1>7. QED
  BY <1>1, <1>3, <1>5, <1>6 DEF l, M

\* A call is made after the release it tells of, and once it is made that is known.
LEMMA ThroughStays ==
    ASSUME AppTypeOK, [Next]_vars, NEW f \in Frame, NEW n \in Node, Through(f, n)
    PROVE  Through(f, n)'
<1>1. CASE UNCHANGED path
  BY <1>1 DEF path, Through
<1>2. ASSUME NEW k \in Node, NEW g \in Frame, Release(k, g) PROVE Through(f, n)'
  <2>1. k \notin released[g] /\ released' = [released EXCEPT ![g] = @ \cup {k}]
    BY <1>2 DEF Release
  <2>2. PICK c : calls' = calls \cup {c} /\ c.frame = g /\ c.node = k
    BY <1>2, ReleaseCall
  <2>3. n \in released'[f]
    BY <2>1 DEF Through, AppTypeOK
  <2>4. QED
    BY <2>1, <2>2, <2>3 DEF Through
<1>3. ASSUME NEW c \in calls, UpdateResult(c) PROVE Through(f, n)'
  BY <1>3 DEF UpdateResult, Through
<1>4. CASE DequeResult \/ \E g \in Pending : UpdateFrame(g) \/ SkipResult(g)
  BY <1>4 DEF DequeResult, UpdateFrame, SkipResult, Through, pipelines
<1>5. QED
  BY <1>1, <1>2, <1>3, <1>4, PathSteps

LEMMA CallNext == AppTypeOK /\ CallInv /\ [Next]_vars => CallInv'
<1> SUFFICES ASSUME AppTypeOK, CallInv, [Next]_vars PROVE CallInv'
  OBVIOUS
<1>1. CASE UNCHANGED <<calls, released>>
  BY <1>1 DEF CallInv
<1>2. CASE UNCHANGED path
  BY <1>1, <1>2 DEF path
<1>3. ASSUME NEW n \in Node, NEW f \in Frame, Release(n, f) PROVE CallInv'
  <2>1. /\ n \notin released[f] /\ released'[f] = released[f] \cup {n}
        /\ \A g \in Frame : released[g] \subseteq released'[g]
    BY <1>3 DEF Release, AppTypeOK
  <2>2. PICK c \in Call :
            /\ calls' = calls \cup {c} /\ c.frame = f /\ c.node = n /\ Len(c.buffer) <= 1
            /\ Elements(c.buffer) = {m \in OutMetas(f) : Producer[m] = n}
    BY <1>3, ReleaseCall
  <2>3. \A d \in calls : d.frame \in Frame /\ ~(d.frame = f /\ d.node = n)
    BY <2>1 DEF CallInv, AppTypeOK, Call
  <2>4. \A d \in calls' :
        /\ d.node \in released'[d.frame] /\ Len(d.buffer) <= 1
        /\ \A m \in Elements(d.buffer) : m \in OutMetas(d.frame) /\ Producer[m] = d.node
    BY <2>1, <2>2, <2>3 DEF CallInv
  <2>5. \A d, e \in calls' : d.frame = e.frame /\ d.node = e.node => d = e
    BY <2>2, <2>3 DEF CallInv
  <2>6. QED
    BY <2>4, <2>5 DEF CallInv
<1>4. ASSUME NEW c \in calls, UpdateResult(c) PROVE CallInv'
  BY <1>4 DEF UpdateResult, CallInv
<1>5. CASE DequeResult \/ \E g \in Pending : UpdateFrame(g) \/ SkipResult(g)
  BY <1>1, <1>5 DEF DequeResult, UpdateFrame, SkipResult, pipelines
<1>6. QED
  BY <1>2, <1>3, <1>4, <1>5, PathSteps

-----------------------------------------------------------------------------
(***************************************************************************)
(* Each metadata comes in once.                                            *)
(***************************************************************************)

LEMMA OutMetasFit ==
    ASSUME NEW f \in Frame
    PROVE  /\ OutMetas(f) \subseteq Meta /\ IsFiniteSet(OutMetas(f))
           /\ Cardinality(OutMetas(f)) \in Nat /\ AtMost \in Nat
           /\ 1 <= Cardinality(OutMetas(f)) /\ Cardinality(OutMetas(f)) <= AtMost
<1>1. OutMetas(f) \subseteq Meta /\ OutMetas(f) # {}
  BY AppAssumption DEF OutMetas
<1>2. IsFiniteSet(OutMetas(f))
  BY <1>1, AppAssumption, FS_Subset
<1>3. Cardinality(OutMetas(f)) \in Nat /\ Cardinality(OutMetas(f)) # 0
  BY <1>1, <1>2, FS_CardinalityType, FS_EmptySet
<1>4. Cardinality(OutMetas(f)) <= AtMost /\ AtMost \in Nat
  BY AppAssumption
<1>5. QED
  BY <1>1, <1>2, <1>3, <1>4

\* There are numbers for the metadata that come in.
LEMMA MetasFit ==
    ASSUME AppTypeOK, JourneyInv, NEW f \in Frame, batch[f] # None
    PROVE  LET n == Cardinality(Arrived(f))
               new == batch[f].buffer
           IN  /\ n \in Nat /\ Len(new) \in Nat /\ DOMAIN new = 1 .. Len(new)
               /\ new \in Seq(Meta) /\ OneToOne(new)
               /\ n + Len(new) = Cardinality(Arrived(f) \cup Elements(new))
               /\ n + Len(new) <= Cardinality(OutMetas(f))
<1> DEFINE n == Cardinality(Arrived(f))
           new == batch[f].buffer
<1>1. batch[f] \in Result
  BY DEF AppTypeOK
<1>2. new \in Seq(Meta) /\ Len(new) \in Nat /\ DOMAIN new = 1 .. Len(new)
  BY <1>1 DEF Result
<1>3. /\ OneToOne(new) /\ Arrived(f) \subseteq OutMetas(f)
      /\ Elements(new) \subseteq OutMetas(f) /\ Elements(new) \cap Arrived(f) = {}
  BY DEF JourneyInv, JourneyOf, MetasOf
<1>4. IsFiniteSet(Elements(new)) /\ Cardinality(Elements(new)) = Len(new)
  BY <1>2, <1>3, ElementsCount
<1>5. IsFiniteSet(Arrived(f)) /\ n \in Nat
  BY <1>3, OutMetasFit, FS_Subset, FS_CardinalityType
<1>6. Cardinality(Arrived(f) \cup Elements(new)) = n + Len(new) - Cardinality({})
  <2>1. Arrived(f) \cap Elements(new) = {}
    BY <1>3
  <2>2. Cardinality(Arrived(f) \cup Elements(new)) =
            Cardinality(Arrived(f)) + Cardinality(Elements(new))
                - Cardinality(Arrived(f) \cap Elements(new))
    BY <1>4, <1>5, FS_Union
  <2>3. QED
    BY <1>4, <2>1, <2>2
<1>7. Cardinality({}) = 0
  BY FS_EmptySet
<1>8. Cardinality(Arrived(f) \cup Elements(new)) <= Cardinality(OutMetas(f))
  BY <1>3, OutMetasFit, FS_Subset
<1>9. QED
  BY <1>2, <1>3, <1>5, <1>6, <1>7, <1>8

\* The numbers that the metadata of a result get.
LEMMA NewNumbers ==
    ASSUME AppTypeOK, JourneyInv, NEW f \in Pending, UpdateFrame(f)
    PROVE  LET n == Cardinality(Arrived(f))
               new == batch[f].buffer
               last == batch[f].lastPartial /\ new # <<>>
           IN  /\ bufferNo' \in [Frame -> [Meta -> 0 .. AtMost]]
               /\ \A g \in Frame \ {f} : bufferNo'[g] = bufferNo[g]
               /\ \A m \in Meta \ Elements(new) : bufferNo'[f][m] = bufferNo[f][m]
               /\ \A i \in DOMAIN new : bufferNo'[f][new[i]] =
                        IF last /\ i = Len(new) THEN AtMost ELSE n + i
               /\ Arrived(f)' = Arrived(f) \cup Elements(new)
               /\ \A g \in Frame \ {f} : Arrived(g)' = Arrived(g)
<1> DEFINE n == Cardinality(Arrived(f))
           new == batch[f].buffer
           last == batch[f].lastPartial /\ new # <<>>
           No(m) == LET i == CHOOSE i \in DOMAIN new : new[i] = m IN
                    IF last /\ i = Len(new) THEN AtMost ELSE n + i
<1>1. f \in Frame /\ batch[f] # None
  BY DEF Pending
<1>2. /\ n \in Nat /\ Len(new) \in Nat /\ DOMAIN new = 1 .. Len(new)
      /\ OneToOne(new) /\ new \in Seq(Meta)
      /\ n + Len(new) <= AtMost /\ AtMost \in Nat \ {0}
  <2>1. /\ n \in Nat /\ Len(new) \in Nat /\ DOMAIN new = 1 .. Len(new)
        /\ OneToOne(new) /\ new \in Seq(Meta)
        /\ n + Len(new) <= Cardinality(OutMetas(f))
    BY <1>1, MetasFit
  <2>2. /\ Cardinality(OutMetas(f)) \in Nat /\ AtMost \in Nat
        /\ 1 <= Cardinality(OutMetas(f)) /\ Cardinality(OutMetas(f)) <= AtMost
    BY <1>1, OutMetasFit
  <2>3. QED
    BY <2>1, <2>2
<1>3. \A i \in DOMAIN new : new[i] \in Meta
  BY <1>2
<1>4. bufferNo' = [bufferNo EXCEPT ![f] = [m \in Meta |->
            IF \E i \in DOMAIN new : new[i] = m THEN No(m) ELSE @[m]]]
  BY DEF UpdateFrame
<1>5. ASSUME NEW i \in DOMAIN new
      PROVE  No(new[i]) = IF last /\ i = Len(new) THEN AtMost ELSE n + i
  <2>1. (CHOOSE j \in DOMAIN new : new[j] = new[i]) = i
    BY <1>2 DEF OneToOne
  <2>2. QED
    BY <2>1
<1>6. \A i \in DOMAIN new : No(new[i]) \in 1 .. AtMost
  BY <1>2, <1>5
<1>7. bufferNo \in [Frame -> [Meta -> 0 .. AtMost]]
  BY DEF AppTypeOK
<1> HIDE DEF No
<1>8. \A m \in Meta : bufferNo'[f][m] =
            IF m \in Elements(new) THEN No(m) ELSE bufferNo[f][m]
  BY <1>1, <1>4, <1>7 DEF Elements
<1>9. \A g \in Frame \ {f} : bufferNo'[g] = bufferNo[g]
  BY <1>4, <1>7
<1>10. \A m \in Elements(new) : No(m) \in 1 .. AtMost /\ m \in Meta
  BY <1>3, <1>6 DEF Elements
<1>11. bufferNo' \in [Frame -> [Meta -> 0 .. AtMost]]
  <2>1. \A m \in Meta : bufferNo'[f][m] \in 0 .. AtMost
    BY <1>1, <1>2, <1>7, <1>8, <1>10
  <2>2. [m \in Meta |-> IF \E i \in DOMAIN new : new[i] = m THEN No(m) ELSE bufferNo[f][m]]
            \in [Meta -> 0 .. AtMost]
    BY <1>1, <1>2, <1>7, <1>10 DEF Elements
  <2>3. QED
    BY <1>1, <1>4, <1>7, <2>2
<1>12. Arrived(f)' = Arrived(f) \cup Elements(new)
  <2>1. \A m \in Elements(new) : No(m) # 0
    BY <1>2, <1>10
  <2>2. Arrived(f)' = {m \in Meta : bufferNo'[f][m] # 0}
    BY DEF Arrived
  <2>3. QED
    BY <1>8, <1>10, <2>1, <2>2 DEF Arrived
<1>13. \A g \in Frame \ {f} : Arrived(g)' = Arrived(g)
  BY <1>9 DEF Arrived
<1>14. \A i \in DOMAIN new : bufferNo'[f][new[i]] =
                        IF last /\ i = Len(new) THEN AtMost ELSE n + i
  BY <1>3, <1>5, <1>8 DEF Elements
<1>15. \A m \in Meta \ Elements(new) : bufferNo'[f][m] = bufferNo[f][m]
  BY <1>8
<1>16. QED
  BY <1>9, <1>11, <1>12, <1>13, <1>14, <1>15

\* A call is taken in by the result that waits for the thread.
LEMMA UpdateResultQueues ==
    ASSUME AppTypeOK, NEW c \in calls, UpdateResult(c)
    PROVE  LET f == c.frame
               q == mResultQueue'[f]
           IN  /\ f \in Frame /\ c.buffer \in Seq(Meta) /\ c.lastPartial \in BOOLEAN
               /\ mResultQueue' = [mResultQueue EXCEPT ![f] = q]
               /\ q \in Result /\ q # None /\ q.lastPartial = c.lastPartial
               /\ q.buffer = IF mResultQueue[f] = None THEN c.buffer
                             ELSE mResultQueue[f].buffer \o c.buffer
               /\ MetasOf(q) = MetasOf(mResultQueue[f]) \cup Elements(c.buffer)
<1> DEFINE f == c.frame
           b == IF mResultQueue[f] = None THEN c.buffer
                ELSE mResultQueue[f].buffer \o c.buffer
           q == [buffer |-> b, lastPartial |-> c.lastPartial]
<1>1. c \in Call /\ mResultQueue \in [Frame -> Result \cup {None}]
  BY DEF AppTypeOK
<1>2. f \in Frame /\ c.buffer \in Seq(Meta) /\ c.lastPartial \in BOOLEAN
  BY <1>1 DEF Call
<1>3. mResultQueue[f] # None => mResultQueue[f].buffer \in Seq(Meta)
  BY <1>1, <1>2 DEF Result
<1>4. b \in Seq(Meta)
  BY <1>2, <1>3
<1>5. q \in Result /\ q # None
  <2>1. q \in Result
    BY <1>2, <1>4 DEF Result
  <2>2. None \notin Result
    BY AppAssumption
  <2>3. QED
    BY <2>1, <2>2
<1>6. mResultQueue' = [mResultQueue EXCEPT ![f] = q] /\ mResultQueue'[f] = q
  BY <1>1, <1>2 DEF UpdateResult
<1>7. Elements(b) = MetasOf(mResultQueue[f]) \cup Elements(c.buffer)
  BY <1>2, <1>3, ElementsOfConcat DEF MetasOf
<1>8. q.buffer = b /\ q.lastPartial = c.lastPartial
  OBVIOUS
<1> HIDE DEF b, q
<1>9. MetasOf(q) = Elements(b)
  BY <1>5, <1>8 DEF MetasOf
<1>10. QED
  BY <1>2, <1>5, <1>6, <1>7, <1>8, <1>9 DEF b

LEMMA JourneyNext ==
    ASSUME AppTypeOK, CallInv, JourneyInv, [Next]_vars
    PROVE  JourneyInv'
<1>1. \A f \in Frame, m \in Meta : Through(f, Producer[m]) => Through(f, Producer[m])'
  <2>1. \A m \in Meta : Producer[m] \in Node
    BY AppAssumption DEF Stream
  <2>2. QED
    BY <2>1, ThroughStays
<1>2. \A f \in Frame : OutMetas(f) \subseteq Meta
  BY DEF OutMetas
<1>3. ASSUME NEW f \in Frame,
             \/ mResultQueue'[f] = mResultQueue[f] /\ batch'[f] = batch[f]
             \/ mResultQueue'[f] = mResultQueue[f] /\ batch'[f] = None
             \/ mResultQueue'[f] = None /\ batch'[f] = mResultQueue[f],
             Arrived(f)' = Arrived(f)
      PROVE  JourneyOf(f)'
  <2> DEFINE J == MetasOf(mResultQueue[f]) \cup MetasOf(batch[f]) \cup Arrived(f)
  <2>1. \A m \in J : m \in OutMetas(f) /\ Through(f, Producer[m])'
    BY <1>1, <1>2 DEF JourneyInv, JourneyOf
  <2>2. /\ mResultQueue[f] # None => OneToOne(mResultQueue[f].buffer)
        /\ batch[f] # None => OneToOne(batch[f].buffer)
        /\ MetasOf(mResultQueue[f]) \cap MetasOf(batch[f]) = {}
        /\ (MetasOf(mResultQueue[f]) \cup MetasOf(batch[f])) \cap Arrived(f) = {}
    BY DEF JourneyInv, JourneyOf
  <2>3. MetasOf(None) = {}
    BY DEF MetasOf
  <2>4. QED
    BY <1>3, <2>1, <2>2, <2>3 DEF JourneyOf
<1>4. CASE UNCHANGED path
  BY <1>3, <1>4 DEF path, Arrived, JourneyInv
<1>5. CASE \E n \in Node, f \in Frame : Release(n, f)
  BY <1>3, <1>5 DEF Release, results, handler, items, Arrived, JourneyInv
<1>6. CASE DequeResult \/ \E f \in Pending : SkipResult(f)
  BY <1>3, <1>6 DEF DequeResult, SkipResult, handler, items, Arrived, JourneyInv, AppTypeOK
<1>7. ASSUME NEW c \in calls, UpdateResult(c) PROVE JourneyInv'
  <2> DEFINE f == c.frame
             q == mResultQueue'[f]
  <2>1. /\ f \in Frame /\ c.buffer \in Seq(Meta)
        /\ mResultQueue' = [mResultQueue EXCEPT ![f] = q]
        /\ q \in Result /\ q # None
        /\ q.buffer = IF mResultQueue[f] = None THEN c.buffer
                      ELSE mResultQueue[f].buffer \o c.buffer
        /\ MetasOf(q) = MetasOf(mResultQueue[f]) \cup Elements(c.buffer)
    BY <1>7, UpdateResultQueues
  <2> HIDE DEF q
  <2>2. /\ batch' = batch /\ bufferNo' = bufferNo /\ released' = released
        /\ calls' = calls \ {c}
    BY <1>7 DEF UpdateResult, handler, items
  <2>3. \A g \in Frame : Arrived(g)' = Arrived(g)
    BY <2>2 DEF Arrived
  <2>4. \A g \in Frame \ {f} : mResultQueue'[g] = mResultQueue[g]
    BY <2>1 DEF AppTypeOK
  <2>5. \A m \in Elements(c.buffer) : m \in OutMetas(f) /\ Producer[m] = c.node
    BY DEF CallInv
  <2>6. Through(f, c.node)'
    BY <2>2 DEF CallInv, Through
  <2>7. \A m \in Elements(c.buffer) :
            m \notin MetasOf(mResultQueue[f]) \cup MetasOf(batch[f]) \cup Arrived(f)
    <3>1. ~Through(f, c.node)
      BY DEF Through
    <3>2. QED
      BY <2>1, <2>5, <3>1 DEF JourneyInv, JourneyOf
  <2>8. OneToOne(c.buffer)
    <3>1. DOMAIN c.buffer = 1 .. Len(c.buffer) /\ Len(c.buffer) \in Nat /\ Len(c.buffer) <= 1
      BY <2>1 DEF CallInv
    <3>2. QED
      BY <3>1 DEF OneToOne
  <2>9. OneToOne(q.buffer)
    <3>1. CASE mResultQueue[f] = None
      BY <2>1, <2>8, <3>1
    <3>2. CASE mResultQueue[f] # None
      <4>1. /\ mResultQueue[f].buffer \in Seq(Meta)
            /\ MetasOf(mResultQueue[f]) = Elements(mResultQueue[f].buffer)
        BY <2>1, <3>2 DEF AppTypeOK, Result, MetasOf
      <4>2. OneToOne(mResultQueue[f].buffer)
        BY <2>1, <3>2 DEF JourneyInv, JourneyOf
      <4>3. Elements(mResultQueue[f].buffer) \cap Elements(c.buffer) = {}
        BY <2>7, <4>1
      <4>4. QED
        BY <2>1, <2>8, <3>2, <4>1, <4>2, <4>3, ElementsOfConcat
    <3>3. QED
      BY <3>1, <3>2
  <2>10. mResultQueue'[f] = q
    BY DEF q
  <2>11. JourneyOf(f)
    BY <2>1 DEF JourneyInv
  <2>12. \A m \in MetasOf(q) \cup MetasOf(batch[f]) \cup Arrived(f) :
            m \in OutMetas(f) /\ Through(f, Producer[m])'
    BY <1>1, <1>2, <2>1, <2>5, <2>6, <2>11 DEF JourneyOf
  <2>13. /\ MetasOf(q) \cap MetasOf(batch[f]) = {}
         /\ (MetasOf(q) \cup MetasOf(batch[f])) \cap Arrived(f) = {}
    BY <2>1, <2>7, <2>11 DEF JourneyOf
  <2>14. JourneyOf(f)'
    BY <2>1, <2>2, <2>3, <2>9, <2>10, <2>11, <2>12, <2>13 DEF JourneyOf
  <2>15. \A g \in Frame \ {f} : JourneyOf(g)'
    BY <1>3, <2>2, <2>3, <2>4
  <2>16. QED
    BY <2>14, <2>15 DEF JourneyInv
<1>8. ASSUME NEW f \in Pending, UpdateFrame(f) PROVE JourneyInv'
  <2>1. f \in Frame /\ batch[f] # None /\ JourneyOf(f)
    BY DEF Pending, JourneyInv
  <2>2. /\ Arrived(f)' = Arrived(f) \cup MetasOf(batch[f])
        /\ \A g \in Frame \ {f} : Arrived(g)' = Arrived(g)
    BY <1>8, <2>1, NewNumbers DEF MetasOf
  <2>3. /\ mResultQueue' = mResultQueue /\ batch'[f] = None
        /\ \A g \in Frame \ {f} : batch'[g] = batch[g]
    BY <1>8, <2>1 DEF UpdateFrame, AppTypeOK
  <2>4. MetasOf(None) = {}
    BY DEF MetasOf
  <2>5. \A m \in MetasOf(mResultQueue[f]) \cup MetasOf(batch[f]) \cup Arrived(f) :
            m \in OutMetas(f) /\ Through(f, Producer[m])'
    BY <1>1, <1>2, <2>1 DEF JourneyOf
  <2>6. JourneyOf(f)'
    BY <2>1, <2>2, <2>3, <2>4, <2>5 DEF JourneyOf
  <2>7. \A g \in Frame \ {f} : JourneyOf(g)'
    BY <1>3, <2>2, <2>3
  <2>8. QED
    BY <2>6, <2>7 DEF JourneyInv
<1>9. QED
  BY <1>4, <1>5, <1>6, <1>7, <1>8, PathSteps

-----------------------------------------------------------------------------
(***************************************************************************)
(* Type correctness.                                                       *)
(***************************************************************************)

LEMMA ResultInit == Init => ResultInv
<1> SUFFICES ASSUME Init PROVE ResultInv
  OBVIOUS
<1>1. \A f \in Frame : Arrived(f) = {}
  BY DEF Init, Arrived
<1>2. MetasOf(None) = {}
  BY DEF MetasOf
<1>3. AppTypeOK
  <2>1. AtMost \in Nat
    BY AppAssumption
  <2>2. bufferNo \in [Frame -> [Meta -> 0 .. AtMost]]
    BY <2>1 DEF Init
  <2>3. \A f \in Frame :
            state[f] \in [OutImages[f] \cup InImages[f] -> {"IN_FLIGHT", "VALID", "ERROR"}]
    BY DEF Init
  <2>4. \A i \in DOMAIN cbList : cbList[i].frame \in registered
    BY DEF Init
  <2>5. QED
    BY <2>2, <2>3, <2>4 DEF Init, AppTypeOK
<1>4. FormInv
  BY DEF Init, FormInv
<1>5. CallInv
  BY DEF Init, CallInv
<1>6. JourneyInv
  BY <1>1, <1>2 DEF Init, JourneyInv, JourneyOf
<1>7. QED
  BY <1>3, <1>4, <1>5, <1>6 DEF ResultInv

\* The parts of the type invariant that the steps of the pipelines, of the thread and
\* of the frame handler touch.
PipelineType ==
    /\ submitted \subseteq registered
    /\ released \in [Frame -> SUBSET Node]
    /\ bad \in [Frame -> SUBSET Stream]
    /\ calls \subseteq Call
    /\ requesting \in BOOLEAN
    /\ waiter \in {"idle", "asleep", "woken"}
    /\ mResultQueue \in [Frame -> Result \cup {None}]
    /\ batch \in [Frame -> Result \cup {None}]
    /\ latestResultFrameNo \in Frame \cup {0}
    /\ bufferNo \in [Frame -> [Meta -> 0 .. AtMost]]
    /\ hasLastPartial \subseteq Frame
    /\ pc \in {"deque", "update", "visit", "callback"}

HandlerType ==
    /\ timestampShutter \subseteq Frame
    /\ \A f \in Frame :
        /\ state[f] \in [OutImages[f] \cup InImages[f] -> {"IN_FLIGHT", "VALID", "ERROR"}]
        /\ returned[f] \subseteq Stream /\ errorSent[f] \subseteq Stream
        /\ emptied[f] \subseteq Meta /\ errors[f] \subseteq {"frame", "meta"}

LEMMA TypeParts == IInv => (AppTypeOK <=> PipelineType /\ HandlerType)
BY DEF IInv, ShapeInv, AppTypeOK, PipelineType, HandlerType

LEMMA ReleaseType ==
    ASSUME AppTypeOK, PipelineType, NEW n \in Node, NEW f \in Frame, Release(n, f)
    PROVE  PipelineType'
<1>1. PICK c \in Call : calls' = calls \cup {c}
  BY ReleaseCall
<1>2. PICK E \in SUBSET {s \in MayFail \cap (OutImages[f] \cup OutMetas(f)) : Producer[s] = n} :
            bad' = [bad EXCEPT ![f] = @ \cup E]
  BY DEF Release
<1>3. E \subseteq Stream
  BY AppAssumption DEF Stream
<1>4. bad' \in [Frame -> SUBSET Stream]
  BY <1>2, <1>3 DEF PipelineType
<1>5. released' \in [Frame -> SUBSET Node]
  BY DEF Release, PipelineType
<1>6. QED
  BY <1>1, <1>4, <1>5 DEF Release, PipelineType, requests, results, handler, items, thread

LEMMA UpdateFrameType ==
    ASSUME AppTypeOK, FormInv, JourneyInv, NEW f \in Pending, UpdateFrame(f)
    PROVE  PipelineType' /\ HandlerType'
<1>1. f \in Frame
  BY DEF Pending
<1>2. bufferNo' \in [Frame -> [Meta -> 0 .. AtMost]]
  BY NewNumbers
<1>3. batch' \in [Frame -> Result \cup {None}]
  BY DEF UpdateFrame, AppTypeOK
<1>4. hasLastPartial' \subseteq Frame
  BY <1>1 DEF UpdateFrame, AppTypeOK
<1>5. latestResultFrameNo' \in Frame \cup {0}
  BY <1>1 DEF UpdateFrame, AppTypeOK
<1>6. PipelineType'
  BY <1>2, <1>3, <1>4, <1>5
     DEF UpdateFrame, AppTypeOK, PipelineType, pipelines, requests, thread
<1>7. \A g \in Frame :
        state'[g] \in [OutImages[g] \cup InImages[g] -> {"IN_FLIGHT", "VALID", "ERROR"}]
  <2>1. state' = [state EXCEPT ![f] = [s \in DOMAIN @ |->
            IF @[s] = "IN_FLIGHT" /\ Users[s] \cap NodesOf[f] \subseteq released[f]
            THEN IF s \in bad[f] THEN "ERROR" ELSE "VALID"
            ELSE @[s]]]
    BY DEF UpdateFrame
  <2>2. \A g \in Frame \ {f} : state'[g] = state[g]
    BY <2>1 DEF FormInv
  <2>3. state'[f] = [s \in DOMAIN state[f] |->
            IF state[f][s] = "IN_FLIGHT" /\ Users[s] \cap NodesOf[f] \subseteq released[f]
            THEN IF s \in bad[f] THEN "ERROR" ELSE "VALID"
            ELSE state[f][s]]
    BY <1>1, <2>1 DEF FormInv
  <2>4. state[f] \in [OutImages[f] \cup InImages[f] -> {"IN_FLIGHT", "VALID", "ERROR"}]
    BY <1>1 DEF AppTypeOK
  <2>5. state'[f] \in [OutImages[f] \cup InImages[f] -> {"IN_FLIGHT", "VALID", "ERROR"}]
    BY <2>3, <2>4
  <2>6. QED
    BY <2>2, <2>5 DEF AppTypeOK
<1>8. HandlerType'
  BY <1>7 DEF UpdateFrame, AppTypeOK, HandlerType
<1>9. QED
  BY <1>6, <1>8

LEMMA VisitType ==
    ASSUME IInv, AppTypeOK, FormInv, NEW f \in visit, ErrorFrame(f) \/ ReturnFrame(f)
    PROVE  PipelineType' /\ HandlerType'
<1>1. f \in Frame /\ OutImages[f] \subseteq Stream /\ InImages[f] \subseteq Stream
  BY AppAssumption DEF IInv, ShapeInv, Stream
<1>2. Arrived(f) \subseteq Meta /\ Meta \subseteq Stream
  BY DEF Arrived, Stream
<1>3. PipelineType'
  BY DEF ErrorFrame, ReturnFrame, AppTypeOK, PipelineType, pipelines, requests, results
<1>4. CASE ErrorFrame(f)
  <2>1. \A g \in Frame \ {f} : returned'[g] = returned[g] /\ errors'[g] = errors[g]
    BY <1>4 DEF ErrorFrame, FormInv, IInv, ShapeInv
  <2>2. returned'[f] \subseteq Stream
    BY <1>1, <1>4 DEF ErrorFrame, ImagesToReturn, AppTypeOK, IInv, ShapeInv
  <2>3. errors'[f] \subseteq {"frame", "meta"}
    BY <1>1, <1>4 DEF ErrorFrame, AppTypeOK, FormInv
  <2>4. UNCHANGED <<state, errorSent, emptied, timestampShutter>>
    BY <1>4 DEF ErrorFrame
  <2>5. QED
    BY <1>3, <2>1, <2>2, <2>3, <2>4 DEF AppTypeOK, HandlerType
<1>5. CASE ReturnFrame(f)
  <2>1. \A g \in Frame \ {f} : /\ returned'[g] = returned[g] /\ errors'[g] = errors[g]
                               /\ errorSent'[g] = errorSent[g] /\ emptied'[g] = emptied[g]
    BY <1>5 DEF ReturnFrame, FormInv, IInv, ShapeInv
  <2>2. returned'[f] \subseteq Stream
    BY <1>1, <1>2, <1>5
       DEF ReturnFrame, MetasToReturn, ImagesToReturn, ErrorsToSend, AppTypeOK, IInv, ShapeInv
  <2>3. errorSent'[f] \subseteq Stream
    BY <1>1, <1>2, <1>5 DEF ReturnFrame, ErrorsToSend, AppTypeOK, FormInv
  <2>4. emptied'[f] \subseteq Meta
    BY <1>1, <1>2, <1>5 DEF ReturnFrame, AppTypeOK, FormInv
  <2>5. errors'[f] \subseteq {"frame", "meta"}
    BY <1>1, <1>5 DEF ReturnFrame, AppTypeOK, FormInv
  <2>6. timestampShutter' \subseteq Frame /\ state' = state
    BY <1>1, <1>5 DEF ReturnFrame, AppTypeOK
  <2>7. QED
    BY <1>3, <2>1, <2>2, <2>3, <2>4, <2>5, <2>6 DEF AppTypeOK, HandlerType
<1>6. QED
  BY <1>4, <1>5

LEMMA TypeNext ==
    ASSUME IInv, ResultInv, [Next]_vars
    PROVE  PipelineType' /\ HandlerType'
<1>0. PipelineType /\ HandlerType
  BY TypeParts DEF ResultInv
<1>1. ASSUME UNCHANGED items PROVE HandlerType'
  BY <1>0, <1>1 DEF items, HandlerType
<1>2. CASE \E n \in Node, f \in Frame : Release(n, f)
  BY <1>0, <1>1, <1>2, ReleaseType DEF Release, handler, ResultInv
<1>3. ASSUME NEW c \in calls, UpdateResult(c) PROVE PipelineType' /\ HandlerType'
  <2>1. mResultQueue' \in [Frame -> Result \cup {None}]
    BY <1>3, UpdateResultQueues DEF ResultInv, AppTypeOK
  <2>2. QED
    BY <1>0, <1>1, <1>3, <2>1 DEF UpdateResult, PipelineType, requests, handler, items, thread
<1>4. CASE DeviceStep \/ FlushStep \/ TimeOut \/ \E f \in Frame : SubmitRequest(f)
  <2>1. PipelineType'
    BY <1>0, <1>4 DEF DeviceStep, FlushStep, RegisterRequest, FlushRequest, BeginFlush,
              WaitUntilDrained, EndFlush, TimeOut, SubmitRequest, pipelines, requests,
              results, handler, items, thread, PipelineType, IInv, ShapeInv
  <2>2. UNCHANGED items
    BY <1>4 DEF DeviceStep, FlushStep, RegisterRequest, FlushRequest, BeginFlush,
              WaitUntilDrained, EndFlush, TimeOut, SubmitRequest, handler
  <2>3. QED
    BY <1>1, <2>1, <2>2
<1>5. CASE DequeResult \/ VisitFrames \/ StartCallbacks \/ PerformCallback \/ SignalDrained
  <2>1. PipelineType'
    BY <1>0, <1>5 DEF DequeResult, VisitFrames, StartCallbacks, PerformCallback,
              SignalDrained, pipelines, requests, results, handler, items, PipelineType
  <2>2. UNCHANGED items
    BY <1>5 DEF DequeResult, VisitFrames, StartCallbacks, PerformCallback, SignalDrained,
                handler
  <2>3. QED
    BY <1>1, <2>1, <2>2
<1>6. ASSUME NEW f \in Pending, SkipResult(f) PROVE PipelineType' /\ HandlerType'
  <2>1. f \in Frame
    BY DEF Pending
  <2>2. QED
    BY <1>0, <1>1, <1>6, <2>1 DEF SkipResult, PipelineType, pipelines, requests, thread, items
<1>7. CASE \E f \in Pending : UpdateFrame(f)
  BY <1>7, UpdateFrameType DEF ResultInv
<1>8. CASE \E f \in visit : ErrorFrame(f) \/ ReturnFrame(f)
  BY <1>8, VisitType DEF ResultInv
<1>9. CASE UNCHANGED vars
  BY <1>0, <1>1, <1>9 DEF vars, PipelineType, pipelines, requests, results, handler, items,
                          thread
<1>10. QED
  BY <1>2, <1>3, <1>4, <1>5, <1>6, <1>7, <1>8, <1>9 DEF Next, NodeStep, ThreadStep

LEMMA FormNext == FormInv /\ [Next]_vars => FormInv'
<1> SUFFICES ASSUME FormInv, [Next]_vars PROVE FormInv'
  OBVIOUS
<1>1. CASE UNCHANGED <<state, errorSent, emptied, errors>>
  BY <1>1 DEF FormInv
<1>2. CASE NodeStep \/ DequeResult \/ VisitFrames \/ StartCallbacks \/ PerformCallback
            \/ SignalDrained
  BY <1>1, <1>2 DEF NodeStep, Release, UpdateResult, DequeResult, VisitFrames, StartCallbacks,
                    PerformCallback, SignalDrained, handler, items
<1>3. CASE DeviceStep \/ FlushStep \/ TimeOut \/ \E f \in Frame : SubmitRequest(f)
  BY <1>1, <1>3 DEF DeviceStep, FlushStep, RegisterRequest, FlushRequest, BeginFlush,
              WaitUntilDrained, EndFlush, TimeOut, SubmitRequest, handler, items
<1>4. CASE \E f \in Pending : UpdateFrame(f) \/ SkipResult(f)
  BY <1>4 DEF UpdateFrame, SkipResult, items, FormInv
<1>5. CASE \E f \in visit : ErrorFrame(f) \/ ReturnFrame(f)
  BY <1>5 DEF ErrorFrame, ReturnFrame, FormInv
<1>6. CASE UNCHANGED vars
  BY <1>1, <1>6 DEF vars, handler, items
<1>7. QED
  BY <1>2, <1>3, <1>4, <1>5, <1>6 DEF Next, ThreadStep

\* Whatever the order of the results and whatever is in error, each metadata of a frame
\* comes to the frame handler at most once, and not before its node has made the call
\* that brings it.
THEOREM ResultsInductive == Spec => [](IInv /\ ResultInv)
<1>1. Init => IInv /\ ResultInv
  BY InvInit, ResultInit
<1>2. IInv /\ ResultInv /\ [Next]_vars => (IInv /\ ResultInv)'
  <2> SUFFICES ASSUME IInv, ResultInv, [Next]_vars PROVE (IInv /\ ResultInv)'
    OBVIOUS
  <2>1. IInv'
    BY InvNext
  <2>2. AppTypeOK'
    <3>1. ShapeInv'
      BY <2>1 DEF IInv
    <3>2. PipelineType' /\ HandlerType'
      BY TypeNext
    <3>3. QED
      BY <3>1, <3>2 DEF ShapeInv, AppTypeOK, PipelineType, HandlerType
  <2>3. FormInv' /\ CallInv' /\ JourneyInv'
    BY FormNext, CallNext, JourneyNext DEF ResultInv
  <2>4. QED
    BY <2>1, <2>2, <2>3 DEF ResultInv
<1>3. QED
  BY <1>1, <1>2, PTL DEF Spec

\* The variables keep their types; with them, no metadata is numbered above
\* mAtMostMetaStreamCount (FrameHandler::update).
THEOREM AppTypeCorrect == Spec => []AppTypeOK
<1>1. QED
  BY ResultsInductive, PTL DEF ResultInv

-----------------------------------------------------------------------------
(***************************************************************************)
(* One node at a time.                                                     *)
(***************************************************************************)

\* n is ahead of k in the part of the graph that frame f goes through.
Before(f, n, k) ==
    /\ n # k
    /\ \A S \in SUBSET NodesOf[f] :
        (k \in S /\ \A e \in Edge : e[2] \in S /\ e[1] \in NodesOf[f] => e[1] \in S) => n \in S

\* No frame goes along two branches of the graph at the same time.
OneAtATime ==
    \A f \in Frame : \A n, k \in NodesOf[f] : n = k \/ Before(f, n, k) \/ Before(f, k, n)

\* A node works on a frame when those it gets it from are through with it.
ParentInv ==
    \A f \in Frame : \A n \in released[f] :
        n \in NodesOf[f] /\ \A p \in NodesOf[f] : <<p, n>> \in Edge => Through(f, p)

OneCallInv == \A c, d \in calls : c.frame = d.frame => c = d

AllOut(f) == \A m \in OutMetas(f) : Producer[m] \in released[f]
Last(q) == q # None /\ q.lastPartial

\* What says that it is the last comes when all metadata are out, and none after it.
LastOf(f) ==
    /\ \A c \in calls : c.frame = f =>
        /\ c.lastPartial => AllOut(f)
        /\ Elements(c.buffer) # {} =>
            ~Last(mResultQueue[f]) /\ ~Last(batch[f]) /\ f \notin hasLastPartial
    /\ Last(mResultQueue[f]) \/ Last(batch[f]) \/ f \in hasLastPartial => AllOut(f)
    /\ MetasOf(mResultQueue[f]) # {} => ~Last(batch[f]) /\ f \notin hasLastPartial
    /\ MetasOf(batch[f]) # {} => f \notin hasLastPartial
LastInv == \A f \in Frame : LastOf(f)

ChainInv == ParentInv /\ OneCallInv /\ LastInv

\* The nodes ahead of one that works on a frame, or may, are through with it.
LEMMA AheadThrough ==
    ASSUME AppTypeOK, ParentInv, NEW f \in Frame, NEW k \in NodesOf[f], NEW n \in NodesOf[f],
           \A p \in NodesOf[f] : <<p, k>> \in Edge => Through(f, p), Before(f, n, k)
    PROVE  Through(f, n)
<1> DEFINE S == {j \in NodesOf[f] : j = k \/ Through(f, j)}
<1>1. ASSUME NEW e \in Edge, e[2] \in S, e[1] \in NodesOf[f] PROVE e[1] \in S
  <2>1. e = <<e[1], e[2]>>
    BY AppAssumption
  <2>2. e[2] = k \/ e[2] \in released[f]
    BY <1>1 DEF Through
  <2>3. Through(f, e[1])
    BY <1>1, <2>1, <2>2 DEF ParentInv
  <2>4. QED
    BY <1>1, <2>3
<1>2. n \in S
  BY <1>1 DEF Before
<1>3. QED
  BY <1>2 DEF Before

LEMMA ParentNext == AppTypeOK /\ ParentInv /\ [Next]_vars => ParentInv'
<1> SUFFICES ASSUME AppTypeOK, ParentInv, [Next]_vars PROVE ParentInv'
  OBVIOUS
<1>1. \A f \in Frame : NodesOf[f] \subseteq Node
  BY AppAssumption
<1>2. \A f \in Frame, p \in Node : Through(f, p) => Through(f, p)'
  BY ThroughStays
<1>3. CASE released' = released
  BY <1>1, <1>2, <1>3 DEF ParentInv
<1>4. ASSUME NEW n \in Node, NEW f \in Frame, Release(n, f) PROVE ParentInv'
  <2>1. /\ n \in NodesOf[f] /\ \A p \in NodesOf[f] : <<p, n>> \in Edge => Through(f, p)
        /\ released'[f] = released[f] \cup {n}
        /\ \A g \in Frame \ {f} : released'[g] = released[g]
    BY <1>4 DEF Release, AppTypeOK
  <2>2. QED
    BY <1>1, <1>2, <2>1 DEF ParentInv
<1>5. CASE UNCHANGED path
  BY <1>3, <1>5 DEF path
<1>6. CASE \/ \E c \in calls : UpdateResult(c)
           \/ DequeResult
           \/ \E f \in Pending : UpdateFrame(f) \/ SkipResult(f)
  BY <1>3, <1>6 DEF UpdateResult, DequeResult, UpdateFrame, SkipResult, pipelines
<1>7. QED
  BY <1>4, <1>5, <1>6, PathSteps

\* No call for the frame is about to be made when a node releases it.
LEMMA NoCallAtRelease ==
    ASSUME OneAtATime, AppTypeOK, CallInv, ParentInv, NEW n \in Node, NEW f \in Frame,
           Release(n, f)
    PROVE  \A c \in calls : c.frame # f
<1>1. /\ n \in NodesOf[f] /\ n \notin released[f]
      /\ \A p \in NodesOf[f] : <<p, n>> \in Edge => Through(f, p)
  BY DEF Release
<1>2. ASSUME NEW k \in released[f] PROVE Through(f, k)
  <2>1. k \in NodesOf[f] /\ \A p \in NodesOf[f] : <<p, k>> \in Edge => Through(f, p)
    BY DEF ParentInv
  <2>2. CASE Before(f, k, n)
    BY <1>1, <2>1, <2>2, AheadThrough
  <2>3. CASE Before(f, n, k)
    <3>1. Through(f, n)
      BY <1>1, <2>1, <2>3, AheadThrough
    <3>2. QED
      BY <1>1, <3>1 DEF Through
  <2>4. QED
    BY <1>1, <2>1, <2>2, <2>3 DEF OneAtATime
<1>3. QED
  BY <1>2 DEF CallInv, Through

LEMMA OneCallNext ==
    ASSUME OneAtATime, ResultInv, ParentInv, OneCallInv, [Next]_vars
    PROVE  OneCallInv'
<1>1. CASE calls' \subseteq calls
  BY <1>1 DEF OneCallInv
<1>2. ASSUME NEW n \in Node, NEW f \in Frame, Release(n, f) PROVE OneCallInv'
  <2>1. PICK c \in Call : calls' = calls \cup {c} /\ c.frame = f
    BY <1>2, ReleaseCall DEF ResultInv
  <2>2. \A d \in calls : d.frame # f
    BY <1>2, NoCallAtRelease DEF ResultInv
  <2>3. QED
    BY <2>1, <2>2 DEF OneCallInv
<1>3. CASE UNCHANGED path
  BY <1>1, <1>3 DEF path
<1>4. CASE \/ \E c \in calls : UpdateResult(c)
           \/ DequeResult
           \/ \E f \in Pending : UpdateFrame(f) \/ SkipResult(f)
  BY <1>1, <1>4 DEF UpdateResult, DequeResult, UpdateFrame, SkipResult, pipelines
<1>5. QED
  BY <1>2, <1>3, <1>4, PathSteps

\* Releases are only added.
LEMMA AllOutStays ==
    ASSUME AppTypeOK, [Next]_vars, NEW f \in Frame
    PROVE  /\ released[f] \subseteq released'[f]
           /\ AllOut(f) => AllOut(f)'
<1>1. released[f] \subseteq released'[f]
  <2>1. CASE UNCHANGED path
    BY <2>1 DEF path
  <2>2. CASE \E n \in Node, g \in Frame : Release(n, g)
    BY <2>2 DEF Release, AppTypeOK
  <2>3. CASE \/ \E c \in calls : UpdateResult(c)
             \/ DequeResult
             \/ \E g \in Pending : UpdateFrame(g) \/ SkipResult(g)
    BY <2>3 DEF UpdateResult, DequeResult, UpdateFrame, SkipResult, pipelines
  <2>4. QED
    BY <2>1, <2>2, <2>3, PathSteps
<1>2. QED
  BY <1>1 DEF AllOut

LEMMA LastNext ==
    ASSUME OneAtATime, ResultInv, ChainInv, [Next]_vars
    PROVE  LastInv'
<1>0. AppTypeOK /\ CallInv /\ ParentInv /\ OneCallInv /\ LastInv
  BY DEF ResultInv, ChainInv
<1>1. \A f \in Frame : AllOut(f) => AllOut(f)'
  BY <1>0, AllOutStays
<1>2. MetasOf(None) = {} /\ ~Last(None)
  BY DEF MetasOf, Last
\* The frames of which nothing moves, or is dropped.
<1>3. ASSUME NEW f \in Frame,
             \A c \in calls' : c.frame = f => c \in calls,
             mResultQueue'[f] = mResultQueue[f],
             batch'[f] = batch[f] \/ batch'[f] = None,
             f \in hasLastPartial' => f \in hasLastPartial
      PROVE  LastOf(f)'
  <2>1. LastOf(f)
    BY <1>0 DEF LastInv
  <2>2. QED
    BY <1>1, <1>2, <1>3, <2>1 DEF LastOf
<1>4. CASE UNCHANGED path
  BY <1>3, <1>4 DEF path, LastInv
<1>5. ASSUME NEW n \in Node, NEW f \in Frame, Release(n, f) PROVE LastInv'
  <2>1. PICK c \in Call :
            /\ calls' = calls \cup {c} /\ c.frame = f /\ c.node = n /\ Len(c.buffer) <= 1
            /\ Elements(c.buffer) = {m \in OutMetas(f) : Producer[m] = n}
            /\ c.lastPartial <=> \A m \in OutMetas(f) : Producer[m] \in released'[f]
    BY <1>0, <1>5, ReleaseCall
  <2>2. n \notin released[f] /\ UNCHANGED <<mResultQueue, batch, hasLastPartial>>
    BY <1>5 DEF Release, results, handler, items
  <2>3. \A d \in calls : d.frame # f
    BY <1>0, <1>5, NoCallAtRelease
  <2>4. Elements(c.buffer) # {} => ~AllOut(f)
    BY <2>1, <2>2 DEF AllOut
  <2>5. c.lastPartial => AllOut(f)'
    BY <2>1 DEF AllOut, OutMetas
  <2>6. LastOf(f)
    BY <1>0 DEF LastInv
  <2>7. LastOf(f)'
    BY <1>1, <2>1, <2>2, <2>3, <2>4, <2>5, <2>6 DEF LastOf
  <2>8. \A g \in Frame \ {f} : LastOf(g)'
    BY <1>3, <2>1, <2>2
  <2>9. QED
    BY <2>7, <2>8 DEF LastInv
<1>6. ASSUME NEW c \in calls, UpdateResult(c) PROVE LastInv'
  <2> DEFINE f == c.frame
             q == mResultQueue'[f]
  <2>1. /\ f \in Frame /\ q # None /\ q.lastPartial = c.lastPartial
        /\ mResultQueue' = [mResultQueue EXCEPT ![f] = q]
        /\ MetasOf(q) = MetasOf(mResultQueue[f]) \cup Elements(c.buffer)
    BY <1>0, <1>6, UpdateResultQueues
  <2> HIDE DEF q
  <2>2. q = mResultQueue'[f]
    BY DEF q
  <2>3. batch' = batch /\ hasLastPartial' = hasLastPartial /\ calls' = calls \ {c}
    BY <1>6 DEF UpdateResult, handler, items
  <2>4. \A d \in calls' : d.frame # f
    BY <1>0, <2>3 DEF OneCallInv
  <2>5. LastOf(f)
    BY <1>0, <2>1 DEF LastInv
  <2>6. Last(q) <=> c.lastPartial
    BY <2>1 DEF Last
  <2>7. LastOf(f)'
    BY <1>1, <2>1, <2>2, <2>3, <2>4, <2>5, <2>6 DEF LastOf
  <2>8. \A g \in Frame \ {f} : mResultQueue'[g] = mResultQueue[g]
    BY <1>0, <2>1 DEF AppTypeOK
  <2>9. \A g \in Frame \ {f} : LastOf(g)'
    BY <1>3, <2>3, <2>8
  <2>10. QED
    BY <2>7, <2>9 DEF LastInv
<1>7. CASE DequeResult
  <2>1. /\ UNCHANGED <<calls, hasLastPartial>> /\ batch' = mResultQueue
        /\ \A f \in Frame : mResultQueue'[f] = None
    BY <1>7 DEF DequeResult, pipelines, handler, items
  <2>2. ASSUME NEW f \in Frame PROVE LastOf(f)'
    <3>1. LastOf(f)
      BY <1>0 DEF LastInv
    <3>2. QED
      BY <1>1, <1>2, <2>1, <3>1 DEF LastOf
  <2>3. QED
    BY <2>2 DEF LastInv
<1>8. ASSUME NEW f \in Pending, SkipResult(f) PROVE LastInv'
  BY <1>0, <1>3, <1>8 DEF SkipResult, pipelines, items, AppTypeOK, LastInv
<1>9. ASSUME NEW f \in Pending, UpdateFrame(f) PROVE LastInv'
  <2>1. f \in Frame /\ batch[f] # None
    BY DEF Pending
  <2>2. /\ UNCHANGED <<calls, mResultQueue>> /\ batch'[f] = None
        /\ \A g \in Frame \ {f} : batch'[g] = batch[g]
    BY <1>0, <1>9, <2>1 DEF UpdateFrame, pipelines, AppTypeOK
  <2>3. hasLastPartial' = hasLastPartial \/ (Last(batch[f]) /\ hasLastPartial' = hasLastPartial \cup {f})
    BY <1>9, <2>1 DEF UpdateFrame, Last
  <2>4. LastOf(f)
    BY <1>0, <2>1 DEF LastInv
  <2>5. LastOf(f)'
    BY <1>1, <1>2, <2>1, <2>2, <2>3, <2>4 DEF LastOf
  <2>6. \A g \in Frame \ {f} : LastOf(g)'
    BY <1>3, <2>2, <2>3
  <2>7. QED
    BY <2>5, <2>6 DEF LastInv
<1>10. QED
  BY <1>4, <1>5, <1>6, <1>7, <1>8, <1>9, PathSteps

\* When the last metadata of a frame have come in, no more come.
LEMMA NoneAfterLast ==
    ASSUME ResultInv, LastInv, [Next]_vars, NEW f \in hasLastPartial
    PROVE  Arrived(f)' = Arrived(f)
<1>0. f \in Frame
  BY DEF ResultInv, AppTypeOK
<1>1. CASE bufferNo' = bufferNo
  BY <1>1 DEF Arrived
<1>2. ASSUME NEW g \in Pending, UpdateFrame(g) PROVE Arrived(f)' = Arrived(f)
  <2>1. MetasOf(batch[f]) = {}
    BY <1>0 DEF LastInv, LastOf
  <2>2. g \in Frame /\ batch[g] # None
    BY DEF Pending
  <2>3. /\ Arrived(g)' = Arrived(g) \cup MetasOf(batch[g])
        /\ \A h \in Frame \ {g} : Arrived(h)' = Arrived(h)
    BY <1>2, <2>2, NewNumbers DEF MetasOf, ResultInv
  <2>4. QED
    BY <1>0, <2>1, <2>2, <2>3
<1>3. CASE \/ UNCHANGED path
           \/ \E n \in Node, g \in Frame : Release(n, g)
           \/ \E c \in calls : UpdateResult(c)
           \/ DequeResult
           \/ \E g \in Pending : SkipResult(g)
  BY <1>1, <1>3 DEF path, Release, UpdateResult, DequeResult, SkipResult, handler, items
<1>4. QED
  BY <1>2, <1>3, PathSteps

-----------------------------------------------------------------------------
(***************************************************************************)
(* Errors.                                                                 *)
(***************************************************************************)

\* What is in error has been released, and the state of an image tells of it once it
\* is known; no image goes back before.
StateOf(f) ==
    /\ bad[f] \subseteq OutImages[f] \cup OutMetas(f)
    /\ \A s \in bad[f] : Producer[s] \in released[f]
    /\ \A s \in OutImages[f] :
        /\ state[f][s] # "IN_FLIGHT" =>
                Producer[s] \in released[f] /\ (state[f][s] = "ERROR" <=> s \in bad[f])
        /\ s \in returned[f] => state[f][s] # "IN_FLIGHT"
StateInv == \A f \in Frame : StateOf(f)

\* The errors of a frame that the framework has been told of or is about to be.
ParcelsOf(f) == {i \in DOMAIN cbList : cbList[i].frame = f}
Reported(f) == told[f].errors \cup UNION {cbList[i].errors : i \in ParcelsOf(f)}

\* An error of the request is reported of frames that have failed as a whole, others of
\* frames that have not, and each image in error that went back is accounted for.
ErrorOf(f) ==
    /\ "request" \in Reported(f) => RequestError(f)
    /\ Reported(f) \ {"request"} # {} => NotARequestError(f)
    /\ Reported(f) \ {"request", "result"} \subseteq bad[f] \cap Image
    /\ "result" \in Reported(f) => bad[f] \cap Meta # {}
    /\ \A s \in returned[f] \cap bad[f] \cap Image :
            s \in Reported(f) \/ "request" \in Reported(f)
    /\ f \notin mFrameQueue => OutImages[f] \subseteq returned[f]
ErrorInv ==
    /\ \A f \in Frame \ registered : told[f].errors = {}
    /\ \A f \in submitted \cup mFrameQueue : ErrorOf(f)

LEMMA ReportedMeans ==
    ASSUME NEW f
    PROVE  \A e : e \in Reported(f) <=>
                \/ e \in told[f].errors
                \/ \E i \in DOMAIN cbList : cbList[i].frame = f /\ e \in cbList[i].errors
BY DEF Reported, ParcelsOf

LEMMA StateNext ==
    ASSUME IInv, ResultInv, StateInv, [Next]_vars
    PROVE  StateInv'
<1>0. AppTypeOK /\ FormInv
  BY DEF ResultInv
<1>1. \A f \in Frame : released[f] \subseteq released'[f]
  BY <1>0, AllOutStays
<1>2. ASSUME UNCHANGED <<bad, state, returned>> PROVE StateInv'
  BY <1>1, <1>2 DEF StateInv, StateOf
<1>3. ASSUME NEW n \in Node, NEW f \in Frame, Release(n, f) PROVE StateInv'
  <2>1. PICK E \in SUBSET {s \in MayFail \cap (OutImages[f] \cup OutMetas(f)) : Producer[s] = n} :
            bad' = [bad EXCEPT ![f] = @ \cup E]
    BY <1>3 DEF Release
  <2>2. /\ n \notin released[f] /\ n \in released'[f] /\ UNCHANGED <<state, returned>>
        /\ bad'[f] = bad[f] \cup E /\ \A g \in Frame \ {f} : bad'[g] = bad[g]
    BY <1>0, <1>3, <2>1 DEF Release, AppTypeOK, handler, items
  <2>3. StateOf(f)
    BY DEF StateInv
  <2>4. StateOf(f)'
    BY <1>1, <2>2, <2>3 DEF StateOf
  <2>5. \A g \in Frame \ {f} : StateOf(g)'
    BY <1>1, <2>2 DEF StateInv, StateOf
  <2>6. QED
    BY <2>4, <2>5 DEF StateInv
<1>4. ASSUME NEW f \in Pending, UpdateFrame(f) PROVE StateInv'
  <2>0. f \in Frame
    BY DEF Pending
  <2>1. /\ state' = [state EXCEPT ![f] = [s \in DOMAIN @ |->
            IF @[s] = "IN_FLIGHT" /\ Users[s] \cap NodesOf[f] \subseteq released[f]
            THEN IF s \in bad[f] THEN "ERROR" ELSE "VALID"
            ELSE @[s]]]
        /\ UNCHANGED <<bad, released, returned>>
    BY <1>4 DEF UpdateFrame, pipelines
  <2>2. state'[f] = [s \in DOMAIN state[f] |->
            IF state[f][s] = "IN_FLIGHT" /\ Users[s] \cap NodesOf[f] \subseteq released[f]
            THEN IF s \in bad[f] THEN "ERROR" ELSE "VALID"
            ELSE state[f][s]]
    BY <1>0, <2>0, <2>1 DEF FormInv
  <2>3. OutImages[f] \subseteq DOMAIN state[f]
    BY <1>0, <2>0 DEF AppTypeOK
  <2>4. \A s \in OutImages[f] : Producer[s] \in Users[s] \cap NodesOf[f]
    BY <2>0, AppAssumption DEF Stream
  <2>5. StateOf(f)
    BY <2>0 DEF StateInv
  <2>6. \A s \in OutImages[f] : state'[f][s] =
            IF state[f][s] = "IN_FLIGHT" /\ Users[s] \cap NodesOf[f] \subseteq released[f]
            THEN IF s \in bad[f] THEN "ERROR" ELSE "VALID"
            ELSE state[f][s]
    BY <2>2, <2>3
  <2>7. StateOf(f)'
    BY <2>1, <2>4, <2>5, <2>6 DEF StateOf
  <2>8. \A g \in Frame \ {f} : state'[g] = state[g]
    BY <1>0, <2>1 DEF FormInv
  <2>9. \A g \in Frame \ {f} : StateOf(g)'
    BY <2>1, <2>8 DEF StateInv, StateOf
  <2>10. QED
    BY <2>7, <2>9 DEF StateInv
<1>5. ASSUME NEW f \in visit, ErrorFrame(f) \/ ReturnFrame(f) PROVE StateInv'
  <2>0. f \in Frame /\ OutImages[f] \cap Meta = {}
    BY AppAssumption DEF IInv, ShapeInv
  <2>1. UNCHANGED <<bad, released, state>>
    BY <1>5 DEF ErrorFrame, ReturnFrame, pipelines
  <2>2. \A g \in Frame \ {f} : returned'[g] = returned[g]
    BY <1>5 DEF ErrorFrame, ReturnFrame, IInv, ShapeInv
  <2>3. \A s \in OutImages[f] : s \in returned'[f] => s \in returned[f] \/ state[f][s] # "IN_FLIGHT"
    <3>1. CASE ErrorFrame(f)
      BY <3>1 DEF ErrorFrame, RequestError
    <3>2. CASE ReturnFrame(f)
      <4>1. \A s \in OutImages[f] : s \notin MetasToReturn(f)
        BY <2>0 DEF MetasToReturn, Arrived
      <4>2. QED
        BY <2>0, <3>2, <4>1
           DEF ReturnFrame, ImagesToReturn, ErrorsToSend, IInv, ShapeInv
    <3>3. QED
      BY <1>5, <3>1, <3>2
  <2>4. QED
    BY <2>0, <2>1, <2>2, <2>3 DEF StateInv, StateOf
<1>6. CASE (\E c \in calls : UpdateResult(c)) \/ DequeResult \/ \E f \in Pending : SkipResult(f)
  BY <1>2, <1>6 DEF UpdateResult, DequeResult, SkipResult, pipelines, handler, items
<1>7. CASE DeviceStep \/ FlushStep \/ TimeOut \/ \E f \in Frame : SubmitRequest(f)
  BY <1>2, <1>7 DEF DeviceStep, FlushStep, RegisterRequest, FlushRequest, BeginFlush,
              WaitUntilDrained, EndFlush, TimeOut, SubmitRequest, pipelines, handler, items
<1>8. CASE VisitFrames \/ StartCallbacks \/ PerformCallback \/ SignalDrained \/ UNCHANGED vars
  BY <1>2, <1>8 DEF VisitFrames, StartCallbacks, PerformCallback, SignalDrained, vars,
              pipelines, handler, items
<1>9. QED
  BY <1>3, <1>4, <1>5, <1>6, <1>7, <1>8 DEF Next, NodeStep, ThreadStep

\* What is known of a frame stays so: an image or a metadata that is accounted for does
\* not become one in error, nor one in error good.
LEMMA FactsStay ==
    ASSUME IInv, ResultInv, LastInv, StateInv, [Next]_vars, NEW f \in Frame
    PROVE  /\ bad[f] \subseteq bad'[f] /\ Arrived(f) \cap bad'[f] \subseteq bad[f]
           /\ Arrived(f) \subseteq Arrived(f)'
           /\ f \in hasLastPartial => f \in hasLastPartial' /\ Arrived(f)' = Arrived(f)
           /\ \A s \in OutImages[f] : state[f][s] # "IN_FLIGHT" =>
                    state'[f][s] = state[f][s] /\ (s \in bad'[f] => s \in bad[f])
<1>0. AppTypeOK /\ FormInv /\ JourneyInv
  BY DEF ResultInv
<1>1. f \in hasLastPartial => Arrived(f)' = Arrived(f)
  BY NoneAfterLast
<1>2. CASE UNCHANGED <<bad, bufferNo, hasLastPartial, state>>
  BY <1>2 DEF Arrived
<1>3. ASSUME NEW n \in Node, NEW g \in Frame, Release(n, g)
      PROVE  /\ bad[f] \subseteq bad'[f] /\ Arrived(f) \cap bad'[f] \subseteq bad[f]
             /\ \A s \in OutImages[f] : state[f][s] # "IN_FLIGHT" /\ s \in bad'[f] => s \in bad[f]
             /\ UNCHANGED <<bufferNo, hasLastPartial, state>>
  <2>1. PICK E \in SUBSET {s \in MayFail \cap (OutImages[g] \cup OutMetas(g)) : Producer[s] = n} :
            bad' = [bad EXCEPT ![g] = @ \cup E]
    BY <1>3 DEF Release
  <2>2. /\ n \notin released[g] /\ UNCHANGED <<bufferNo, hasLastPartial, state>>
        /\ bad'[f] = bad[f] \cup (IF f = g THEN E ELSE {})
    BY <1>0, <1>3, <2>1 DEF Release, AppTypeOK, handler, items
  <2>3. \A m \in Arrived(f) : Producer[m] \in released[f]
    BY <1>0 DEF JourneyInv, JourneyOf, Through
  <2>4. \A s \in OutImages[f] : state[f][s] # "IN_FLIGHT" => Producer[s] \in released[f]
    BY DEF StateInv, StateOf
  <2>5. QED
    BY <2>2, <2>3, <2>4
<1>4. ASSUME NEW g \in Pending, UpdateFrame(g)
      PROVE  /\ bad' = bad /\ Arrived(f) \subseteq Arrived(f)'
             /\ hasLastPartial \subseteq hasLastPartial'
             /\ \A s \in OutImages[f] : state[f][s] # "IN_FLIGHT" => state'[f][s] = state[f][s]
  <2>1. g \in Frame
    BY DEF Pending
  <2>2. Arrived(f) \subseteq Arrived(f)'
    BY <1>0, <1>4, NewNumbers
  <2>3. state' = [state EXCEPT ![g] = [s \in DOMAIN @ |->
            IF @[s] = "IN_FLIGHT" /\ Users[s] \cap NodesOf[g] \subseteq released[g]
            THEN IF s \in bad[g] THEN "ERROR" ELSE "VALID"
            ELSE @[s]]]
    BY <1>4 DEF UpdateFrame
  <2>4. CASE f = g
    <3>1. state'[f] = [s \in DOMAIN state[f] |->
            IF state[f][s] = "IN_FLIGHT" /\ Users[s] \cap NodesOf[g] \subseteq released[g]
            THEN IF s \in bad[g] THEN "ERROR" ELSE "VALID"
            ELSE state[f][s]]
      BY <1>0, <2>1, <2>3, <2>4 DEF FormInv
    <3>2. OutImages[f] \subseteq DOMAIN state[f]
      BY <1>0 DEF AppTypeOK
    <3>3. \A s \in OutImages[f] : state[f][s] # "IN_FLIGHT" => state'[f][s] = state[f][s]
      BY <3>1, <3>2
    <3>4. QED
      BY <1>4, <2>2, <3>3 DEF UpdateFrame, pipelines
  <2>5. CASE f # g
    <3>1. state'[f] = state[f]
      BY <1>0, <2>1, <2>3, <2>5 DEF FormInv
    <3>2. QED
      BY <1>4, <2>2, <3>1 DEF UpdateFrame, pipelines
  <2>6. QED
    BY <2>4, <2>5
<1>5. CASE \/ UNCHANGED path
           \/ \E c \in calls : UpdateResult(c)
           \/ DequeResult
           \/ \E g \in Pending : SkipResult(g)
  BY <1>2, <1>5 DEF path, UpdateResult, DequeResult, SkipResult, pipelines, handler, items
<1>6. CASE \E n \in Node, g \in Frame : Release(n, g)
  BY <1>3, <1>6 DEF Arrived
<1>7. CASE \E g \in Pending : UpdateFrame(g)
  BY <1>1, <1>4, <1>7
<1>8. QED
  BY <1>5, <1>6, <1>7, PathSteps

\* So does what is said of it as a whole.
LEMMA JudgementStays ==
    ASSUME IInv, ResultInv, LastInv, StateInv, [Next]_vars, NEW f \in Frame
    PROVE  /\ NotARequestError(f) => NotARequestError(f)'
           /\ RequestError(f) => RequestError(f)'
<1>1. /\ bad[f] \subseteq bad'[f] /\ Arrived(f) \cap bad'[f] \subseteq bad[f]
      /\ Arrived(f) \subseteq Arrived(f)'
      /\ f \in hasLastPartial => f \in hasLastPartial' /\ Arrived(f)' = Arrived(f)
      /\ \A s \in OutImages[f] : state[f][s] # "IN_FLIGHT" => state'[f][s] = state[f][s]
  BY FactsStay
<1>2. NotARequestError(f) => NotARequestError(f)'
  BY <1>1 DEF NotARequestError
<1>3. ASSUME RequestError(f) PROVE RequestError(f)'
  <2>1. \A s \in OutImages[f] : state'[f][s] = "ERROR"
    BY <1>1, <1>3 DEF RequestError
  <2>2. Arrived(f)' \cap bad'[f] # {}
    BY <1>1, <1>3 DEF RequestError
  <2>3. QED
    BY <2>1, <2>2 DEF RequestError, NotARequestError
<1>4. QED
  BY <1>2, <1>3

\* A frame of which nothing is returned and nothing new reported.
LEMMA ErrorStays ==
    ASSUME IInv, ResultInv, LastInv, StateInv, [Next]_vars, StateInv', NEW f \in Frame,
           ErrorOf(f), Reported(f)' = Reported(f), returned'[f] = returned[f],
           f \in mFrameQueue => f \in mFrameQueue'
    PROVE  ErrorOf(f)'
<1>1. /\ NotARequestError(f) => NotARequestError(f)'
      /\ RequestError(f) => RequestError(f)'
  BY JudgementStays
<1>2. /\ bad[f] \subseteq bad'[f]
      /\ \A s \in OutImages[f] : state[f][s] # "IN_FLIGHT" /\ s \in bad'[f] => s \in bad[f]
  BY FactsStay
<1>3. \A s \in returned[f] \cap bad'[f] \cap Image : s \in bad[f]
  <2>1. bad'[f] \cap Image \subseteq OutImages[f]
    BY AppAssumption DEF StateInv, StateOf, OutMetas
  <2>2. QED
    BY <1>2, <2>1 DEF StateInv, StateOf
<1>4. QED
  BY <1>1, <1>2, <1>3 DEF ErrorOf

\* A parcel that says something is added to those the thread has to send.
LEMMA PrepareAppends ==
    ASSUME IInv, NEW parcel, Prepare(parcel)
    PROVE  \/ /\ cbList' = cbList /\ parcel.images = {} /\ parcel.errors = {}
              /\ ~parcel.shutter /\ parcel.metas = <<>>
           \/ \E n : /\ DOMAIN cbList' = DOMAIN cbList \cup {n} /\ n \notin DOMAIN cbList
                     /\ cbList'[n] = parcel /\ \A i \in DOMAIN cbList : i < n
                     /\ \A i \in DOMAIN cbList : cbList'[i] = cbList[i]
<1>1. CASE cbList' = Append(cbList, parcel)
  <2>1. PICK P : cbList \in Seq(P)
    BY DEF IInv, ShapeInv
  <2>2. cbList \in Seq(P \cup {parcel}) /\ parcel \in P \cup {parcel}
    BY <2>1
  <2>3. /\ DOMAIN cbList' = DOMAIN cbList \cup {Len(cbList) + 1}
        /\ Len(cbList) + 1 \notin DOMAIN cbList
        /\ cbList'[Len(cbList) + 1] = parcel
        /\ \A i \in DOMAIN cbList : i < Len(cbList) + 1
        /\ \A i \in DOMAIN cbList : cbList'[i] = cbList[i]
    BY <1>1, <2>2
  <2>4. QED
    BY <2>3
<1>2. QED
  BY <1>1 DEF Prepare

\* The first of them is taken when its callback is made.
LEMMA CallbackTakes ==
    ASSUME IInv, PerformCallback
    PROVE  LET p == cbList[1]
           IN  /\ 1 \in DOMAIN cbList /\ p.frame \in Frame
               /\ \A i \in DOMAIN cbList' : /\ i + 1 \in DOMAIN cbList
                                           /\ cbList'[i] = cbList[i + 1]
               /\ \A i \in DOMAIN cbList : i # 1 => /\ i - 1 \in DOMAIN cbList'
                                                    /\ cbList'[i - 1] = cbList[i]
               /\ DOMAIN cbList \subseteq Nat \ {0} /\ DOMAIN cbList' \subseteq Nat \ {0}
               /\ \A g \in Frame \ {p.frame} : told'[g] = told[g]
               /\ told'[p.frame].errors = told[p.frame].errors \cup p.errors
               /\ told'[p.frame].metas = told[p.frame].metas \o p.metas
               /\ told'[p.frame].shutter =
                        told[p.frame].shutter + (IF p.shutter THEN 1 ELSE 0)
<1> DEFINE p == cbList[1]
<1>1. PICK P : cbList \in Seq(P)
  BY DEF IInv, ShapeInv
<1>2. cbList # <<>> /\ cbList' = Tail(cbList) /\ 1 \in DOMAIN cbList /\ Head(cbList) = p
  BY <1>1 DEF PerformCallback
<1>3. /\ Len(cbList) \in Nat /\ DOMAIN cbList = 1 .. Len(cbList)
      /\ DOMAIN cbList' = 1 .. Len(cbList) - 1
      /\ \A i \in DOMAIN cbList' : cbList'[i] = cbList[i + 1]
  BY <1>1, <1>2
<1>4. p.frame \in Frame
  BY <1>2 DEF IInv, ShapeInv
<1>5. /\ told'[p.frame].errors = told[p.frame].errors \cup p.errors
      /\ told'[p.frame].metas = told[p.frame].metas \o p.metas
      /\ told'[p.frame].shutter = told[p.frame].shutter + (IF p.shutter THEN 1 ELSE 0)
      /\ \A g \in Frame \ {p.frame} : told'[g] = told[g]
  BY <1>2, <1>4 DEF PerformCallback, IInv, ShapeInv
<1>6. /\ \A i \in DOMAIN cbList' : i + 1 \in DOMAIN cbList
      /\ \A i \in DOMAIN cbList : i # 1 =>
            i - 1 \in DOMAIN cbList' /\ cbList'[i - 1] = cbList[i]
  BY <1>3
<1>7. DOMAIN cbList \subseteq Nat \ {0} /\ DOMAIN cbList' \subseteq Nat \ {0}
  BY <1>3
<1>8. QED
  BY <1>2, <1>3, <1>4, <1>5, <1>6, <1>7

\* A parcel reports its errors; making the callback reports nothing new.
LEMMA PrepareReports ==
    ASSUME IInv, NEW parcel, Prepare(parcel), told' = told
    PROVE  \A g, e : e \in Reported(g)' <=>
                e \in Reported(g) \/ (g = parcel.frame /\ e \in parcel.errors)
<1>1. CASE cbList' = cbList /\ parcel.errors = {}
  BY <1>1, ReportedMeans DEF Reported, ParcelsOf
<1>2. ASSUME NEW n, DOMAIN cbList' = DOMAIN cbList \cup {n}, n \notin DOMAIN cbList,
             cbList'[n] = parcel, \A i \in DOMAIN cbList : cbList'[i] = cbList[i],
             NEW g, NEW e
      PROVE  e \in Reported(g)' <=>
                e \in Reported(g) \/ (g = parcel.frame /\ e \in parcel.errors)
  <2>1. e \in Reported(g)' <=>
            \/ e \in told[g].errors
            \/ \E i \in DOMAIN cbList' : cbList'[i].frame = g /\ e \in cbList'[i].errors
    BY DEF Reported, ParcelsOf
  <2>2. QED
    BY <1>2, <2>1, ReportedMeans
<1>3. QED
  BY <1>1, <1>2, PrepareAppends

LEMMA CallbackReports ==
    ASSUME IInv, PerformCallback
    PROVE  \A g \in Frame : Reported(g)' = Reported(g)
<1> DEFINE p == cbList[1]
<1>1. /\ 1 \in DOMAIN cbList
      /\ \A i \in DOMAIN cbList' : i + 1 \in DOMAIN cbList /\ cbList'[i] = cbList[i + 1]
      /\ \A i \in DOMAIN cbList : i # 1 =>
            i - 1 \in DOMAIN cbList' /\ cbList'[i - 1] = cbList[i]
  BY CallbackTakes
<1>0. /\ told'[p.frame].errors = told[p.frame].errors \cup p.errors
      /\ \A g \in Frame \ {p.frame} : told'[g] = told[g]
  BY CallbackTakes
<1>2. ASSUME NEW g, NEW e
      PROVE  (\E i \in DOMAIN cbList : cbList[i].frame = g /\ e \in cbList[i].errors) <=>
                \/ p.frame = g /\ e \in p.errors
                \/ \E i \in DOMAIN cbList' : cbList'[i].frame = g /\ e \in cbList'[i].errors
  BY <1>1
<1>3. ASSUME NEW g, NEW e
      PROVE  e \in Reported(g)' <=>
                \/ e \in told'[g].errors
                \/ \E i \in DOMAIN cbList' : cbList'[i].frame = g /\ e \in cbList'[i].errors
  BY DEF Reported, ParcelsOf
<1> HIDE DEF p
<1>4. ASSUME NEW g \in Frame, NEW e PROVE e \in Reported(g)' <=> e \in Reported(g)
  BY <1>0, <1>2, <1>3, ReportedMeans
<1>5. QED
  BY <1>4 DEF Reported

LEMMA ErrorFrameReports ==
    ASSUME IInv, ResultInv, LastInv, StateInv, [Next]_vars, StateInv', NEW f \in visit,
           f \in Frame, ErrorOf(f), ErrorFrame(f)
    PROVE  ErrorOf(f)'
<1> DEFINE B == (OutImages[f] \ returned[f]) \cup ImagesToReturn(f, InImages[f])
<1>1. /\ RequestError(f) /\ UNCHANGED <<bad, told>>
      /\ Prepare([frame |-> f, shutter |-> FALSE, metas |-> <<>>, errors |-> {"request"},
                  images |-> B])
  BY DEF ErrorFrame, pipelines
<1>2. \A e : e \in Reported(f)' <=> e \in Reported(f) \/ e = "request"
  BY <1>1, PrepareReports
<1>3. OutImages[f] \subseteq returned'[f]
  BY DEF ErrorFrame, IInv, ShapeInv
<1>4. /\ NotARequestError(f) => NotARequestError(f)'
      /\ RequestError(f) => RequestError(f)'
  BY JudgementStays
<1>5. QED
  BY <1>1, <1>2, <1>3, <1>4 DEF ErrorOf

LEMMA ReturnFrameReports ==
    ASSUME IInv, ResultInv, LastInv, StateInv, [Next]_vars, StateInv', NEW f \in visit,
           f \in Frame, ErrorOf(f), ReturnFrame(f)
    PROVE  ErrorOf(f)'
<1> DEFINE metas == MetasToReturn(f)
           metaErrors == ErrorsToSend(f, Arrived(f))
           imageErrors == ErrorsToSend(f, {s \in OutImages[f] : state[f][s] = "ERROR"})
           back == ImagesToReturn(f, OutImages[f] \cup InImages[f])
                    \cup (imageErrors \ returned[f])
           result == metaErrors # {} /\ "meta" \notin errors[f]
<1>1. /\ ~RequestError(f) /\ UNCHANGED <<bad, told>>
      /\ returned' = [returned EXCEPT ![f] = @ \cup metas \cup back]
      /\ RemoveOrKeep(f)
      /\ Prepare([frame |-> f, shutter |-> metas \cap Timestamped # {} /\ f \notin timestampShutter,
                  metas |-> Numbers(f, metas),
                  errors |-> imageErrors \cup (IF result THEN {"result"} ELSE {}),
                  images |-> back])
  BY DEF ReturnFrame, pipelines
<1>2. \A e : e \in Reported(f)' <=>
            e \in Reported(f) \/ e \in imageErrors \/ (result /\ e = "result")
  BY <1>1, PrepareReports
<1>3. /\ imageErrors \subseteq bad[f] \cap OutImages[f]
      /\ imageErrors # {} => NotARequestError(f)
      /\ result => NotARequestError(f) /\ bad[f] \cap Arrived(f) # {}
  BY DEF ErrorsToSend
<1>4. /\ NotARequestError(f) => NotARequestError(f)'
      /\ RequestError(f) => RequestError(f)'
  BY JudgementStays
<1>5. /\ OutImages[f] \subseteq Image /\ InImages[f] \subseteq Image /\ Arrived(f) \subseteq Meta
      /\ OutImages[f] \cap InImages[f] = {} /\ Image \cap Meta = {}
      /\ "request" \notin Image /\ "result" \notin Image
  BY AppAssumption DEF Arrived
<1>6. "request" \notin Reported(f)'
  BY <1>1, <1>2, <1>3, <1>5 DEF ErrorOf
<1>7. \A s \in returned'[f] \cap bad[f] \cap Image : s \in returned[f] \/ s \in imageErrors
  <2>1. returned'[f] = returned[f] \cup metas \cup back
    BY <1>1 DEF IInv, ShapeInv
  <2>2. metas \subseteq Meta
    BY <1>5 DEF MetasToReturn
  <2>3. bad[f] \cap Image \subseteq OutImages[f]
    BY <1>5 DEF StateInv, StateOf, OutMetas
  <2>4. \A s \in OutImages[f] : state[f][s] = "VALID" => s \notin bad[f]
    BY DEF StateInv, StateOf
  <2>5. ASSUME NEW s \in ImagesToReturn(f, OutImages[f] \cup InImages[f])
        PROVE  s \notin bad[f] \cap Image
    BY <2>3, <2>4 DEF ImagesToReturn
  <2>6. QED
    BY <1>5, <2>1, <2>2, <2>5
<1>8. f \in mFrameQueue
  BY DEF IInv, ShapeInv
<1>9. f \notin mFrameQueue' => OutImages[f] \subseteq returned'[f]
  BY <1>1, <1>8 DEF RemoveOrKeep, IsFrameRemovable
<1> HIDE DEF metas, metaErrors, imageErrors, back, result
<1>10. /\ Reported(f)' \ {"request"} # {} => NotARequestError(f)
       /\ Reported(f)' \ {"request", "result"} \subseteq bad[f] \cap Image
       /\ "result" \in Reported(f)' => bad[f] \cap Meta # {}
  BY <1>2, <1>3, <1>5 DEF ErrorOf
<1>11. \A s \in returned'[f] \cap bad[f] \cap Image : s \in Reported(f)'
  BY <1>2, <1>6, <1>7 DEF ErrorOf
<1>12. QED
  BY <1>1, <1>4, <1>6, <1>9, <1>10, <1>11 DEF ErrorOf

LEMMA UnregisteredHasNothing ==
    ASSUME IInv, ErrorInv, NEW f \in Frame \ registered
    PROVE  returned[f] = {} /\ Reported(f) = {}
<1>1. ParcelsOf(f) = {}
  BY DEF ParcelsOf, IInv, ShapeInv
<1>2. told[f].errors = {}
  BY DEF ErrorInv
<1>3. Reported(f) = {}
  BY <1>1, <1>2 DEF Reported
<1>4. QED
  BY <1>3 DEF IInv, ReturnInv

LEMMA ErrorNext ==
    ASSUME IInv, ResultInv, LastInv, StateInv, ErrorInv, [Next]_vars
    PROVE  ErrorInv'
<1>0. StateInv'
  BY StateNext
<1>1. /\ mFrameQueue \subseteq registered /\ submitted \subseteq registered
      /\ registered \subseteq Frame /\ visit \subseteq mFrameQueue
  BY DEF IInv, ShapeInv, ResultInv, AppTypeOK
<1>2. ASSUME UNCHANGED <<submitted, registered, mFrameQueue, returned, cbList, told>>
      PROVE  ErrorInv'
  <2>1. \A f \in Frame : Reported(f)' = Reported(f)
    BY <1>2 DEF Reported, ParcelsOf
  <2>2. \A f \in submitted \cup mFrameQueue : ErrorOf(f)'
    BY <1>0, <1>1, <1>2, <2>1, ErrorStays DEF ErrorInv
  <2>3. QED
    BY <1>2, <2>2 DEF ErrorInv
<1>3. CASE \/ NodeStep \/ BeginFlush \/ FlushStep \/ TimeOut \/ DequeResult \/ VisitFrames
           \/ StartCallbacks \/ SignalDrained \/ UNCHANGED vars
           \/ \E f \in Pending : UpdateFrame(f) \/ SkipResult(f)
  BY <1>2, <1>3 DEF NodeStep, Release, UpdateResult, BeginFlush, FlushStep, WaitUntilDrained,
              EndFlush, TimeOut, DequeResult, VisitFrames, StartCallbacks, SignalDrained, vars,
              UpdateFrame, SkipResult, pipelines, requests, results, handler, items, thread
<1>4. ASSUME NEW f \in Frame, SubmitRequest(f) PROVE ErrorInv'
  <2>1. /\ submitted' \cup mFrameQueue' = submitted \cup mFrameQueue
        /\ UNCHANGED <<registered, mFrameQueue, returned, cbList, told>>
    BY <1>4 DEF SubmitRequest, requests, handler, items, thread
  <2>2. \A g \in Frame : Reported(g)' = Reported(g)
    BY <2>1 DEF Reported, ParcelsOf
  <2>3. \A g \in submitted' \cup mFrameQueue' : ErrorOf(g)'
    BY <1>0, <1>1, <2>1, <2>2, ErrorStays DEF ErrorInv
  <2>4. QED
    BY <2>1, <2>3 DEF ErrorInv
<1>5. ASSUME NEW f \in Frame, RegisterRequest(f) PROVE ErrorInv'
  <2>1. /\ f \notin registered /\ registered' = registered \cup {f}
        /\ mFrameQueue' = mFrameQueue \cup {f}
        /\ UNCHANGED <<submitted, returned, cbList, told>>
    BY <1>5 DEF RegisterRequest, NextRequest, pipelines, items, thread
  <2>2. \A g \in Frame : Reported(g)' = Reported(g)
    BY <2>1 DEF Reported, ParcelsOf
  <2>3. \A g \in submitted \cup mFrameQueue : ErrorOf(g)'
    BY <1>0, <1>1, <2>1, <2>2, ErrorStays DEF ErrorInv
  <2>4. returned[f] = {} /\ Reported(f) = {}
    BY <2>1, UnregisteredHasNothing
  <2>5. ErrorOf(f)'
    BY <2>1, <2>2, <2>4 DEF ErrorOf
  <2>6. QED
    BY <2>1, <2>3, <2>5 DEF ErrorInv
<1>6. ASSUME NEW f \in Frame, FlushRequest(f) PROVE ErrorInv'
  <2>1. /\ f \notin registered /\ registered' = registered \cup {f}
        /\ UNCHANGED <<submitted, mFrameQueue, returned, cbList>>
    BY <1>6 DEF FlushRequest, NextRequest, pipelines, handler, items, thread
  <2>2. \A g \in Frame \ {f} : told'[g] = told[g]
    BY <1>6 DEF FlushRequest, IInv, ShapeInv
  <2>3. \A g \in Frame \ {f} : Reported(g)' = Reported(g)
    BY <2>1, <2>2 DEF Reported, ParcelsOf
  <2>4. \A g \in submitted \cup mFrameQueue : ErrorOf(g)'
    BY <1>0, <1>1, <2>1, <2>3, ErrorStays DEF ErrorInv
  <2>5. QED
    BY <2>1, <2>2, <2>4 DEF ErrorInv
<1>7. CASE PerformCallback
  <2>1. UNCHANGED <<submitted, registered, mFrameQueue, returned>>
    BY <1>7 DEF PerformCallback, pipelines, requests, handler, items
  <2>2. \A g \in Frame : Reported(g)' = Reported(g)
    BY <1>7, CallbackReports
  <2>3. \A g \in submitted \cup mFrameQueue : ErrorOf(g)'
    BY <1>0, <1>1, <2>1, <2>2, ErrorStays DEF ErrorInv
  <2>4. ASSUME NEW g \in Frame \ registered PROVE told'[g].errors = {}
    <3>1. Reported(g) = {}
      BY UnregisteredHasNothing
    <3>2. told'[g].errors \subseteq Reported(g)'
      BY DEF Reported
    <3>3. QED
      BY <2>2, <3>1, <3>2
  <2>5. QED
    BY <2>1, <2>3, <2>4 DEF ErrorInv
<1>8. ASSUME NEW f \in visit, ErrorFrame(f) \/ ReturnFrame(f) PROVE ErrorInv'
  <2>0. f \in Frame /\ f \in mFrameQueue
    BY <1>1
  <2>1. /\ UNCHANGED <<submitted, registered, told>>
        /\ mFrameQueue' \subseteq mFrameQueue /\ mFrameQueue \subseteq mFrameQueue' \cup {f}
    BY <1>8 DEF ErrorFrame, ReturnFrame, RemoveOrKeep, pipelines, requests
  <2>2. \A g \in Frame \ {f} : returned'[g] = returned[g]
    BY <1>8 DEF ErrorFrame, ReturnFrame, IInv, ShapeInv
  <2>3. PICK parcel : Prepare(parcel) /\ parcel.frame = f
    <3>1. CASE ErrorFrame(f)
      <4>1. PICK p : /\ p = [frame |-> f, shutter |-> FALSE, metas |-> <<>>,
                             errors |-> {"request"},
                             images |-> (OutImages[f] \ returned[f])
                                            \cup ImagesToReturn(f, InImages[f])]
                     /\ Prepare(p)
        BY <3>1 DEF ErrorFrame
      <4>2. QED
        BY <4>1
    <3>2. CASE ReturnFrame(f)
      <4>1. \E sh, me, er, im :
                Prepare([frame |-> f, shutter |-> sh, metas |-> me, errors |-> er, images |-> im])
        BY <3>2 DEF ReturnFrame
      <4>2. PICK sh, me, er, im :
                Prepare([frame |-> f, shutter |-> sh, metas |-> me, errors |-> er, images |-> im])
        BY <4>1
      <4>3. PICK p : p = [frame |-> f, shutter |-> sh, metas |-> me, errors |-> er,
                          images |-> im]
        OBVIOUS
      <4>4. QED
        BY <4>2, <4>3
    <3>3. QED
      BY <1>8, <3>1, <3>2
  <2>4. \A g \in Frame \ {f} : Reported(g)' = Reported(g)
    <3>1. \A g, e : e \in Reported(g)' <=>
                e \in Reported(g) \/ (g = parcel.frame /\ e \in parcel.errors)
      BY <2>1, <2>3, PrepareReports
    <3>2. QED
      BY <2>3, <3>1 DEF Reported
  <2>5. \A g \in (submitted \cup mFrameQueue) \ {f} : ErrorOf(g)'
    BY <1>0, <1>1, <2>1, <2>2, <2>4, ErrorStays DEF ErrorInv
  <2>6. ErrorOf(f)'
    BY <1>0, <1>8, <2>0, ErrorFrameReports, ReturnFrameReports DEF ErrorInv
  <2>7. QED
    BY <2>1, <2>5, <2>6 DEF ErrorInv
<1>9. QED
  BY <1>3, <1>4, <1>5, <1>6, <1>7, <1>8 DEF Next, DeviceStep, ThreadStep

LEMMA ChainInit == Init => ChainInv /\ StateInv /\ ErrorInv
<1> SUFFICES ASSUME Init PROVE ChainInv /\ StateInv /\ ErrorInv
  OBVIOUS
<1>1. MetasOf(None) = {} /\ ~Last(None)
  BY DEF MetasOf, Last
<1>2. ParentInv /\ OneCallInv
  BY DEF Init, ParentInv, OneCallInv
<1>3. LastInv
  BY <1>1 DEF Init, LastInv, LastOf
<1>4. StateInv
  BY DEF Init, StateInv, StateOf
<1>5. ErrorInv
  <2>1. \A f \in Frame : told[f] = Untold
    BY DEF Init
  <2>2. QED
    BY <2>1 DEF Init, Untold, ErrorInv
<1>6. QED
  BY <1>2, <1>3, <1>4, <1>5 DEF ChainInv

\* What holds of any frame while its results come in, when its graph has no branches
\* that it goes along at the same time.
THEOREM ChainInductive ==
    ASSUME OneAtATime
    PROVE  Spec => [](IInv /\ ResultInv /\ ChainInv /\ StateInv)
<1>1. IInv /\ ResultInv /\ ChainInv /\ StateInv /\ (IInv /\ ResultInv)' /\ [Next]_vars
            => (ChainInv /\ StateInv)'
  BY ParentNext, OneCallNext, LastNext, StateNext DEF ChainInv, ResultInv
<1>2. QED
  BY <1>1, ChainInit, ResultsInductive, PTL DEF Spec

\* The framework hears of a failed request only when every output of it is in error, and
\* then of nothing else, however the results of its nodes come in; otherwise it hears of
\* the images in error one by one, each by the time the frame is done
\* (FrameHandler::checkRequestError, prepareErrorFrame, prepareErrorImage).  It takes a
\* graph whose nodes work on a frame one after the other: with branches, the result that
\* says it is the last may come in before another, and the verdict is passed early.
THEOREM ErrorsReportedAreReal ==
    ASSUME OneAtATime
    PROVE  Spec => []ErrorsAreReal
<1>1. IInv /\ ResultInv /\ ChainInv /\ StateInv /\ ErrorInv /\ [Next]_vars => ErrorInv'
  BY ErrorNext DEF ChainInv
<1>2. ASSUME ResultInv, StateInv, ErrorInv, NEW f \in submitted
      PROVE  /\ "request" \in told[f].errors => /\ OutImages[f] \subseteq bad[f]
                                                /\ told[f].errors = {"request"}
             /\ told[f].errors \cap Image \subseteq bad[f]
             /\ "result" \in told[f].errors => bad[f] \cap Meta # {}
             /\ Settled(f) => "request" \in told[f].errors
                                \/ bad[f] \cap Image \subseteq told[f].errors
  <2>1. f \in Frame /\ ErrorOf(f) /\ StateOf(f)
    BY <1>2 DEF ResultInv, AppTypeOK, ErrorInv, StateInv
  <2>2. told[f].errors \subseteq Reported(f)
    BY DEF Reported
  <2>3. "request" \notin Image /\ "result" \notin Image
    BY AppAssumption
  <2>4. "request" \in told[f].errors => /\ OutImages[f] \subseteq bad[f]
                                        /\ told[f].errors = {"request"}
    BY <2>1, <2>2 DEF ErrorOf, StateOf, RequestError
  <2>5. told[f].errors \cap Image \subseteq bad[f]
    BY <2>1, <2>2, <2>3 DEF ErrorOf
  <2>6. "result" \in told[f].errors => bad[f] \cap Meta # {}
    BY <2>1, <2>2 DEF ErrorOf
  <2>7. ASSUME Settled(f), "request" \notin told[f].errors
        PROVE  bad[f] \cap Image \subseteq told[f].errors
    <3>1. ParcelsOf(f) = {}
      BY <2>7 DEF Settled, ParcelsOf
    <3>2. Reported(f) = told[f].errors
      BY <3>1 DEF Reported
    <3>3. OutImages[f] \subseteq returned[f]
      BY <2>1, <2>7 DEF Settled, ErrorOf
    <3>4. bad[f] \cap Image \subseteq OutImages[f]
      BY <2>1, AppAssumption DEF StateOf, OutMetas
    <3>5. QED
      BY <2>1, <2>7, <3>2, <3>3, <3>4 DEF ErrorOf
  <2>8. QED
    BY <2>4, <2>5, <2>6, <2>7
<1>3. ResultInv /\ StateInv /\ ErrorInv => ErrorsAreReal
  BY <1>2 DEF ErrorsAreReal
<1>4. QED
  BY <1>1, <1>3, ChainInit, ChainInductive, PTL DEF Spec

-----------------------------------------------------------------------------
(***************************************************************************)
(* The order of the metadata.                                              *)
(***************************************************************************)

\* The stream ids of the metadata of a frame ascend along its graph.
IdsInOrder ==
    \A f \in Frame : \A m, k \in OutMetas(f) :
        Before(f, Producer[m], Producer[k]) => m < k

Ascending(s) == \A i, j \in DOMAIN s : i < j => s[i] < s[j]
Below(S, T) == \A m \in S, k \in T : m < k

\* The metadata come in by ascending ids.
OrderOf(f) ==
    /\ mResultQueue[f] # None => Ascending(mResultQueue[f].buffer)
    /\ batch[f] # None => Ascending(batch[f].buffer)
    /\ Below(Arrived(f), MetasOf(batch[f]) \cup MetasOf(mResultQueue[f]))
    /\ Below(MetasOf(batch[f]), MetasOf(mResultQueue[f]))
OrderInv == \A f \in Frame : OrderOf(f)

\* What a call brings has a larger id than all that came before.
LEMMA CallIsAbove ==
    ASSUME OneAtATime, IdsInOrder, AppTypeOK, CallInv, ParentInv, NEW c \in calls,
           c.frame \in Frame, NEW k \in Elements(c.buffer), NEW m \in OutMetas(c.frame),
           Through(c.frame, Producer[m])
    PROVE  m < k
<1> DEFINE f == c.frame
           n == Producer[m]
           p == Producer[k]
<1>1. k \in OutMetas(f) /\ p = c.node /\ p \in released[f] /\ ~Through(f, p)
  BY DEF CallInv, Through
<1>2. n \in NodesOf[f] /\ p \in NodesOf[f] /\ n # p /\ n \in released[f]
  BY <1>1 DEF OutMetas, Through
<1>3. ~Before(f, p, n)
  <2>1. \A j \in NodesOf[f] : <<j, n>> \in Edge => Through(f, j)
    BY <1>2 DEF ParentInv
  <2>2. QED
    BY <1>1, <1>2, <2>1, AheadThrough
<1>4. Before(f, n, p)
  BY <1>2, <1>3 DEF OneAtATime
<1>5. QED
  BY <1>1, <1>4 DEF IdsInOrder

LEMMA OrderNext ==
    ASSUME OneAtATime, IdsInOrder, ResultInv, ParentInv, OrderInv, [Next]_vars
    PROVE  OrderInv'
<1>0. AppTypeOK /\ CallInv /\ JourneyInv
  BY DEF ResultInv
<1>1. MetasOf(None) = {}
  BY DEF MetasOf
<1>2. ASSUME NEW f \in Frame,
             \/ mResultQueue'[f] = mResultQueue[f] /\ batch'[f] = batch[f]
             \/ mResultQueue'[f] = mResultQueue[f] /\ batch'[f] = None
             \/ mResultQueue'[f] = None /\ batch'[f] = mResultQueue[f],
             Arrived(f)' = Arrived(f)
      PROVE  OrderOf(f)'
  <2>1. OrderOf(f)
    BY DEF OrderInv
  <2>2. QED
    BY <1>1, <1>2, <2>1 DEF OrderOf, Below
<1>3. CASE UNCHANGED path
  BY <1>2, <1>3 DEF path, Arrived, OrderInv
<1>4. CASE \E n \in Node, f \in Frame : Release(n, f)
  BY <1>2, <1>4 DEF Release, results, handler, items, Arrived, OrderInv
<1>5. CASE DequeResult \/ \E f \in Pending : SkipResult(f)
  BY <1>0, <1>2, <1>5 DEF DequeResult, SkipResult, handler, items, Arrived, OrderInv, AppTypeOK
<1>6. ASSUME NEW c \in calls, UpdateResult(c) PROVE OrderInv'
  <2> DEFINE f == c.frame
             q == mResultQueue'[f]
  <2>1. /\ f \in Frame /\ c.buffer \in Seq(Meta)
        /\ mResultQueue' = [mResultQueue EXCEPT ![f] = q]
        /\ q \in Result /\ q # None
        /\ q.buffer = IF mResultQueue[f] = None THEN c.buffer
                      ELSE mResultQueue[f].buffer \o c.buffer
        /\ MetasOf(q) = MetasOf(mResultQueue[f]) \cup Elements(c.buffer)
    BY <1>0, <1>6, UpdateResultQueues
  <2> HIDE DEF q
  <2>2. q = mResultQueue'[f]
    BY DEF q
  <2>3. batch' = batch /\ \A g \in Frame : Arrived(g)' = Arrived(g)
    BY <1>6 DEF UpdateResult, handler, items, Arrived
  <2>4. OrderOf(f) /\ JourneyOf(f)
    BY <1>0, <2>1 DEF OrderInv, JourneyInv
  <2>5. \A k \in Elements(c.buffer) :
            \A m \in MetasOf(mResultQueue[f]) \cup MetasOf(batch[f]) \cup Arrived(f) : m < k
    BY <1>0, <2>1, <2>4, CallIsAbove DEF JourneyOf
  <2>6. Ascending(q.buffer)
    <3>1. Len(c.buffer) \in Nat /\ Len(c.buffer) <= 1 /\ DOMAIN c.buffer = 1 .. Len(c.buffer)
      BY <1>0, <2>1 DEF CallInv
    <3>2. CASE mResultQueue[f] = None
      BY <2>1, <3>1, <3>2 DEF Ascending
    <3>3. CASE mResultQueue[f] # None
      <4> DEFINE s == mResultQueue[f].buffer
                 t == c.buffer
      <4>1. s \in Seq(Meta) /\ t \in Seq(Meta) /\ MetasOf(mResultQueue[f]) = Elements(s)
        BY <1>0, <2>1, <3>3 DEF AppTypeOK, Result, MetasOf
      <4>2. Ascending(s) /\ q.buffer = s \o t
        BY <2>1, <2>4, <3>3 DEF OrderOf
      <4> HIDE DEF s, t
      <4>3. /\ DOMAIN (s \o t) = 1 .. Len(s) + Len(t) /\ Len(s) \in Nat /\ Len(t) \in Nat
            /\ \A i \in 1 .. Len(s) + Len(t) :
                    (s \o t)[i] = IF i <= Len(s) THEN s[i] ELSE t[i - Len(s)]
            /\ DOMAIN s = 1 .. Len(s) /\ DOMAIN t = 1 .. Len(t)
        BY <4>1
      <4>4. ASSUME NEW i \in DOMAIN (s \o t), NEW j \in DOMAIN (s \o t), i < j
            PROVE  (s \o t)[i] < (s \o t)[j]
        <5>1. i <= Len(s)
          BY <3>1, <4>3, <4>4 DEF t
        <5>2. CASE j <= Len(s)
          BY <4>2, <4>3, <4>4, <5>1, <5>2 DEF Ascending
        <5>3. CASE j > Len(s)
          <6>1. (s \o t)[i] = s[i] /\ i \in DOMAIN s
            BY <4>3, <5>1
          <6>2. (s \o t)[j] = t[j - Len(s)] /\ j - Len(s) \in DOMAIN t
            BY <4>3, <5>3
          <6>3. s[i] \in Elements(s) /\ t[j - Len(s)] \in Elements(t)
            BY <6>1, <6>2 DEF Elements
          <6>4. QED
            BY <2>5, <4>1, <6>1, <6>2, <6>3 DEF t
        <5>4. QED
          BY <4>3, <5>2, <5>3
      <4>5. QED
        BY <4>2, <4>4 DEF Ascending
    <3>4. QED
      BY <3>2, <3>3
  <2>7. OrderOf(f)'
    BY <2>1, <2>2, <2>3, <2>4, <2>5, <2>6 DEF OrderOf, Below
  <2>8. \A g \in Frame \ {f} : mResultQueue'[g] = mResultQueue[g]
    BY <1>0, <2>1 DEF AppTypeOK
  <2>9. \A g \in Frame \ {f} : OrderOf(g)'
    BY <1>2, <2>3, <2>8
  <2>10. QED
    BY <2>7, <2>9 DEF OrderInv
<1>7. ASSUME NEW f \in Pending, UpdateFrame(f) PROVE OrderInv'
  <2>1. f \in Frame /\ batch[f] # None
    BY DEF Pending
  <2>2. /\ Arrived(f)' = Arrived(f) \cup MetasOf(batch[f])
        /\ \A g \in Frame \ {f} : Arrived(g)' = Arrived(g)
    BY <1>0, <1>7, <2>1, NewNumbers DEF MetasOf
  <2>3. /\ mResultQueue' = mResultQueue /\ batch'[f] = None
        /\ \A g \in Frame \ {f} : batch'[g] = batch[g]
    BY <1>0, <1>7, <2>1 DEF UpdateFrame, AppTypeOK
  <2>4. OrderOf(f)
    BY <2>1 DEF OrderInv
  <2>5. OrderOf(f)'
    BY <1>1, <2>2, <2>3, <2>4 DEF OrderOf, Below
  <2>6. \A g \in Frame \ {f} : OrderOf(g)'
    BY <1>2, <2>2, <2>3
  <2>7. QED
    BY <2>5, <2>6 DEF OrderInv
<1>8. QED
  BY <1>3, <1>4, <1>5, <1>6, <1>7, PathSteps

-----------------------------------------------------------------------------
(***************************************************************************)
(* No metadata is lost on the way.                                         *)
(***************************************************************************)

\* The thread has nothing in its hands when it goes for more.
IdleInv == pc # "update" => \A f \in Frame : batch[f] = None

\* A metadata that is out is in a call, a result or the frame handler, as long as the
\* frame is in its queue; and a result that is not said to be the last leaves one to come.
LocatedOf(f) ==
    LET queued == MetasOf(mResultQueue[f])
        taken == MetasOf(batch[f])
    IN  /\ f \notin submitted => released[f] = {}
        /\ \A c \in calls : c.frame = f =>
            /\ AllOut(f) => c.lastPartial
            /\ \A m \in OutMetas(f) : Producer[m] = c.node => m \in Elements(c.buffer)
        /\ f \in mFrameQueue => \A m \in OutMetas(f) : Producer[m] \in released[f] =>
            \/ \E c \in calls : c.frame = f /\ m \in Elements(c.buffer)
            \/ m \in queued \cup taken \cup Arrived(f)
        /\ mResultQueue[f] # None =>
            Last(mResultQueue[f]) \/ ~(OutMetas(f) \subseteq queued \cup taken \cup Arrived(f))
        /\ batch[f] # None => Last(batch[f]) \/ ~(OutMetas(f) \subseteq taken \cup Arrived(f))
        /\ f \notin hasLastPartial => ~(OutMetas(f) \subseteq Arrived(f))
LocatedInv == \A f \in Frame : LocatedOf(f)

LEMMA IdleNext == AppTypeOK /\ IdleInv /\ [Next]_vars => IdleInv'
<1> SUFFICES ASSUME AppTypeOK, IdleInv, [Next]_vars PROVE IdleInv'
  OBVIOUS
<1>1. CASE UNCHANGED <<pc, batch>>
  BY <1>1 DEF IdleInv
<1>2. CASE \/ NodeStep \/ DeviceStep \/ FlushStep \/ TimeOut \/ PerformCallback \/ UNCHANGED vars
           \/ \E f \in Frame : SubmitRequest(f)
           \/ \E f \in visit : ErrorFrame(f) \/ ReturnFrame(f)
  BY <1>1, <1>2 DEF NodeStep, Release, UpdateResult, DeviceStep, FlushStep, RegisterRequest,
              FlushRequest, BeginFlush, WaitUntilDrained, EndFlush, TimeOut, SubmitRequest,
              PerformCallback, ErrorFrame, ReturnFrame, vars, results, handler, thread
<1>3. CASE DequeResult
  BY <1>3 DEF DequeResult, IdleInv
<1>4. CASE \E f \in Pending : UpdateFrame(f) \/ SkipResult(f)
  BY <1>4 DEF UpdateFrame, SkipResult, thread, IdleInv
<1>5. CASE VisitFrames
  BY <1>5 DEF VisitFrames, Pending, results, IdleInv
<1>6. CASE StartCallbacks \/ SignalDrained
  BY <1>6 DEF StartCallbacks, SignalDrained, results, IdleInv
<1>7. QED
  BY <1>2, <1>3, <1>4, <1>5, <1>6 DEF Next, ThreadStep

\* Frames come to the queue of the frame handler when they are requested.
LEMMA FrameSteps ==
    ASSUME [Next]_vars
    PROVE  /\ submitted \subseteq submitted' /\ registered \subseteq registered'
           /\ mFrameQueue' \ mFrameQueue \subseteq Frame \ registered
<1>1. CASE UNCHANGED <<submitted, registered, mFrameQueue>>
  BY <1>1
<1>2. CASE \/ NodeStep \/ BeginFlush \/ FlushStep \/ TimeOut \/ DequeResult \/ VisitFrames
           \/ StartCallbacks \/ PerformCallback \/ SignalDrained \/ UNCHANGED vars
           \/ \E f \in Pending : UpdateFrame(f) \/ SkipResult(f)
  BY <1>1, <1>2 DEF NodeStep, Release, UpdateResult, BeginFlush, FlushStep, WaitUntilDrained,
              EndFlush, TimeOut, DequeResult, VisitFrames, StartCallbacks, PerformCallback,
              SignalDrained, vars, UpdateFrame, SkipResult, pipelines, requests, handler
<1>3. CASE \E f \in Frame : RegisterRequest(f) \/ FlushRequest(f) \/ SubmitRequest(f)
  BY <1>3 DEF RegisterRequest, FlushRequest, SubmitRequest, NextRequest, pipelines, requests,
              handler
<1>4. CASE \E f \in visit : ErrorFrame(f) \/ ReturnFrame(f)
  BY <1>4 DEF ErrorFrame, ReturnFrame, RemoveOrKeep, pipelines, requests
<1>5. QED
  BY <1>2, <1>3, <1>4 DEF Next, DeviceStep, ThreadStep

LEMMA LocatedNext ==
    ASSUME OneAtATime, ResultInv, ChainInv, IdleInv, LocatedInv, [Next]_vars
    PROVE  LocatedInv'
<1>0. AppTypeOK /\ CallInv /\ JourneyInv /\ ParentInv /\ OneCallInv /\ LastInv
  BY DEF ResultInv, ChainInv
<1>1. MetasOf(None) = {} /\ ~Last(None)
  BY DEF MetasOf, Last
<1>2. /\ submitted \subseteq submitted' /\ submitted \subseteq registered
      /\ mFrameQueue' \ mFrameQueue \subseteq Frame \ registered
  BY <1>0, FrameSteps DEF AppTypeOK
\* The frames of which nothing moves but what the thread takes off the queue.
<1>3. ASSUME NEW f \in Frame,
             \/ mResultQueue'[f] = mResultQueue[f] /\ batch'[f] = batch[f]
             \/ mResultQueue'[f] = None /\ batch'[f] = mResultQueue[f] /\ batch[f] = None,
             released'[f] = released[f], \A c : c.frame = f => (c \in calls <=> c \in calls'),
             Arrived(f)' = Arrived(f), f \in hasLastPartial => f \in hasLastPartial'
      PROVE  LocatedOf(f)'
  <2>1. LocatedOf(f)
    BY DEF LocatedInv
  <2>2. OutMetas(f)' = OutMetas(f)
    BY DEF OutMetas
  <2>3. f \in mFrameQueue' => f \in mFrameQueue \/ released[f] = {}
    BY <1>2, <2>1 DEF LocatedOf
  <2>4. QED
    BY <1>1, <1>2, <1>3, <2>1, <2>2, <2>3 DEF LocatedOf, AllOut
<1>4. CASE UNCHANGED path
  BY <1>3, <1>4 DEF path, Arrived, LocatedInv
<1>5. ASSUME NEW n \in Node, NEW f \in Frame, Release(n, f) PROVE LocatedInv'
  <2>1. PICK c \in Call :
            /\ calls' = calls \cup {c} /\ c.frame = f /\ c.node = n
            /\ Elements(c.buffer) = {m \in OutMetas(f) : Producer[m] = n}
            /\ c.lastPartial <=> \A m \in OutMetas(f) : Producer[m] \in released'[f]
    BY <1>0, <1>5, ReleaseCall
  <2>2. /\ f \in submitted /\ f \in submitted' /\ released'[f] = released[f] \cup {n}
        /\ \A g \in Frame \ {f} : released'[g] = released[g]
        /\ UNCHANGED <<mResultQueue, batch, hasLastPartial, bufferNo, mFrameQueue>>
    BY <1>0, <1>5 DEF Release, AppTypeOK, results, handler, items
  <2>3. \A d \in calls : d.frame # f
    BY <1>0, <1>5, NoCallAtRelease
  <2>4. \A g \in Frame : Arrived(g)' = Arrived(g)
    BY <2>2 DEF Arrived
  <2>5. LocatedOf(f)
    BY DEF LocatedInv
  <2>6. LocatedOf(f)'
    BY <2>1, <2>2, <2>3, <2>4, <2>5 DEF LocatedOf, AllOut
  <2>7. \A g \in Frame \ {f} : LocatedOf(g)'
    BY <1>3, <2>1, <2>2, <2>4
  <2>8. QED
    BY <2>6, <2>7 DEF LocatedInv
<1>6. ASSUME NEW c \in calls, UpdateResult(c) PROVE LocatedInv'
  <2> DEFINE f == c.frame
             q == mResultQueue'[f]
  <2>1. /\ f \in Frame /\ q # None /\ q.lastPartial = c.lastPartial
        /\ mResultQueue' = [mResultQueue EXCEPT ![f] = q]
        /\ MetasOf(q) = MetasOf(mResultQueue[f]) \cup Elements(c.buffer)
    BY <1>0, <1>6, UpdateResultQueues
  <2> HIDE DEF q
  <2>2. q = mResultQueue'[f]
    BY DEF q
  <2>3. /\ calls' = calls \ {c}
        /\ UNCHANGED <<submitted, released, batch, hasLastPartial, bufferNo, mFrameQueue>>
    BY <1>6 DEF UpdateResult, handler, items
  <2>4. \A g \in Frame : Arrived(g)' = Arrived(g)
    BY <2>3 DEF Arrived
  <2>5. LocatedOf(f) /\ JourneyOf(f)
    BY <1>0, <2>1 DEF LocatedInv, JourneyInv
  <2>6. \A d \in calls' : d.frame # f
    BY <1>0, <2>3 DEF OneCallInv
  <2>7. Last(q) \/ ~(OutMetas(f) \subseteq MetasOf(q) \cup MetasOf(batch[f]) \cup Arrived(f))
    <3>1. CASE AllOut(f)
      BY <2>1, <2>5, <3>1 DEF LocatedOf, Last
    <3>2. CASE ~AllOut(f)
      <4>1. PICK m \in OutMetas(f) : Producer[m] \notin released[f]
        BY <3>2 DEF AllOut
      <4>2. m \notin MetasOf(mResultQueue[f]) \cup MetasOf(batch[f]) \cup Arrived(f)
        BY <2>5, <4>1 DEF JourneyOf, Through
      <4>3. m \notin Elements(c.buffer)
        BY <1>0, <4>1 DEF CallInv
      <4>4. QED
        BY <2>1, <4>2, <4>3
    <3>3. QED
      BY <3>1, <3>2
  <2>8. LocatedOf(f)'
    BY <2>1, <2>2, <2>3, <2>4, <2>5, <2>6, <2>7 DEF LocatedOf, OutMetas
  <2>9. \A g \in Frame \ {f} : mResultQueue'[g] = mResultQueue[g]
    BY <1>0, <2>1 DEF AppTypeOK
  <2>10. \A g \in Frame \ {f} : LocatedOf(g)'
    BY <1>3, <2>3, <2>4, <2>9
  <2>11. QED
    BY <2>8, <2>10 DEF LocatedInv
<1>7. CASE DequeResult
  <2>1. /\ UNCHANGED <<released, calls, bufferNo, hasLastPartial>> /\ batch' = mResultQueue
        /\ \A f \in Frame : mResultQueue'[f] = None /\ batch[f] = None
    BY <1>7 DEF DequeResult, pipelines, handler, items, IdleInv
  <2>2. QED
    BY <1>3, <2>1 DEF Arrived, LocatedInv
<1>8. ASSUME NEW f \in Pending, SkipResult(f) PROVE LocatedInv'
  <2>1. f \in Frame /\ f \notin mFrameQueue /\ f \notin mFrameQueue'
    BY <1>8 DEF SkipResult, Pending
  <2>2. /\ UNCHANGED <<submitted, released, calls, mResultQueue, bufferNo, hasLastPartial>>
        /\ batch'[f] = None /\ \A g \in Frame \ {f} : batch'[g] = batch[g]
    BY <1>0, <1>8, <2>1 DEF SkipResult, pipelines, items, AppTypeOK
  <2>3. \A g \in Frame : Arrived(g)' = Arrived(g)
    BY <2>2 DEF Arrived
  <2>4. LocatedOf(f)
    BY <2>1 DEF LocatedInv
  <2>5. LocatedOf(f)'
    BY <1>1, <2>1, <2>2, <2>3, <2>4 DEF LocatedOf, AllOut, OutMetas
  <2>6. \A g \in Frame \ {f} : LocatedOf(g)'
    BY <1>3, <2>2, <2>3
  <2>7. QED
    BY <2>5, <2>6 DEF LocatedInv
<1>9. ASSUME NEW f \in Pending, UpdateFrame(f) PROVE LocatedInv'
  <2>1. f \in Frame /\ batch[f] # None
    BY DEF Pending
  <2>2. /\ Arrived(f)' = Arrived(f) \cup MetasOf(batch[f])
        /\ \A g \in Frame \ {f} : Arrived(g)' = Arrived(g)
    BY <1>0, <1>9, <2>1, NewNumbers DEF MetasOf
  <2>3. /\ UNCHANGED <<submitted, released, calls, mResultQueue, mFrameQueue>>
        /\ batch'[f] = None /\ \A g \in Frame \ {f} : batch'[g] = batch[g]
    BY <1>0, <1>9, <2>1 DEF UpdateFrame, pipelines, AppTypeOK
  <2>4. LocatedOf(f)
    BY <2>1 DEF LocatedInv
  <2>5. /\ hasLastPartial \subseteq hasLastPartial'
        /\ f \notin hasLastPartial' => f \notin hasLastPartial
                /\ (~Last(batch[f]) \/ MetasOf(batch[f]) = {})
    <3>1. batch[f].buffer = <<>> => MetasOf(batch[f]) = {}
      BY <2>1 DEF MetasOf, Elements
    <3>2. QED
      BY <1>9, <3>1 DEF UpdateFrame, Last
  <2>6. f \notin hasLastPartial' => ~(OutMetas(f) \subseteq Arrived(f)')
    BY <2>1, <2>2, <2>4, <2>5 DEF LocatedOf
  <2>7. LocatedOf(f)'
    BY <1>1, <2>2, <2>3, <2>4, <2>5, <2>6 DEF LocatedOf, AllOut, OutMetas
  <2>8. \A g \in Frame \ {f} : LocatedOf(g)'
    BY <1>3, <2>2, <2>3, <2>5
  <2>9. QED
    BY <2>7, <2>8 DEF LocatedInv
<1>10. QED
  BY <1>4, <1>5, <1>6, <1>7, <1>8, <1>9, PathSteps

-----------------------------------------------------------------------------
(***************************************************************************)
(* The number that says that a metadata is the final one.                  *)
(***************************************************************************)

\* It is given to the largest id, and not before the last metadata is there.
NumberOf(f) ==
    /\ \A m \in Arrived(f) :
        bufferNo[f][m] = AtMost <=> f \in hasLastPartial /\ \A k \in Arrived(f) : k <= m
    /\ Arrived(f) # {} => \E m \in Arrived(f) : \A k \in Arrived(f) : k <= m
NumberInv == \A f \in Frame : NumberOf(f)

LEMMA NumberNext ==
    ASSUME ResultInv, ChainInv, OrderInv, LocatedInv, NumberInv, [Next]_vars
    PROVE  NumberInv'
<1>0. AppTypeOK /\ JourneyInv /\ LastInv
  BY DEF ResultInv, ChainInv
<1>1. CASE UNCHANGED <<bufferNo, hasLastPartial>>
  BY <1>1 DEF NumberInv, NumberOf, Arrived
<1>2. ASSUME NEW f \in Pending, UpdateFrame(f) PROVE NumberInv'
  <2> DEFINE n == Cardinality(Arrived(f))
             new == batch[f].buffer
             last == batch[f].lastPartial /\ new # <<>>
  <2>1. f \in Frame /\ batch[f] # None /\ MetasOf(batch[f]) = Elements(new)
    BY DEF Pending, MetasOf
  <2>2. /\ \A g \in Frame \ {f} : bufferNo'[g] = bufferNo[g] /\ Arrived(g)' = Arrived(g)
        /\ \A m \in Meta \ Elements(new) : bufferNo'[f][m] = bufferNo[f][m]
        /\ \A i \in DOMAIN new : bufferNo'[f][new[i]] =
                IF last /\ i = Len(new) THEN AtMost ELSE n + i
        /\ Arrived(f)' = Arrived(f) \cup Elements(new)
    BY <1>0, <1>2, NewNumbers
  <2>3. /\ n \in Nat /\ Len(new) \in Nat /\ DOMAIN new = 1 .. Len(new) /\ new \in Seq(Meta)
        /\ n + Len(new) = Cardinality(Arrived(f) \cup Elements(new))
        /\ n + Len(new) <= Cardinality(OutMetas(f))
    BY <1>0, <2>1, MetasFit
  <2>4. /\ Arrived(f) \cup Elements(new) \subseteq OutMetas(f)
        /\ Arrived(f) \cap Elements(new) = {}
    BY <1>0, <2>1 DEF JourneyInv, JourneyOf
  <2>5. /\ OutMetas(f) \subseteq Meta /\ IsFiniteSet(OutMetas(f)) /\ Meta \subseteq Nat
        /\ Cardinality(OutMetas(f)) \in Nat /\ AtMost \in Nat
        /\ Cardinality(OutMetas(f)) <= AtMost
    BY <2>1, OutMetasFit, AppAssumption
  <2>6. /\ Ascending(new) /\ Below(Arrived(f), Elements(new))
        /\ batch[f].lastPartial \/ ~(OutMetas(f) \subseteq Elements(new) \cup Arrived(f))
        /\ Elements(new) # {} => f \notin hasLastPartial
    BY <1>0, <2>1 DEF OrderInv, OrderOf, LocatedInv, LocatedOf, LastInv, LastOf, Last, Below
  <2>7. hasLastPartial' = hasLastPartial \cup (IF last THEN {f} ELSE {})
    BY <1>2 DEF UpdateFrame
  <2>8. NumberOf(f)
    BY <2>1 DEF NumberInv
  <2> HIDE DEF n, last, new
  <2>9. CASE new = <<>>
    <3>1. Elements(new) = {} /\ ~last
      BY <2>9 DEF Elements, last
    <3>2. \A m \in Arrived(f) : bufferNo'[f][m] = bufferNo[f][m]
      BY <2>2, <2>4, <2>5, <3>1
    <3>3. NumberOf(f)'
      BY <2>2, <2>7, <2>8, <3>1, <3>2 DEF NumberOf
    <3>4. \A g \in Frame \ {f} : NumberOf(g)'
      BY <2>2, <2>7, <3>1 DEF NumberInv, NumberOf
    <3>5. QED
      BY <3>3, <3>4 DEF NumberInv
  <2>10. CASE new # <<>>
    <3>1. Len(new) \in DOMAIN new /\ Len(new) >= 1
      BY <2>3, <2>10
    <3>2. f \notin hasLastPartial
      BY <2>6, <3>1 DEF Elements
    <3>3. \A m \in Arrived(f)' : m <= new[Len(new)]
      <4>1. \A m \in Arrived(f) : m < new[Len(new)]
        BY <2>6, <3>1 DEF Below, Elements
      <4>2. \A i \in DOMAIN new : new[i] \in Nat
        <5>1. \A i \in DOMAIN new : new[i] \in Meta
          BY <2>3
        <5>2. QED
          BY <2>5, <5>1
      <4>3. \A i \in DOMAIN new : new[i] <= new[Len(new)]
        BY <2>3, <2>6, <3>1, <4>2 DEF Ascending
      <4>4. \A m \in Arrived(f) : m \in Nat
        BY <2>4, <2>5
      <4>5. \A m \in Arrived(f) : m <= new[Len(new)]
        BY <3>1, <4>1, <4>2, <4>4
      <4>6. \A m \in Elements(new) : m <= new[Len(new)]
        BY <4>3 DEF Elements
      <4>7. QED
        BY <2>2, <4>5, <4>6
    <3>4. new[Len(new)] \in Arrived(f)' /\ \A m \in Arrived(f)' : m \in Nat
      BY <2>2, <2>4, <2>5, <3>1 DEF Elements
    <3>5. \A m \in Arrived(f)' : (\A k \in Arrived(f)' : k <= m) <=> m = new[Len(new)]
      BY <3>3, <3>4
    <3>6. \A m \in Arrived(f) : bufferNo'[f][m] # AtMost /\ m # new[Len(new)]
      <4>1. \A m \in Arrived(f) : bufferNo[f][m] # AtMost
        BY <2>8, <3>2 DEF NumberOf
      <4>2. \A m \in Arrived(f) : bufferNo'[f][m] = bufferNo[f][m]
        BY <2>2, <2>4, <2>5
      <4>3. QED
        BY <2>4, <3>1, <4>1, <4>2 DEF Elements
    <3>7. \A i \in DOMAIN new : i # Len(new) => bufferNo'[f][new[i]] # AtMost
      <4> SUFFICES ASSUME NEW i \in DOMAIN new, i # Len(new)
                   PROVE  bufferNo'[f][new[i]] # AtMost
        OBVIOUS
      <4>1. n + i < AtMost
        BY <2>3, <2>5
      <4>2. bufferNo'[f][new[i]] = n + i
        BY <2>2
      <4>3. QED
        BY <2>3, <2>5, <4>1, <4>2
    <3>8. bufferNo'[f][new[Len(new)]] = AtMost <=> last
      <4>1. CASE last
        BY <2>2, <3>1, <4>1
      <4>2. CASE ~last
        <5>1. ~(OutMetas(f) \subseteq Arrived(f) \cup Elements(new))
          BY <2>6, <2>10, <4>2 DEF last, new
        <5>2. Cardinality(OutMetas(f)) # n + Len(new)
          BY <2>3, <2>4, <2>5, <5>1, FS_Subset
        <5>3. n + Len(new) < AtMost
          BY <2>3, <2>5, <5>2
        <5>4. bufferNo'[f][new[Len(new)]] = n + Len(new)
          BY <2>2, <3>1, <4>2
        <5>5. QED
          BY <2>3, <2>5, <4>2, <5>3, <5>4
      <4>3. QED
        BY <4>1, <4>2
    <3>9. \A m \in Arrived(f)' : bufferNo'[f][m] = AtMost <=> last /\ m = new[Len(new)]
      <4>1. \A m \in Elements(new) : bufferNo'[f][m] = AtMost <=> last /\ m = new[Len(new)]
        BY <3>7, <3>8 DEF Elements
      <4>2. QED
        BY <2>2, <3>6, <4>1
    <3>10. f \in hasLastPartial' <=> last
      BY <2>7, <3>2
    <3>11. NumberOf(f)'
      BY <3>4, <3>5, <3>9, <3>10 DEF NumberOf
    <3>12. \A g \in Frame \ {f} : NumberOf(g)'
      BY <2>2, <2>7 DEF NumberInv, NumberOf
    <3>13. QED
      BY <3>11, <3>12 DEF NumberInv
  <2>11. QED
    BY <2>9, <2>10
<1>3. CASE \/ UNCHANGED path
           \/ \E n \in Node, g \in Frame : Release(n, g)
           \/ \E c \in calls : UpdateResult(c)
           \/ DequeResult
           \/ \E g \in Pending : SkipResult(g)
  BY <1>1, <1>3 DEF path, Release, UpdateResult, DequeResult, SkipResult, handler, items
<1>4. QED
  BY <1>2, <1>3, PathSteps

\* A finite set of numbers has one of each rank, and the largest has the highest.
LEMMA Ranks ==
    ASSUME NEW M \in SUBSET Nat, IsFiniteSet(M)
    PROVE  /\ \A i \in 1 .. Cardinality(M) :
                    \E m \in M : Cardinality({k \in M : k < m}) = i - 1
           /\ \A m \in M : Cardinality({k \in M : k < m}) = Cardinality(M) - 1
                                <=> \A k \in M : k <= m
<1> DEFINE Smaller(m) == {k \in M : k < m}
           N == Cardinality(M)
           r == [m \in M |-> Cardinality(Smaller(m))]
<1>1. N \in Nat
  BY FS_CardinalityType
<1>2. ASSUME NEW m \in M
      PROVE  /\ IsFiniteSet(Smaller(m)) /\ r[m] \in 0 .. N - 1
             /\ Cardinality(Smaller(m)) \in Nat
  <2>1. Smaller(m) \in SUBSET (M \ {m}) /\ M \ {m} \in SUBSET M
    BY DEF Smaller
  <2>2. IsFiniteSet(M \ {m}) /\ Cardinality(M \ {m}) = N - 1
    BY FS_RemoveElement
  <2>3. IsFiniteSet(Smaller(m)) /\ Cardinality(Smaller(m)) <= N - 1
    BY <2>1, <2>2, FS_Subset
  <2>4. Cardinality(Smaller(m)) \in Nat
    BY <2>3, FS_CardinalityType
  <2>5. QED
    BY <1>1, <2>3, <2>4
<1>3. ASSUME NEW m \in M, NEW k \in M, m < k PROVE r[m] < r[k]
  <2>1. m \in Nat /\ k \in Nat /\ \A j \in M : j \in Nat
    OBVIOUS
  <2>2. Smaller(m) \in SUBSET Smaller(k)
    <3>1. ASSUME NEW j \in Smaller(m) PROVE j \in Smaller(k)
      <4>1. j \in M /\ j < m
        BY DEF Smaller
      <4>2. j < k
        BY <1>3, <2>1, <4>1
      <4>3. QED
        BY <4>1, <4>2 DEF Smaller
    <3>2. QED
      BY <3>1
  <2>3. Smaller(m) # Smaller(k)
    BY <1>3, <2>1 DEF Smaller
  <2>4. Cardinality(Smaller(m)) <= Cardinality(Smaller(k))
        /\ Cardinality(Smaller(m)) # Cardinality(Smaller(k))
    BY <1>2, <2>2, <2>3, FS_Subset
  <2>5. QED
    BY <1>2, <2>4
<1>4. \A i \in 1 .. N : \E m \in M : r[m] = i - 1
  <2>1. r \in [M -> 0 .. N - 1]
    BY <1>2
  <2>2. \A m, k \in M : r[m] = r[k] => m = k
    <3> SUFFICES ASSUME NEW m \in M, NEW k \in M, m # k PROVE r[m] # r[k]
      OBVIOUS
    <3>1. m \in Nat /\ k \in Nat /\ r[m] \in Nat /\ r[k] \in Nat
      BY <1>2
    <3>2. m < k \/ k < m
      BY <3>1
    <3>3. r[m] < r[k] \/ r[k] < r[m]
      BY <1>3, <3>2
    <3>4. QED
      BY <3>1, <3>3
  <2>3. r \in Injection(M, 0 .. N - 1)
    BY <2>1, <2>2 DEF Injection, IsInjective
  <2>4. IsFiniteSet(0 .. N - 1) /\ Cardinality(0 .. N - 1) = N
    <3>1. N - 1 \in Int /\ 0 \in Int
      BY <1>1
    <3>2. /\ IsFiniteSet(0 .. N - 1)
          /\ Cardinality(0 .. N - 1) = IF 0 > N - 1 THEN 0 ELSE N - 1 - 0 + 1
      BY <3>1, FS_Interval
    <3>3. QED
      BY <1>1, <3>2
  <2>5. r \in Surjection(M, 0 .. N - 1)
    BY <2>3, <2>4, FS_Injection
  <2>6. \A j \in 0 .. N - 1 : \E m \in M : r[m] = j
    BY <2>5 DEF Surjection
  <2>7. \A i \in 1 .. N : i - 1 \in 0 .. N - 1
    BY <1>1
  <2>8. QED
    BY <2>6, <2>7
<1>5. ASSUME NEW m \in M PROVE r[m] = N - 1 <=> \A k \in M : k <= m
  <2>1. ASSUME \A k \in M : k <= m PROVE r[m] = N - 1
    <3>1. Smaller(m) = M \ {m}
      <4>1. \A j \in M : j < m <=> j # m
        BY <2>1
      <4>2. QED
        BY <4>1 DEF Smaller
    <3>2. QED
      BY <3>1, FS_RemoveElement
  <2>2. ASSUME NEW k \in M, ~(k <= m) PROVE r[m] # N - 1
    <3>1. m < k
      BY <2>2
    <3>2. r[m] < r[k]
      BY <1>3, <3>1
    <3>3. QED
      BY <1>1, <1>2, <3>2
  <2>3. QED
    BY <2>1, <2>2
<1>6. QED
  BY <1>4, <1>5 DEF r

\* The metadata that are returned count on from those returned before, but for the final
\* one.
LEMMA NumbersCountOn ==
    ASSUME ResultInv, NumberInv, NEW f \in Frame, NEW M \in SUBSET Arrived(f)
    PROVE  LET n == Cardinality(M)
               k == Cardinality(returned[f] \cap Meta)
           IN  /\ n \in Nat /\ k \in Nat
               /\ Numbers(f, M) \in [1 .. n -> Nat]
               /\ \A i \in 1 .. n : Numbers(f, M)[i] =
                    IF i = n /\ (\E m \in M : bufferNo[f][m] = AtMost) THEN AtMost ELSE k + i
<1> DEFINE n == Cardinality(M)
           k == Cardinality(returned[f] \cap Meta)
           Rank(m) == Cardinality({j \in M : j < m})
           Of(i) == CHOOSE m \in M : Rank(m) = i - 1
<1>1. M \in SUBSET Nat /\ IsFiniteSet(M) /\ Arrived(f) \subseteq Nat
  BY AppAssumption, FS_Subset DEF Arrived
<1>2. n \in Nat /\ k \in Nat /\ AtMost \in Nat
  <2>1. IsFiniteSet(returned[f] \cap Meta)
    BY AppAssumption, FS_Subset
  <2>2. QED
    BY <1>1, <2>1, FS_CardinalityType, AppAssumption
<1>3. /\ \A i \in 1 .. n : Of(i) \in M /\ Rank(Of(i)) = i - 1
      /\ \A m \in M : Rank(m) = n - 1 <=> \A j \in M : j <= m
  <2>1. /\ \A i \in 1 .. n : \E m \in M : Rank(m) = i - 1
        /\ \A m \in M : Rank(m) = n - 1 <=> \A j \in M : j <= m
    BY <1>1, Ranks
  <2> HIDE DEF Rank
  <2>2. QED
    BY <2>1
<1>4. Numbers(f, M) = [i \in 1 .. n |-> IF bufferNo[f][Of(i)] = AtMost THEN AtMost ELSE k + i]
  BY DEF Numbers
<1> HIDE DEF n, k, Rank, Of
<1>5. \A m \in M : bufferNo[f][m] = AtMost => \A j \in M : j <= m
  BY DEF NumberInv, NumberOf
<1>6. ASSUME NEW i \in 1 .. n
      PROVE  bufferNo[f][Of(i)] = AtMost <=> i = n /\ \E m \in M : bufferNo[f][m] = AtMost
  <2>1. ASSUME bufferNo[f][Of(i)] = AtMost PROVE i = n
    <3>1. Rank(Of(i)) = n - 1 /\ Rank(Of(i)) = i - 1
      BY <1>3, <1>5, <2>1
    <3>2. QED
      BY <1>2, <3>1
  <2>2. ASSUME i = n, NEW m \in M, bufferNo[f][m] = AtMost PROVE Of(i) = m
    <3>1. \A j \in M : j <= Of(i)
      BY <1>3, <2>2
    <3>2. \A j \in M : j <= m
      BY <1>5, <2>2
    <3>3. Of(i) \in M
      BY <1>3
    <3>4. m <= Of(i) /\ Of(i) <= m /\ m \in Nat /\ Of(i) \in Nat
      BY <1>1, <3>1, <3>2, <3>3
    <3>5. QED
      BY <3>4
  <2>3. QED
    BY <1>3, <2>1, <2>2
<1>7. \A i \in 1 .. n : Numbers(f, M)[i] =
            IF i = n /\ (\E m \in M : bufferNo[f][m] = AtMost) THEN AtMost ELSE k + i
  BY <1>4, <1>6
<1>8. Numbers(f, M) \in [1 .. n -> Nat]
  BY <1>2, <1>4
<1>9. QED
  BY <1>2, <1>7, <1>8 DEF n, k

\* The numbers 1 to k, of which the last may be replaced by A.
Counted(k, final, A) == [i \in 1 .. k |-> IF i = k /\ final THEN A ELSE i]

LEMMA ConcatIs ==
    ASSUME NEW s \in Seq(Nat), NEW t \in Seq(Nat), NEW u \in Seq(Nat), Len(u) = Len(s) + Len(t),
           \A i \in 1 .. Len(s) : u[i] = s[i], \A i \in 1 .. Len(t) : u[Len(s) + i] = t[i]
    PROVE  s \o t = u
<1>1. s \o t \in Seq(Nat) /\ Len(s \o t) = Len(s) + Len(t) /\ Len(s) \in Nat /\ Len(t) \in Nat
  OBVIOUS
<1>2. \A i \in 1 .. Len(s) + Len(t) : (s \o t)[i] = IF i <= Len(s) THEN s[i] ELSE t[i - Len(s)]
  OBVIOUS
<1>3. ASSUME NEW i \in 1 .. Len(s) + Len(t) PROVE (s \o t)[i] = u[i]
  <2>1. CASE i <= Len(s)
    BY <1>2, <2>1
  <2>2. CASE ~(i <= Len(s))
    <3>1. i - Len(s) \in 1 .. Len(t) /\ Len(s) + (i - Len(s)) = i
      BY <1>1, <2>2
    <3>2. QED
      BY <1>2, <2>2, <3>1
  <2>3. QED
    BY <2>1, <2>2
<1>4. s \o t = [i \in 1 .. Len(s) + Len(t) |-> (s \o t)[i]]
  <2>1. \A v \in Seq(Nat) : v = [i \in 1 .. Len(v) |-> v[i]]
    OBVIOUS
  <2>2. QED
    BY <1>1, <2>1
<1>5. u = [i \in 1 .. Len(s) + Len(t) |-> u[i]]
  OBVIOUS
<1>6. QED
  BY <1>3, <1>4, <1>5

-----------------------------------------------------------------------------
(***************************************************************************)
(* What the framework has been told of a frame, or is about to be.         *)
(***************************************************************************)

\* A frame has one parcel at a time.
OneParcelInv ==
    /\ pc \in {"deque", "update"} => cbList = <<>>
    /\ \A i \in DOMAIN cbList : cbList[i].frame \notin visit
    /\ \A i, j \in DOMAIN cbList : cbList[i].frame = cbList[j].frame => i = j

\* What the parcel of a frame says.
LEMMA ParcelSays ==
    ASSUME NEW f
    PROVE  /\ ErrorFrame(f) => \E p : /\ Prepare(p) /\ p.frame = f /\ ~p.shutter
                                      /\ p.metas = <<>> /\ p.errors = {"request"}
           /\ ReturnFrame(f) =>
                LET metas == MetasToReturn(f)
                    metaErrors == ErrorsToSend(f, Arrived(f))
                    imageErrors == ErrorsToSend(f, {s \in OutImages[f] : state[f][s] = "ERROR"})
                    result == metaErrors # {} /\ "meta" \notin errors[f]
                IN  \E p :
                    /\ Prepare(p) /\ p.frame = f
                    /\ p.shutter <=> metas \cap Timestamped # {} /\ f \notin timestampShutter
                    /\ p.metas = Numbers(f, metas)
                    /\ p.errors = imageErrors \cup (IF result THEN {"result"} ELSE {})
<1>1. ASSUME ErrorFrame(f)
      PROVE  \E p : /\ Prepare(p) /\ p.frame = f /\ ~p.shutter
                    /\ p.metas = <<>> /\ p.errors = {"request"}
  <2>1. PICK p : /\ p = [frame |-> f, shutter |-> FALSE, metas |-> <<>>,
                         errors |-> {"request"},
                         images |-> (OutImages[f] \ returned[f])
                                        \cup ImagesToReturn(f, InImages[f])]
                 /\ Prepare(p)
    BY <1>1 DEF ErrorFrame
  <2>2. QED
    BY <2>1
<1> DEFINE metas == MetasToReturn(f)
           metaErrors == ErrorsToSend(f, Arrived(f))
           imageErrors == ErrorsToSend(f, {s \in OutImages[f] : state[f][s] = "ERROR"})
           back == ImagesToReturn(f, OutImages[f] \cup InImages[f])
                    \cup (imageErrors \ returned[f])
           result == metaErrors # {} /\ "meta" \notin errors[f]
           shutter == metas \cap Timestamped # {} /\ f \notin timestampShutter
           told_errors == imageErrors \cup (IF result THEN {"result"} ELSE {})
<1>2. ASSUME ReturnFrame(f)
      PROVE  \E p : /\ Prepare(p) /\ p.frame = f /\ (p.shutter <=> shutter)
                    /\ p.metas = Numbers(f, metas) /\ p.errors = told_errors
  <2>1. Prepare([frame |-> f, shutter |-> shutter, metas |-> Numbers(f, metas),
                 errors |-> told_errors, images |-> back])
    BY <1>2 DEF ReturnFrame
  <2> HIDE DEF metas, metaErrors, imageErrors, back, result, shutter, told_errors
  <2>2. PICK p : /\ p = [frame |-> f, shutter |-> shutter, metas |-> Numbers(f, metas),
                         errors |-> told_errors, images |-> back]
                 /\ Prepare(p)
    BY <2>1
  <2>3. QED
    BY <2>2
<1>3. QED
  BY <1>1, <1>2

LEMMA OneParcelNext ==
    ASSUME IInv, OneParcelInv, [Next]_vars
    PROVE  OneParcelInv'
<1>1. CASE UNCHANGED <<pc, visit, cbList>>
  BY <1>1 DEF OneParcelInv
<1>2. CASE \/ NodeStep \/ DeviceStep \/ FlushStep \/ TimeOut \/ UNCHANGED vars
           \/ \E f \in Frame : SubmitRequest(f)
           \/ \E f \in Pending : UpdateFrame(f) \/ SkipResult(f)
  BY <1>1, <1>2 DEF NodeStep, Release, UpdateResult, DeviceStep, FlushStep, RegisterRequest,
              FlushRequest, BeginFlush, WaitUntilDrained, EndFlush, TimeOut, SubmitRequest,
              UpdateFrame, SkipResult, vars, thread
<1>3. CASE DequeResult \/ VisitFrames \/ StartCallbacks \/ SignalDrained
  BY <1>3 DEF DequeResult, VisitFrames, StartCallbacks, SignalDrained, OneParcelInv
<1>4. ASSUME NEW f \in visit, ErrorFrame(f) \/ ReturnFrame(f) PROVE OneParcelInv'
  <2>1. pc' = "visit" /\ visit' = visit \ {f}
    BY <1>4 DEF ErrorFrame, ReturnFrame, RemoveOrKeep
  <2>2. PICK p : Prepare(p) /\ p.frame = f
    BY <1>4, ParcelSays
  <2>3. CASE cbList' = cbList
    BY <2>1, <2>3 DEF OneParcelInv
  <2>4. ASSUME NEW n, DOMAIN cbList' = DOMAIN cbList \cup {n}, n \notin DOMAIN cbList,
               cbList'[n] = p, \A i \in DOMAIN cbList : cbList'[i] = cbList[i]
        PROVE  OneParcelInv'
    <3>1. \A i \in DOMAIN cbList : cbList'[i].frame # f
      BY <2>4 DEF OneParcelInv
    <3>2. cbList'[n].frame = f
      BY <2>2, <2>4
    <3>3. \A i \in DOMAIN cbList' : i = n \/ i \in DOMAIN cbList
      BY <2>4
    <3>4. \A i \in DOMAIN cbList' : cbList'[i].frame \notin visit'
      BY <2>1, <2>4, <3>2, <3>3 DEF OneParcelInv
    <3>5. \A i, j \in DOMAIN cbList' : cbList'[i].frame = cbList'[j].frame => i = j
      BY <2>4, <3>1, <3>2, <3>3 DEF OneParcelInv
    <3>6. QED
      BY <2>1, <3>4, <3>5 DEF OneParcelInv
  <2>5. QED
    BY <2>2, <2>3, <2>4, PrepareAppends
<1>5. CASE PerformCallback
  <2>1. UNCHANGED <<pc, visit>> /\ pc = "callback"
    BY <1>5 DEF PerformCallback
  <2>2. \A i \in DOMAIN cbList' : i + 1 \in DOMAIN cbList /\ cbList'[i] = cbList[i + 1] /\ i \in Nat
    BY <1>5, CallbackTakes
  <2>3. \A i, j \in Nat : i + 1 = j + 1 => i = j
    OBVIOUS
  <2>4. QED
    BY <2>1, <2>2, <2>3 DEF OneParcelInv
<1>6. QED
  BY <1>2, <1>3, <1>4, <1>5 DEF Next, ThreadStep

ReturnedMetas(f) == returned[f] \cap Meta
FinalReturned(f) == \E m \in ReturnedMetas(f) : bufferNo[f][m] = AtMost

\* What the frame handler has noted of a frame.  The final metadata goes back when all
\* the others have, and a frame with no error leaves the queue after it.
BooksOf(f) ==
    /\ ReturnedMetas(f) \subseteq Arrived(f) \ bad[f]
    /\ emptied[f] \subseteq returned[f] \cup errorSent[f]
    /\ errorSent[f] \cap Meta # {} => "meta" \in errors[f]
    /\ OutImages[f] \cap returned[f] # {} => "frame" \in errors[f] \/ NotARequestError(f)
    /\ FinalReturned(f) => Arrived(f) \subseteq returned[f] \cup bad[f]
    /\ f \in submitted \ mFrameQueue =>
        \/ errors[f] # {}
        \/ f \in timestampShutter /\ f \in hasLastPartial /\ ReturnedMetas(f) = OutMetas(f)
BooksInv == \A f \in Frame : BooksOf(f)

\* The books of a frame are touched when the thread looks at it.
LEMMA BookSteps ==
    ASSUME [Next]_vars
    PROVE  \/ /\ UNCHANGED <<returned, errorSent, errors, emptied, timestampShutter>>
              /\ mFrameQueue \subseteq mFrameQueue'
              /\ submitted' \subseteq submitted \cup mFrameQueue
           \/ \E f \in visit : ErrorFrame(f) \/ ReturnFrame(f)
<1>1. CASE \/ NodeStep \/ DeviceStep \/ FlushStep \/ TimeOut \/ UNCHANGED vars
           \/ \E f \in Frame : SubmitRequest(f)
           \/ \E f \in Pending : UpdateFrame(f) \/ SkipResult(f)
  BY <1>1 DEF NodeStep, Release, UpdateResult, DeviceStep, FlushStep, RegisterRequest,
              FlushRequest, BeginFlush, WaitUntilDrained, EndFlush, TimeOut, SubmitRequest,
              UpdateFrame, SkipResult, vars, pipelines, handler, items
<1>2. CASE DequeResult \/ VisitFrames \/ StartCallbacks \/ PerformCallback \/ SignalDrained
  BY <1>2 DEF DequeResult, VisitFrames, StartCallbacks, PerformCallback, SignalDrained,
              pipelines, handler, items
<1>3. QED
  BY <1>1, <1>2 DEF Next, ThreadStep

\* A metadata keeps its number.
LEMMA NumbersStay ==
    ASSUME ResultInv, [Next]_vars, NEW f \in Frame, NEW m \in Arrived(f)
    PROVE  bufferNo'[f][m] = bufferNo[f][m]
<1>1. ASSUME NEW g \in Pending, UpdateFrame(g) PROVE bufferNo'[f][m] = bufferNo[f][m]
  <2>1. /\ g \in Frame /\ batch[g] # None /\ m \in Meta
        /\ MetasOf(batch[g]) = Elements(batch[g].buffer)
    BY DEF Pending, Arrived, MetasOf
  <2>2. f = g => m \notin Elements(batch[g].buffer)
    BY <2>1 DEF ResultInv, JourneyInv, JourneyOf
  <2>3. QED
    BY <1>1, <2>1, <2>2, NewNumbers DEF ResultInv
<1>2. CASE \/ UNCHANGED path
           \/ \E n \in Node, g \in Frame : Release(n, g)
           \/ \E c \in calls : UpdateResult(c)
           \/ DequeResult
           \/ \E g \in Pending : SkipResult(g)
  BY <1>2 DEF path, Release, UpdateResult, DequeResult, SkipResult, handler, items
<1>3. QED
  BY <1>1, <1>2, PathSteps

LEMMA FinalStays ==
    ASSUME ResultInv, [Next]_vars, NEW f \in Frame, ReturnedMetas(f) \subseteq Arrived(f),
           returned'[f] = returned[f]
    PROVE  FinalReturned(f)' <=> FinalReturned(f)
BY NumbersStay DEF FinalReturned, ReturnedMetas

\* All metadata are there when the last partial one is.
LEMMA AllArrived ==
    ASSUME ResultInv, ChainInv, LocatedInv, NEW f \in Frame,
           f \in hasLastPartial, f \in mFrameQueue
    PROVE  Arrived(f) = OutMetas(f)
<1>1. JourneyOf(f) /\ LastOf(f) /\ LocatedOf(f)
  BY DEF ResultInv, JourneyInv, ChainInv, LastInv, LocatedInv
<1>2. Arrived(f) \subseteq OutMetas(f)
  BY <1>1 DEF JourneyOf
<1>3. AllOut(f) /\ MetasOf(mResultQueue[f]) = {} /\ MetasOf(batch[f]) = {}
      /\ \A c \in calls : c.frame = f => Elements(c.buffer) = {}
  BY <1>1 DEF LastOf
<1>4. ASSUME NEW m \in OutMetas(f) PROVE m \in Arrived(f)
  BY <1>1, <1>3 DEF LocatedOf, AllOut
<1>5. QED
  BY <1>2, <1>4

LEMMA LargestArrived ==
    ASSUME NumberInv, NEW f \in Frame, Arrived(f) # {}
    PROVE  /\ LargestIn(Arrived(f)) \in Arrived(f)
           /\ f \in hasLastPartial => bufferNo[f][LargestIn(Arrived(f))] = AtMost
<1> DEFINE A == Arrived(f)
<1>1. NumberOf(f) /\ \E m \in A : \A k \in A : k <= m
  BY DEF NumberInv, NumberOf
<1>2. LargestIn(A) \in A /\ \A k \in A : k <= LargestIn(A)
  BY <1>1 DEF LargestIn
<1>3. QED
  BY <1>1, <1>2 DEF NumberOf

LEMMA ErrorFrameBooks ==
    ASSUME IInv, ResultInv, BooksInv, NEW f \in visit, ErrorFrame(f)
    PROVE  BooksOf(f)'
<1>0. f \in Frame /\ BooksOf(f)
  BY DEF IInv, ShapeInv, BooksInv
<1>1. UNCHANGED <<bad, bufferNo, hasLastPartial, state, errorSent, emptied, timestampShutter>>
  BY DEF ErrorFrame, pipelines
<1>2. errors'[f] = errors[f] \cup {"frame"}
  BY <1>0 DEF ErrorFrame, ResultInv, FormInv
<1>3. /\ returned[f] \subseteq returned'[f]
      /\ \A s \in returned'[f] : s \in returned[f] \/ s \in OutImages[f] \cup InImages[f]
  BY <1>0 DEF ErrorFrame, ImagesToReturn, IInv, ShapeInv
<1>4. Image \cap Meta = {} /\ OutImages[f] \cup InImages[f] \subseteq Image
  BY <1>0, AppAssumption
<1>5. ReturnedMetas(f)' = ReturnedMetas(f)
  BY <1>3, <1>4 DEF ReturnedMetas
<1>6. Arrived(f)' = Arrived(f) /\ (FinalReturned(f)' <=> FinalReturned(f))
  BY <1>1, <1>5 DEF Arrived, FinalReturned
<1>7. QED
  BY <1>0, <1>1, <1>2, <1>3, <1>5, <1>6 DEF BooksOf

LEMMA ReturnFrameBooks ==
    ASSUME IInv, ResultInv, ChainInv, LocatedInv, NumberInv, StateInv, BooksInv,
           NEW f \in visit, ReturnFrame(f)
    PROVE  BooksOf(f)'
<1> DEFINE metas == MetasToReturn(f)
           metaErrors == ErrorsToSend(f, Arrived(f))
           imageErrors == ErrorsToSend(f, {s \in OutImages[f] : state[f][s] = "ERROR"})
           back == ImagesToReturn(f, OutImages[f] \cup InImages[f])
                    \cup (imageErrors \ returned[f])
           result == metaErrors # {} /\ "meta" \notin errors[f]
<1>0. f \in Frame /\ f \in mFrameQueue /\ BooksOf(f) /\ NumberOf(f)
  BY DEF IInv, ShapeInv, BooksInv, NumberInv
<1>1. /\ UNCHANGED <<bad, bufferNo, hasLastPartial, state, submitted>>
      /\ returned'[f] = returned[f] \cup metas \cup back
      /\ errorSent'[f] = errorSent[f] \cup metaErrors \cup imageErrors
      /\ errors'[f] = errors[f] \cup (IF result THEN {"meta"} ELSE {})
      /\ timestampShutter \subseteq timestampShutter'
      /\ RemoveOrKeep(f)
  BY <1>0 DEF ReturnFrame, pipelines, IInv, ShapeInv, ResultInv, FormInv
<1>2. emptied'[f] \subseteq emptied[f] \cup returned'[f] \cup errorSent'[f]
  BY <1>0 DEF ReturnFrame, ResultInv, FormInv
<1>3. /\ Image \cap Meta = {} /\ OutImages[f] \cup InImages[f] \subseteq Image
      /\ OutImages[f] \cap InImages[f] = {} /\ OutImages[f] # {} /\ Arrived(f) \subseteq Meta
  BY <1>0, AppAssumption DEF Arrived
<1>4. /\ imageErrors \subseteq OutImages[f]
      /\ imageErrors # {} => NotARequestError(f)
      /\ metaErrors \subseteq Arrived(f)
      /\ \A m \in Arrived(f) \cap bad[f] :
            NotARequestError(f) => m \in errorSent[f] \cup metaErrors
  BY DEF ErrorsToSend
<1>5. /\ metas \subseteq Arrived(f) \ bad[f]
      /\ \A m \in metas : MetaReturnable(f, m)
      /\ \A m \in Arrived(f) : m \in metas \/ m \in bad[f] \cup returned[f] \/ ~MetaReturnable(f, m)
  BY DEF MetasToReturn
<1>6. /\ back \subseteq OutImages[f] \cup InImages[f]
      /\ \A s \in back \cap OutImages[f] : NotARequestError(f)
  BY <1>4 DEF ImagesToReturn, NotARequestError
<1> HIDE DEF metas, metaErrors, imageErrors, back
<1>7. ReturnedMetas(f)' = ReturnedMetas(f) \cup metas
  BY <1>1, <1>3, <1>5, <1>6 DEF ReturnedMetas
<1>8. Arrived(f)' = Arrived(f) /\ (NotARequestError(f)' <=> NotARequestError(f))
  BY <1>1 DEF Arrived, NotARequestError
<1>9. ReturnedMetas(f)' \subseteq Arrived(f) \ bad[f]
  BY <1>0, <1>5, <1>7 DEF BooksOf
<1>10. emptied'[f] \subseteq returned'[f] \cup errorSent'[f]
  BY <1>0, <1>1, <1>2 DEF BooksOf
<1>11. errorSent'[f] \cap Meta # {} => "meta" \in errors'[f]
  BY <1>0, <1>1, <1>3, <1>4 DEF BooksOf
<1>12. OutImages[f] \cap returned'[f] # {} => "frame" \in errors'[f] \/ NotARequestError(f)
  <2>1. \A s \in OutImages[f] : s \in returned'[f] => s \in returned[f] \/ s \in back
    BY <1>1, <1>3, <1>5
  <2>2. QED
    BY <1>0, <1>1, <1>6, <2>1 DEF BooksOf
<1>13. FinalReturned(f)' => Arrived(f) \subseteq returned'[f] \cup bad[f]
  <2> SUFFICES ASSUME NEW m \in ReturnedMetas(f)', bufferNo[f][m] = AtMost
               PROVE  Arrived(f) \subseteq returned'[f] \cup bad[f]
    BY <1>1 DEF FinalReturned
  <2>1. CASE m \in ReturnedMetas(f)
    BY <1>0, <1>1, <2>1 DEF BooksOf, FinalReturned
  <2>2. CASE m \in metas
    <3>1. m \in Arrived(f) /\ MetaReturnable(f, m)
      BY <1>5, <2>2
    <3>2. \A k \in Arrived(f) : MetaReturnable(f, k)
      BY <3>1 DEF MetaReturnable
    <3>3. QED
      BY <1>1, <1>5, <3>2
  <2>3. QED
    BY <1>7, <2>1, <2>2
<1>14. ASSUME f \notin mFrameQueue'
       PROVE  \/ errors'[f] # {}
              \/ /\ f \in timestampShutter' /\ f \in hasLastPartial
                 /\ ReturnedMetas(f)' = OutMetas(f)
  <2> SUFFICES ASSUME errors'[f] = {}
               PROVE  /\ f \in timestampShutter' /\ f \in hasLastPartial
                      /\ ReturnedMetas(f)' = OutMetas(f)
    OBVIOUS
  <2>1. IsFrameRemovable(f)'
    BY <1>0, <1>1, <1>14 DEF RemoveOrKeep
  <2>2. /\ OutImages[f] \subseteq returned'[f] /\ f \in hasLastPartial
        /\ f \in timestampShutter' /\ LastIsEmptied(f)'
    BY <1>1, <2>1 DEF IsFrameRemovable
  <2>3. Arrived(f) # {} /\ LargestIn(Arrived(f)) \in emptied'[f]
    BY <1>8, <2>2 DEF LastIsEmptied
  <2>4. /\ LargestIn(Arrived(f)) \in Arrived(f)
        /\ bufferNo[f][LargestIn(Arrived(f))] = AtMost
    BY <1>0, <2>2, <2>3, LargestArrived
  <2>5. errorSent'[f] \cap Meta = {}
    BY <1>11
  <2>6. LargestIn(Arrived(f)) \in ReturnedMetas(f)'
    BY <1>3, <1>10, <2>3, <2>4, <2>5 DEF ReturnedMetas
  <2>7. Arrived(f) \subseteq returned'[f] \cup bad[f]
    BY <1>1, <1>13, <2>4, <2>6 DEF FinalReturned
  <2>8. NotARequestError(f)
    BY <1>3, <1>12, <2>2
  <2>9. Arrived(f) \cap bad[f] = {}
    BY <1>1, <1>3, <1>4, <2>5, <2>8
  <2>10. ReturnedMetas(f)' = Arrived(f)
    BY <1>3, <1>9, <2>7, <2>9 DEF ReturnedMetas
  <2>11. QED
    BY <1>0, <2>2, <2>10, AllArrived
<1>15. OutMetas(f)' = OutMetas(f)
  BY DEF OutMetas
<1>16. QED
  BY <1>1, <1>8, <1>9, <1>10, <1>11, <1>12, <1>13, <1>14, <1>15 DEF BooksOf

LEMMA BooksNext ==
    ASSUME IInv, ResultInv, ChainInv, LocatedInv, NumberInv, StateInv, BooksInv, [Next]_vars
    PROVE  BooksInv'
<1>0. LastInv
  BY DEF ChainInv
<1>1. ASSUME NEW f \in Frame, returned'[f] = returned[f], errorSent'[f] = errorSent[f],
             errors'[f] = errors[f], emptied'[f] = emptied[f],
             f \in timestampShutter => f \in timestampShutter',
             f \in submitted' \ mFrameQueue' => f \in submitted \ mFrameQueue
      PROVE  BooksOf(f)'
  <2>1. BooksOf(f) /\ NumberOf(f)
    BY DEF BooksInv, NumberInv
  <2>2. /\ bad[f] \subseteq bad'[f] /\ Arrived(f) \cap bad'[f] \subseteq bad[f]
        /\ Arrived(f) \subseteq Arrived(f)'
        /\ f \in hasLastPartial => f \in hasLastPartial' /\ Arrived(f)' = Arrived(f)
    BY <1>0, FactsStay
  <2>3. NotARequestError(f) => NotARequestError(f)'
    BY <1>0, JudgementStays
  <2>4. ReturnedMetas(f)' = ReturnedMetas(f) /\ OutMetas(f)' = OutMetas(f)
    BY <1>1 DEF ReturnedMetas, OutMetas
  <2>5. ReturnedMetas(f) \subseteq Arrived(f) \ bad[f]
    BY <2>1 DEF BooksOf
  <2>6. FinalReturned(f)' <=> FinalReturned(f)
    BY <1>1, <2>5, FinalStays
  <2>7. FinalReturned(f) => f \in hasLastPartial
    BY <2>1, <2>5 DEF FinalReturned, NumberOf
  <2>8. QED
    BY <1>1, <2>1, <2>2, <2>3, <2>4, <2>5, <2>6, <2>7 DEF BooksOf
<1>2. CASE /\ UNCHANGED <<returned, errorSent, errors, emptied, timestampShutter>>
           /\ mFrameQueue \subseteq mFrameQueue'
           /\ submitted' \subseteq submitted \cup mFrameQueue
  BY <1>1, <1>2 DEF BooksInv
<1>3. ASSUME NEW f \in visit, ErrorFrame(f) \/ ReturnFrame(f) PROVE BooksInv'
  <2>1. BooksOf(f)'
    BY <1>3, ErrorFrameBooks, ReturnFrameBooks
  <2>2. \A g \in Frame \ {f} :
            /\ returned'[g] = returned[g] /\ errorSent'[g] = errorSent[g]
            /\ errors'[g] = errors[g] /\ emptied'[g] = emptied[g]
            /\ g \in timestampShutter => g \in timestampShutter'
            /\ g \in submitted' \ mFrameQueue' => g \in submitted \ mFrameQueue
    BY <1>3 DEF ErrorFrame, ReturnFrame, RemoveOrKeep, pipelines, IInv, ShapeInv, ResultInv,
                FormInv
  <2>3. \A g \in Frame \ {f} : BooksOf(g)'
    BY <1>1, <2>2
  <2>4. QED
    BY <2>1, <2>3 DEF BooksInv
<1>4. QED
  BY <1>2, <1>3, BookSteps

\* What the framework is to be told: the metadata that are returned, numbered, and the
\* shutter once its metadata is.
Expected(f) == Counted(Cardinality(ReturnedMetas(f)), FinalReturned(f), AtMost)
ShutterOf(f) == IF f \in timestampShutter THEN 1 ELSE 0

\* It has been told, or is when the parcel of the frame is sent.
ToldOf(f) ==
    /\ ParcelsOf(f) = {} => told[f].metas = Expected(f) /\ told[f].shutter = ShutterOf(f)
    /\ \A i \in ParcelsOf(f) :
        /\ told[f].metas \o cbList[i].metas = Expected(f)
        /\ told[f].shutter + (IF cbList[i].shutter THEN 1 ELSE 0) = ShutterOf(f)
ToldInv == \A f \in Frame : ToldOf(f)

\* The parcel that is prepared for a frame is the only one of the frame.
LEMMA PrepareParcels ==
    ASSUME IInv, OneParcelInv, NEW f \in visit, NEW parcel, Prepare(parcel), parcel.frame = f
    PROVE  /\ ParcelsOf(f) = {}
           /\ \/ /\ ParcelsOf(f)' = {} /\ parcel.images = {} /\ parcel.errors = {}
                 /\ ~parcel.shutter /\ parcel.metas = <<>>
              \/ \E n : /\ ParcelsOf(f)' = {n} /\ cbList'[n] = parcel
                        /\ \A i \in DOMAIN cbList : i < n
           /\ \A g : g # f =>
                /\ ParcelsOf(g)' = ParcelsOf(g)
                /\ \A i \in ParcelsOf(g) : cbList'[i] = cbList[i]
<1>1. \A i \in DOMAIN cbList : cbList[i].frame # f
  BY DEF OneParcelInv
<1>2. ParcelsOf(f) = {}
  BY <1>1 DEF ParcelsOf
<1>3. CASE cbList' = cbList /\ parcel.images = {} /\ parcel.errors = {}
           /\ ~parcel.shutter /\ parcel.metas = <<>>
  BY <1>2, <1>3 DEF ParcelsOf
<1>4. ASSUME NEW n, DOMAIN cbList' = DOMAIN cbList \cup {n}, n \notin DOMAIN cbList,
             cbList'[n] = parcel, \A i \in DOMAIN cbList : i < n,
             \A i \in DOMAIN cbList : cbList'[i] = cbList[i]
      PROVE  /\ ParcelsOf(f)' = {n}
             /\ \A g : g # f => /\ ParcelsOf(g)' = ParcelsOf(g)
                                /\ \A i \in ParcelsOf(g) : cbList'[i] = cbList[i]
  BY <1>1, <1>4 DEF ParcelsOf
<1>5. QED
  BY <1>2, <1>3, <1>4, PrepareAppends

\* A callback sends the only parcel of its frame.
LEMMA CallbackParcels ==
    ASSUME IInv, OneParcelInv, PerformCallback, NEW f, f = cbList[1].frame
    PROVE  /\ ParcelsOf(f) = {1} /\ ParcelsOf(f)' = {}
           /\ \A g : g # f =>
                /\ ParcelsOf(g)' = {} => ParcelsOf(g) = {}
                /\ \A i \in ParcelsOf(g)' :
                        i + 1 \in ParcelsOf(g) /\ cbList'[i] = cbList[i + 1]
<1>1. /\ 1 \in DOMAIN cbList
      /\ \A i \in DOMAIN cbList' : /\ i + 1 \in DOMAIN cbList /\ cbList'[i] = cbList[i + 1]
                                   /\ i \in Nat \ {0}
      /\ \A i \in DOMAIN cbList : i # 1 => i - 1 \in DOMAIN cbList' /\ cbList'[i - 1] = cbList[i]
  BY CallbackTakes
<1>2. \A i \in DOMAIN cbList : cbList[i].frame = f <=> i = 1
  BY <1>1 DEF OneParcelInv
<1>3. \A i \in DOMAIN cbList' : cbList'[i].frame # f
  <2>1. ASSUME NEW i \in DOMAIN cbList' PROVE i + 1 # 1 /\ i + 1 \in DOMAIN cbList
    BY <1>1
  <2>2. QED
    BY <1>1, <1>2, <2>1
<1>4. ParcelsOf(f) = {1} /\ ParcelsOf(f)' = {}
  BY <1>1, <1>2, <1>3 DEF ParcelsOf
<1>5. ASSUME NEW g, g # f, NEW i \in DOMAIN cbList, cbList[i].frame = g
      PROVE  ParcelsOf(g)' # {}
  <2>1. i - 1 \in DOMAIN cbList' /\ cbList'[i - 1].frame = g
    BY <1>1, <1>2, <1>5
  <2>2. QED
    BY <2>1 DEF ParcelsOf
<1>6. QED
  BY <1>1, <1>4, <1>5 DEF ParcelsOf

\* The frames that the thread does not look at.
LEMMA ToldStays ==
    ASSUME ResultInv, BooksInv, [Next]_vars, NEW f \in Frame, ToldOf(f),
           returned'[f] = returned[f], told'[f].metas = told[f].metas,
           told'[f].shutter = told[f].shutter,
           f \in timestampShutter' <=> f \in timestampShutter,
           ParcelsOf(f)' = ParcelsOf(f), \A i \in ParcelsOf(f) : cbList'[i] = cbList[i]
    PROVE  ToldOf(f)'
<1>1. ReturnedMetas(f) \subseteq Arrived(f) /\ ReturnedMetas(f)' = ReturnedMetas(f)
  BY DEF BooksInv, BooksOf, ReturnedMetas
<1>2. FinalReturned(f)' <=> FinalReturned(f)
  BY <1>1, FinalStays
<1>3. Expected(f)' = Expected(f)
  BY <1>1, <1>2 DEF Expected, Counted
<1>4. ShutterOf(f)' = ShutterOf(f)
  BY DEF ShutterOf
<1>5. QED
  BY <1>3, <1>4 DEF ToldOf

LEMMA ExpectedIsSeq ==
    ASSUME ResultInv, BooksInv, NEW f \in Frame
    PROVE  /\ Cardinality(ReturnedMetas(f)) \in Nat /\ IsFiniteSet(ReturnedMetas(f))
           /\ Expected(f) \in Seq(Nat)
<1>1. IsFiniteSet(ReturnedMetas(f))
  BY AppAssumption, FS_Subset DEF ReturnedMetas
<1>2. Cardinality(ReturnedMetas(f)) \in Nat
  BY <1>1, FS_CardinalityType
<1>3. Expected(f) \in Seq(Nat)
  <2> DEFINE k == Cardinality(ReturnedMetas(f))
  <2>1. Expected(f) \in [1 .. k -> Nat]
    BY <1>2, AppAssumption DEF Expected, Counted
  <2> HIDE DEF k
  <2>2. \A j \in Nat : \A s \in [1 .. j -> Nat] : s \in Seq(Nat)
    OBVIOUS
  <2>3. k \in Nat
    BY <1>2 DEF k
  <2>4. QED
    BY <2>1, <2>2, <2>3
<1>4. QED
  BY <1>1, <1>2, <1>3

LEMMA ErrorFrameTells ==
    ASSUME IInv, ResultInv, BooksInv, OneParcelInv, ToldInv, NEW f \in visit, ErrorFrame(f)
    PROVE  ToldOf(f)'
<1>0. f \in Frame /\ ToldOf(f)
  BY DEF IInv, ShapeInv, ToldInv
<1>1. UNCHANGED <<bufferNo, timestampShutter, told>>
  BY DEF ErrorFrame
<1>2. \A s \in Meta : s \in returned'[f] <=> s \in returned[f]
  <2>1. Image \cap Meta = {} /\ OutImages[f] \cup InImages[f] \subseteq Image
    BY <1>0, AppAssumption
  <2>2. returned'[f] = returned[f] \cup (OutImages[f] \ returned[f])
                            \cup ImagesToReturn(f, InImages[f])
    BY <1>0 DEF ErrorFrame, IInv, ShapeInv
  <2>3. QED
    BY <2>1, <2>2 DEF ImagesToReturn
<1>3. ReturnedMetas(f)' = ReturnedMetas(f)
  BY <1>2 DEF ReturnedMetas
<1>4. Expected(f)' = Expected(f) /\ ShutterOf(f)' = ShutterOf(f)
  BY <1>1, <1>3 DEF Expected, FinalReturned, ShutterOf
<1>5. PICK p : Prepare(p) /\ p.frame = f /\ ~p.shutter /\ p.metas = <<>>
  BY ParcelSays
<1>6. /\ ParcelsOf(f) = {}
      /\ ParcelsOf(f)' = {} \/ \E n : ParcelsOf(f)' = {n} /\ cbList'[n] = p
  BY <1>5, PrepareParcels
<1>7. told[f].metas = Expected(f) /\ told[f].shutter = ShutterOf(f)
  BY <1>0, <1>6 DEF ToldOf
<1>8. told[f].metas \o <<>> = Expected(f) /\ told[f].shutter + 0 = ShutterOf(f)
  <2>1. told[f].metas \in Seq(Nat)
    BY <1>0, <1>7, ExpectedIsSeq
  <2>2. told[f].metas \o <<>> = told[f].metas
    BY <2>1
  <2>3. QED
    BY <1>7, <2>2 DEF ShutterOf
<1>9. QED
  BY <1>1, <1>4, <1>5, <1>6, <1>7, <1>8 DEF ToldOf

LEMMA ReturnFrameMetas ==
    ASSUME IInv, ResultInv, NEW f \in visit, ReturnFrame(f)
    PROVE  /\ f \in Frame /\ UNCHANGED <<bufferNo, told>>
           /\ MetasToReturn(f) \subseteq Arrived(f) \ (bad[f] \cup returned[f])
           /\ ReturnedMetas(f)' = ReturnedMetas(f) \cup MetasToReturn(f)
           /\ f \in timestampShutter' <=>
                f \in timestampShutter \/ MetasToReturn(f) \cap Timestamped # {}
<1> DEFINE metas == MetasToReturn(f)
           imageErrors == ErrorsToSend(f, {s \in OutImages[f] : state[f][s] = "ERROR"})
           back == ImagesToReturn(f, OutImages[f] \cup InImages[f])
                    \cup (imageErrors \ returned[f])
<1>1. f \in Frame
  BY DEF IInv, ShapeInv
<1>2. /\ UNCHANGED <<bufferNo, told>> /\ returned'[f] = returned[f] \cup metas \cup back
      /\ f \in timestampShutter' <=> f \in timestampShutter \/ metas \cap Timestamped # {}
  BY <1>1 DEF ReturnFrame, IInv, ShapeInv
<1>3. metas \subseteq Arrived(f) \ (bad[f] \cup returned[f]) /\ Arrived(f) \subseteq Meta
  BY DEF MetasToReturn, Arrived
<1>4. back \subseteq OutImages[f] \cup InImages[f]
  BY DEF ImagesToReturn, ErrorsToSend
<1>5. back \cap Meta = {}
  BY <1>1, <1>4, AppAssumption
<1> HIDE DEF metas, back
<1>6. ReturnedMetas(f)' = ReturnedMetas(f) \cup metas
  BY <1>2, <1>3, <1>5 DEF ReturnedMetas
<1>7. QED
  BY <1>1, <1>2, <1>3, <1>6 DEF metas

\* The numbers in the parcel count on from those of the metadata returned before.
LEMMA ReturnFrameCounts ==
    ASSUME IInv, ResultInv, NumberInv, BooksInv, NEW f \in visit, ReturnFrame(f)
    PROVE  Expected(f) \o Numbers(f, MetasToReturn(f)) = Expected(f)'
<1> DEFINE M == MetasToReturn(f)
           R == ReturnedMetas(f)
           k == Cardinality(R)
           n == Cardinality(M)
           t == Numbers(f, M)
           a == FinalReturned(f)
           b == \E m \in M : bufferNo[f][m] = AtMost
<1>1. /\ f \in Frame /\ UNCHANGED bufferNo /\ M \subseteq Arrived(f) \ (bad[f] \cup returned[f])
      /\ ReturnedMetas(f)' = R \cup M
  BY ReturnFrameMetas
<1>2. /\ n \in Nat /\ k \in Nat /\ t \in [1 .. n -> Nat]
      /\ \A i \in 1 .. n : t[i] = IF i = n /\ b THEN AtMost ELSE k + i
  <2>1. M \in SUBSET Arrived(f)
    BY <1>1
  <2> HIDE DEF M
  <2>2. QED
    BY <1>1, <2>1, NumbersCountOn DEF ReturnedMetas
<1>3. IsFiniteSet(R) /\ IsFiniteSet(M)
  <2>1. M \in SUBSET Meta
    BY <1>1 DEF Arrived
  <2>2. QED
    BY <1>1, <2>1, AppAssumption, FS_Subset, ExpectedIsSeq
<1>4. a => M = {}
  BY <1>1 DEF BooksInv, BooksOf
<1>5. M \cap R = {}
  BY <1>1 DEF ReturnedMetas
<1>6. FinalReturned(f)' <=> a \/ b
  BY <1>1 DEF FinalReturned
<1> HIDE DEF M, R
<1>7. n = 0 <=> M = {}
  BY <1>3, FS_EmptySet
<1>8. Cardinality(R \cup M) = k + n
  <2>1. Cardinality(R \cup M) = k + n - Cardinality(R \cap M)
    BY <1>3, FS_Union
  <2>2. Cardinality(R \cap M) = 0
    BY <1>3, <1>5, FS_EmptySet
  <2> HIDE DEF k, n
  <2>3. Cardinality(R \cup M) = k + n - 0
    BY <2>1, <2>2 DEF k, n
  <2>4. QED
    BY <1>2, <2>3
<1>9. (a => n = 0) /\ (b => n # 0) /\ AtMost \in Nat
  BY <1>4, <1>7, AppAssumption
<1>10. Expected(f)' = [i \in 1 .. k + n |-> IF i = k + n /\ (a \/ b) THEN AtMost ELSE i]
  BY <1>1, <1>6, <1>8 DEF Expected, Counted
<1>11. Expected(f) = [i \in 1 .. k |-> IF i = k /\ a THEN AtMost ELSE i]
  BY DEF Expected, Counted, R
<1> HIDE DEF k, n, t, a, b
<1>12. /\ Expected(f) \in [1 .. k -> Nat] /\ Expected(f)' \in [1 .. k + n -> Nat]
       /\ \A i \in 1 .. k : Expected(f)[i] = IF i = k /\ a THEN AtMost ELSE i
       /\ \A i \in 1 .. k + n : Expected(f)'[i] = IF i = k + n /\ (a \/ b) THEN AtMost ELSE i
  BY <1>2, <1>9, <1>10, <1>11
<1>13. ASSUME NEW i \in 1 .. k PROVE Expected(f)'[i] = Expected(f)[i]
  <2>1. i \in 1 .. k + n /\ (i = k + n <=> i = k /\ n = 0)
    BY <1>2
  <2>2. i = k + n /\ (a \/ b) <=> i = k /\ a
    BY <1>2, <1>9, <2>1
  <2>3. QED
    BY <1>12, <2>1, <2>2
<1>14. ASSUME NEW i \in 1 .. n PROVE Expected(f)'[k + i] = t[i]
  <2>1. k + i \in 1 .. k + n /\ (k + i = k + n <=> i = n) /\ n # 0
    BY <1>2
  <2>2. ~a
    BY <1>9, <2>1
  <2>3. QED
    BY <1>2, <1>12, <2>1, <2>2
<1>15. Expected(f) \o t = Expected(f)'
  <2>1. \A j \in Nat : \A s \in [1 .. j -> Nat] : s \in Seq(Nat) /\ Len(s) = j
    OBVIOUS
  <2>2. /\ Expected(f) \in Seq(Nat) /\ Len(Expected(f)) = k /\ t \in Seq(Nat) /\ Len(t) = n
        /\ Expected(f)' \in Seq(Nat) /\ Len(Expected(f)') = k + n
    <3>1. k + n \in Nat
      BY <1>2
    <3>2. QED
      BY <1>2, <1>12, <2>1, <3>1
  <2>3. QED
    BY <1>13, <1>14, <2>2, ConcatIs
<1>16. QED
  BY <1>15 DEF t, M

LEMMA ReturnFrameTells ==
    ASSUME IInv, ResultInv, NumberInv, BooksInv, OneParcelInv, ToldInv, NEW f \in visit,
           ReturnFrame(f)
    PROVE  ToldOf(f)'
<1> DEFINE M == MetasToReturn(f)
<1>1. /\ f \in Frame /\ told' = told /\ ToldOf(f)
      /\ f \in timestampShutter' <=> f \in timestampShutter \/ M \cap Timestamped # {}
  BY ReturnFrameMetas DEF ToldInv
<1>2. PICK p : /\ Prepare(p) /\ p.frame = f /\ p.metas = Numbers(f, M)
               /\ p.shutter <=> M \cap Timestamped # {} /\ f \notin timestampShutter
  BY ParcelSays
<1>3. /\ ParcelsOf(f) = {}
      /\ \/ ParcelsOf(f)' = {} /\ ~p.shutter /\ p.metas = <<>>
         \/ \E n : ParcelsOf(f)' = {n} /\ cbList'[n] = p
  BY <1>2, PrepareParcels
<1>4. told[f].metas = Expected(f) /\ told[f].shutter = ShutterOf(f)
  BY <1>1, <1>3 DEF ToldOf
<1>5. told[f].metas \o p.metas = Expected(f)'
  BY <1>2, <1>4, ReturnFrameCounts
<1>6. p.metas = <<>> => told[f].metas = Expected(f)'
  <2>1. Expected(f) \in Seq(Nat)
    BY <1>1, ExpectedIsSeq
  <2>2. Expected(f) \o <<>> = Expected(f)
    BY <2>1
  <2>3. QED
    BY <1>4, <1>5, <2>2
<1> HIDE DEF M
<1>7. told[f].shutter + (IF p.shutter THEN 1 ELSE 0) = ShutterOf(f)'
  BY <1>1, <1>2, <1>4 DEF ShutterOf
<1>8. ~p.shutter => told[f].shutter = ShutterOf(f)'
  BY <1>1, <1>2, <1>4 DEF ShutterOf
<1>9. QED
  BY <1>1, <1>3, <1>5, <1>6, <1>7, <1>8 DEF ToldOf

LEMMA ToldNext ==
    ASSUME IInv, ResultInv, NumberInv, BooksInv, OneParcelInv, ToldInv, [Next]_vars
    PROVE  ToldInv'
<1>1. \A f \in Frame : ToldOf(f)
  BY DEF ToldInv
<1>2. CASE UNCHANGED <<returned, timestampShutter, cbList, told>>
  <2>1. ASSUME NEW f \in Frame PROVE ToldOf(f)'
    <3>1. ParcelsOf(f)' = ParcelsOf(f)
      BY <1>2 DEF ParcelsOf
    <3>2. QED
      BY <1>1, <1>2, <3>1, ToldStays
  <2>2. QED
    BY <2>1 DEF ToldInv
<1>3. CASE \/ NodeStep \/ BeginFlush \/ FlushStep \/ TimeOut \/ DequeResult \/ VisitFrames
           \/ StartCallbacks \/ SignalDrained \/ UNCHANGED vars
           \/ \E f \in Frame : RegisterRequest(f) \/ SubmitRequest(f)
           \/ \E f \in Pending : UpdateFrame(f) \/ SkipResult(f)
  BY <1>2, <1>3 DEF NodeStep, Release, UpdateResult, RegisterRequest, SubmitRequest, BeginFlush,
              FlushStep, WaitUntilDrained, EndFlush, TimeOut, DequeResult, VisitFrames,
              StartCallbacks, SignalDrained, vars, UpdateFrame, SkipResult, handler, items, thread
<1>4. ASSUME NEW f \in Frame, FlushRequest(f) PROVE ToldInv'
  <2>1. /\ UNCHANGED <<returned, timestampShutter, cbList>>
        /\ told' = [told EXCEPT ![f].errors = {"request"},
                                ![f].images = [s \in Image |->
                                    IF s \in OutImages[f] \cup InImages[f] THEN 1 ELSE 0]]
    BY <1>4 DEF FlushRequest, handler, items, thread
  <2>2. \A g \in Frame : told'[g].metas = told[g].metas /\ told'[g].shutter = told[g].shutter
    <3>1. told = [g \in Frame |-> told[g]] /\ \A g \in Frame : IsTold(told[g])
      BY DEF IInv, ShapeInv
    <3>2. told'[f] = [told[f] EXCEPT !.errors = {"request"},
                                    !.images = [s \in Image |->
                                        IF s \in OutImages[f] \cup InImages[f] THEN 1 ELSE 0]]
      BY <2>1, <3>1
    <3>3. told'[f].metas = told[f].metas /\ told'[f].shutter = told[f].shutter
      BY <3>1, <3>2 DEF IsTold
    <3>4. \A g \in Frame \ {f} : told'[g] = told[g]
      BY <2>1, <3>1
    <3>5. QED
      BY <3>3, <3>4
  <2>3. \A g \in Frame : ParcelsOf(g)' = ParcelsOf(g)
    BY <2>1 DEF ParcelsOf
  <2>4. \A g \in Frame : ToldOf(g)'
    BY <1>1, <2>1, <2>2, <2>3, ToldStays
  <2>5. QED
    BY <2>4 DEF ToldInv
<1>5. CASE PerformCallback
  <2>0. PICK f : f = cbList[1].frame
    OBVIOUS
  <2>1. /\ f \in Frame /\ told'[f].metas = told[f].metas \o cbList[1].metas
        /\ told'[f].shutter = told[f].shutter + (IF cbList[1].shutter THEN 1 ELSE 0)
        /\ \A g \in Frame \ {f} : told'[g] = told[g]
    BY <1>5, <2>0, CallbackTakes
  <2>2. /\ ParcelsOf(f) = {1} /\ ParcelsOf(f)' = {}
        /\ \A g : g # f =>
            /\ ParcelsOf(g)' = {} => ParcelsOf(g) = {}
            /\ \A i \in ParcelsOf(g)' : i + 1 \in ParcelsOf(g) /\ cbList'[i] = cbList[i + 1]
    BY <1>5, <2>0, CallbackParcels
  <2>3. UNCHANGED <<returned, bufferNo, timestampShutter>>
    BY <1>5 DEF PerformCallback, handler, items
  <2>4. \A g \in Frame : Expected(g)' = Expected(g) /\ ShutterOf(g)' = ShutterOf(g)
    BY <2>3 DEF Expected, FinalReturned, ReturnedMetas, ShutterOf
  <2>5. ToldOf(f)'
    BY <1>1, <2>1, <2>2, <2>4 DEF ToldOf
  <2>6. ASSUME NEW g \in Frame \ {f} PROVE ToldOf(g)'
    <3>1. ToldOf(g) /\ told'[g] = told[g]
      BY <1>1, <2>1
    <3>2. QED
      BY <2>2, <2>4, <3>1 DEF ToldOf
  <2>7. QED
    BY <2>5, <2>6 DEF ToldInv
<1>6. ASSUME NEW f \in visit, ErrorFrame(f) \/ ReturnFrame(f) PROVE ToldInv'
  <2>1. ToldOf(f)'
    BY <1>6, ErrorFrameTells, ReturnFrameTells
  <2>2. PICK p : Prepare(p) /\ p.frame = f
    BY <1>6, ParcelSays
  <2>3. ASSUME NEW g \in Frame \ {f} PROVE ToldOf(g)'
    <3>1. ParcelsOf(g)' = ParcelsOf(g) /\ \A i \in ParcelsOf(g) : cbList'[i] = cbList[i]
      BY <2>2, PrepareParcels
    <3>2. /\ returned'[g] = returned[g] /\ told' = told
          /\ g \in timestampShutter' <=> g \in timestampShutter
      BY <1>6 DEF ErrorFrame, ReturnFrame, IInv, ShapeInv
    <3>3. QED
      BY <1>1, <3>1, <3>2, ToldStays
  <2>4. QED
    BY <2>1, <2>3 DEF ToldInv
<1>7. QED
  BY <1>3, <1>4, <1>5, <1>6 DEF Next, DeviceStep, ThreadStep

\* An error that the frame handler has noted has been reported, and a request that reached
\* no pipeline has been answered by the device.
AnswerOf(f) ==
    /\ f \in registered \ (submitted \cup mFrameQueue) => "request" \in told[f].errors
    /\ "meta" \in errors[f] => "result" \in Reported(f)
    /\ "frame" \in errors[f] => "request" \in Reported(f)
AnswerInv == \A f \in Frame : AnswerOf(f)

\* Nothing that was reported is taken back.
LEMMA ReportsStay ==
    ASSUME IInv, ErrorInv, [Next]_vars, NEW f \in Frame
    PROVE  /\ Reported(f) \subseteq Reported(f)'
           /\ f \in registered => told[f].errors \subseteq told'[f].errors
<1>1. CASE UNCHANGED <<cbList, told>>
  BY <1>1 DEF Reported, ParcelsOf
<1>2. CASE \/ NodeStep \/ BeginFlush \/ FlushStep \/ TimeOut \/ DequeResult \/ VisitFrames
           \/ StartCallbacks \/ SignalDrained \/ UNCHANGED vars
           \/ \E g \in Frame : RegisterRequest(g) \/ SubmitRequest(g)
           \/ \E g \in Pending : UpdateFrame(g) \/ SkipResult(g)
  BY <1>1, <1>2 DEF NodeStep, Release, UpdateResult, RegisterRequest, SubmitRequest, BeginFlush,
              FlushStep, WaitUntilDrained, EndFlush, TimeOut, DequeResult, VisitFrames,
              StartCallbacks, SignalDrained, vars, UpdateFrame, SkipResult, thread
<1>3. ASSUME NEW g \in Frame, FlushRequest(g)
      PROVE  /\ Reported(f) \subseteq Reported(f)'
             /\ f \in registered => told[f].errors \subseteq told'[f].errors
  <2>1. g \notin registered /\ cbList' = cbList
    BY <1>3 DEF FlushRequest, NextRequest, thread
  <2>2. CASE f = g
    <3>1. Reported(f) = {}
      BY <2>1, <2>2, UnregisteredHasNothing
    <3>2. QED
      BY <2>1, <2>2, <3>1
  <2>3. CASE f # g
    <3>1. told'[f] = told[f]
      BY <1>3, <2>3 DEF FlushRequest, IInv, ShapeInv
    <3>2. QED
      BY <2>1, <3>1 DEF Reported, ParcelsOf
  <2>4. QED
    BY <2>2, <2>3
<1>4. CASE PerformCallback
  <2>1. Reported(f)' = Reported(f)
    BY <1>4, CallbackReports
  <2>2. PICK g : g = cbList[1].frame
    OBVIOUS
  <2>3. /\ g \in Frame /\ told'[g].errors = told[g].errors \cup cbList[1].errors
        /\ \A h \in Frame \ {g} : told'[h] = told[h]
    BY <1>4, <2>2, CallbackTakes
  <2>4. QED
    BY <2>1, <2>3
<1>5. ASSUME NEW g \in visit, ErrorFrame(g) \/ ReturnFrame(g)
      PROVE  /\ Reported(f) \subseteq Reported(f)'
             /\ f \in registered => told[f].errors \subseteq told'[f].errors
  <2>1. told' = told
    BY <1>5 DEF ErrorFrame, ReturnFrame
  <2>2. PICK p : Prepare(p)
    BY <1>5, ParcelSays
  <2>3. \A e : e \in Reported(f) => e \in Reported(f)'
    BY <2>1, <2>2, PrepareReports
  <2>4. QED
    BY <2>1, <2>3
<1>6. QED
  BY <1>2, <1>3, <1>4, <1>5 DEF Next, DeviceStep, ThreadStep

\* A frame does not leave the queue before it has got to a pipeline.
LEMMA RemovedWasSubmitted ==
    ASSUME StateInv', LocatedInv, NEW f \in Frame, ErrorFrame(f) \/ ReturnFrame(f),
           f \in mFrameQueue, f \notin mFrameQueue'
    PROVE  f \in submitted
<1>1. released' = released /\ RemoveOrKeep(f)
  BY DEF ErrorFrame, ReturnFrame, pipelines
<1>2. OutImages[f] \subseteq returned'[f]
  BY <1>1 DEF RemoveOrKeep, IsFrameRemovable
<1>3. PICK s \in OutImages[f] : s \in returned'[f]
  BY <1>2, AppAssumption
<1>4. Producer[s] \in released[f]
  BY <1>1, <1>3 DEF StateInv, StateOf
<1>5. QED
  BY <1>4 DEF LocatedInv, LocatedOf

LEMMA AnswerNext ==
    ASSUME IInv, ResultInv, StateInv', ErrorInv, LocatedInv, AnswerInv, [Next]_vars
    PROVE  AnswerInv'
<1>1. \A f \in Frame : /\ AnswerOf(f) /\ Reported(f) \subseteq Reported(f)'
                       /\ f \in registered => told[f].errors \subseteq told'[f].errors
  BY ReportsStay DEF AnswerInv
<1>2. submitted \subseteq submitted'
  BY FrameSteps
<1>3. ASSUME registered' = registered, mFrameQueue \subseteq mFrameQueue', errors' = errors
      PROVE  AnswerInv'
  BY <1>1, <1>2, <1>3 DEF AnswerInv, AnswerOf
<1>4. CASE \/ NodeStep \/ BeginFlush \/ FlushStep \/ TimeOut \/ DequeResult \/ VisitFrames
           \/ StartCallbacks \/ PerformCallback \/ SignalDrained \/ UNCHANGED vars
           \/ \E f \in Frame : SubmitRequest(f)
           \/ \E f \in Pending : UpdateFrame(f) \/ SkipResult(f)
  BY <1>3, <1>4 DEF NodeStep, Release, UpdateResult, SubmitRequest, BeginFlush,
              FlushStep, WaitUntilDrained, EndFlush, TimeOut, DequeResult, VisitFrames,
              StartCallbacks, PerformCallback, SignalDrained, vars, UpdateFrame, SkipResult,
              requests, handler, items
<1>5. ASSUME NEW f \in Frame, RegisterRequest(f) PROVE AnswerInv'
  <2>1. /\ registered' = registered \cup {f} /\ mFrameQueue' = mFrameQueue \cup {f}
        /\ errors' = errors
    BY <1>5 DEF RegisterRequest, items
  <2>2. QED
    BY <1>1, <1>2, <2>1 DEF AnswerInv, AnswerOf
<1>6. ASSUME NEW f \in Frame, FlushRequest(f) PROVE AnswerInv'
  <2>1. /\ registered' = registered \cup {f} /\ UNCHANGED <<mFrameQueue, errors>>
    BY <1>6 DEF FlushRequest, handler, items
  <2>2. told'[f].errors = {"request"}
    <3>1. told = [g \in Frame |-> told[g]] /\ IsTold(told[f])
      BY DEF IInv, ShapeInv
    <3>2. told'[f] = [told[f] EXCEPT !.errors = {"request"},
                                    !.images = [s \in Image |->
                                        IF s \in OutImages[f] \cup InImages[f] THEN 1 ELSE 0]]
      BY <1>6, <3>1 DEF FlushRequest
    <3>3. QED
      BY <3>1, <3>2 DEF IsTold
  <2>3. QED
    BY <1>1, <1>2, <2>1, <2>2 DEF AnswerInv, AnswerOf
<1>7. ASSUME NEW f \in visit, ErrorFrame(f) \/ ReturnFrame(f) PROVE AnswerInv'
  <2>0. f \in Frame /\ f \in mFrameQueue
    BY DEF IInv, ShapeInv
  <2>1. /\ UNCHANGED <<registered, submitted, told>> /\ mFrameQueue \subseteq mFrameQueue' \cup {f}
        /\ \A g \in Frame \ {f} : errors'[g] = errors[g]
    BY <1>7 DEF ErrorFrame, ReturnFrame, RemoveOrKeep, pipelines, requests, ResultInv, FormInv
  <2>2. f \in mFrameQueue' \/ f \in submitted
    BY <1>7, <2>0, RemovedWasSubmitted
  <2>3. PICK p : /\ Prepare(p) /\ p.frame = f
                 /\ "frame" \in errors'[f] => "frame" \in errors[f] \/ "request" \in p.errors
                 /\ "meta" \in errors'[f] => "meta" \in errors[f] \/ "result" \in p.errors
    <3>1. CASE ErrorFrame(f)
      <4>1. errors'[f] = errors[f] \cup {"frame"}
        BY <2>0, <3>1 DEF ErrorFrame, ResultInv, FormInv
      <4>2. PICK p : Prepare(p) /\ p.frame = f /\ p.errors = {"request"}
        BY <3>1, ParcelSays
      <4>3. QED
        BY <4>1, <4>2
    <3>2. CASE ReturnFrame(f)
      <4> DEFINE metaErrors == ErrorsToSend(f, Arrived(f))
                 imageErrors == ErrorsToSend(f, {s \in OutImages[f] : state[f][s] = "ERROR"})
                 result == metaErrors # {} /\ "meta" \notin errors[f]
      <4>1. errors'[f] = errors[f] \cup (IF result THEN {"meta"} ELSE {})
        BY <2>0, <3>2 DEF ReturnFrame, ResultInv, FormInv
      <4>2. PICK p : /\ Prepare(p) /\ p.frame = f
                     /\ p.errors = imageErrors \cup (IF result THEN {"result"} ELSE {})
        BY <3>2, ParcelSays
      <4> HIDE DEF metaErrors, imageErrors, result
      <4>3. QED
        BY <4>1, <4>2
    <3>3. QED
      BY <1>7, <3>1, <3>2
  <2>4. \A e \in p.errors : e \in Reported(f)'
    BY <2>1, <2>3, PrepareReports
  <2>5. AnswerOf(f)'
    BY <1>1, <2>0, <2>1, <2>2, <2>3, <2>4 DEF AnswerOf
  <2>6. \A g \in Frame \ {f} : AnswerOf(g)'
    BY <1>1, <2>1 DEF AnswerOf
  <2>7. QED
    BY <2>5, <2>6 DEF AnswerInv
<1>8. QED
  BY <1>4, <1>5, <1>6, <1>7 DEF Next, DeviceStep, ThreadStep

\* What the results of a frame come to, told and noted.
BookkeepingInv ==
    /\ StateInv /\ ErrorInv /\ OrderInv /\ IdleInv /\ LocatedInv /\ NumberInv
    /\ OneParcelInv /\ BooksInv /\ ToldInv /\ AnswerInv

LEMMA BookkeepingInit == Init => BookkeepingInv
<1> SUFFICES ASSUME Init PROVE BookkeepingInv
  OBVIOUS
<1>0. /\ MetasOf(None) = {} /\ ~Last(None) /\ cbList = <<>> /\ DOMAIN cbList = {}
      /\ \A f \in Frame : Arrived(f) = {} /\ ParcelsOf(f) = {}
  BY DEF Init, MetasOf, Last, Arrived, ParcelsOf
<1>1. StateInv /\ ErrorInv
  BY ChainInit
<1>2. OrderInv
  BY <1>0 DEF Init, OrderInv, OrderOf, Below
<1>3. IdleInv /\ OneParcelInv
  BY <1>0 DEF Init, IdleInv, OneParcelInv
<1>4. LocatedInv
  <2>1. \A f \in Frame : OutMetas(f) # {}
    BY AppAssumption
  <2>2. QED
    BY <1>0, <2>1 DEF Init, LocatedInv, LocatedOf
<1>5. NumberInv
  BY <1>0 DEF NumberInv, NumberOf
<1>6. BooksInv
  BY <1>0 DEF Init, BooksInv, BooksOf, ReturnedMetas, FinalReturned
<1>7. ToldInv
  <2>1. ASSUME NEW f \in Frame PROVE Expected(f) = <<>> /\ ShutterOf(f) = 0
    <3>1. ReturnedMetas(f) = {}
      BY DEF Init, ReturnedMetas
    <3>2. Cardinality(ReturnedMetas(f)) = 0
      BY <3>1, FS_EmptySet
    <3>3. QED
      BY <3>2 DEF Init, Expected, Counted, ShutterOf
  <2>2. \A f \in Frame : told[f].metas = <<>> /\ told[f].shutter = 0
    BY DEF Init, Untold
  <2>3. QED
    BY <1>0, <2>1, <2>2 DEF ToldInv, ToldOf
<1>8. AnswerInv
  BY DEF Init, AnswerInv, AnswerOf
<1>9. QED
  BY <1>1, <1>2, <1>3, <1>4, <1>5, <1>6, <1>7, <1>8 DEF BookkeepingInv

\* The invariants of the metadata, with those of the module before.
LEMMA BookkeepingInductive ==
    ASSUME OneAtATime, IdsInOrder
    PROVE  Spec => [](IInv /\ ResultInv /\ ChainInv /\ BookkeepingInv)
<1>1. IInv /\ ResultInv /\ ChainInv /\ BookkeepingInv /\ [Next]_vars => BookkeepingInv'
  <2> SUFFICES ASSUME IInv, ResultInv, ChainInv, BookkeepingInv, [Next]_vars
               PROVE  BookkeepingInv'
    OBVIOUS
  <2>1. AppTypeOK /\ LastInv /\ ParentInv
    BY DEF ResultInv, ChainInv
  <2>2. StateInv' /\ ErrorInv'
    BY <2>1, StateNext, ErrorNext DEF BookkeepingInv
  <2>3. OrderInv' /\ IdleInv' /\ LocatedInv' /\ OneParcelInv'
    BY <2>1, OrderNext, IdleNext, LocatedNext, OneParcelNext DEF BookkeepingInv
  <2>4. NumberInv' /\ BooksInv' /\ ToldInv' /\ AnswerInv'
    BY <2>2, NumberNext, BooksNext, ToldNext, AnswerNext DEF BookkeepingInv
  <2>5. QED
    BY <2>2, <2>3, <2>4 DEF BookkeepingInv
<1>2. QED
  BY <1>1, BookkeepingInit, ChainInductive, PTL DEF Spec

\* A frame that is answered with neither an error of the request nor one of its results has
\* had one shutter and every metadata of its nodes, numbered without a gap up to the final
\* one (FrameHandler::prepareShutterNotificationIfPossible, prepareMetaCallbackIfPossible,
\* isFrameRemovable).  The ids of the metadata have to ascend along the graph: the frame
\* handler takes the largest for the last.
THEOREM AllMetadataReturned ==
    ASSUME OneAtATime, IdsInOrder
    PROVE  Spec => []SettledFrameHasItsMetadata
<1>1. ASSUME ResultInv, BookkeepingInv, NEW f \in Frame, Settled(f),
             told[f].errors \cap {"request", "result"} = {}
      PROVE  LET n == Cardinality(OutMetas(f)) IN
             /\ told[f].shutter = 1
             /\ told[f].metas = [i \in 1 .. n |-> IF i = n THEN AtMost ELSE i]
  <2>0. /\ AppTypeOK /\ JourneyOf(f) /\ BooksOf(f) /\ ToldOf(f) /\ AnswerOf(f) /\ NumberInv
    BY <1>1 DEF ResultInv, JourneyInv, BookkeepingInv, BooksInv, ToldInv, AnswerInv
  <2>1. ParcelsOf(f) = {} /\ Reported(f) = told[f].errors
    <3>1. ParcelsOf(f) = {}
      BY <1>1 DEF Settled, ParcelsOf
    <3>2. QED
      BY <3>1 DEF Reported
  <2>2. f \in submitted \ mFrameQueue
    BY <1>1, <2>0 DEF AnswerOf, Settled
  <2>3. errors[f] = {}
    BY <1>1, <2>0, <2>1 DEF AnswerOf, AppTypeOK
  <2>4. f \in timestampShutter /\ f \in hasLastPartial /\ ReturnedMetas(f) = OutMetas(f)
    BY <2>0, <2>2, <2>3 DEF BooksOf
  <2>5. Arrived(f) = OutMetas(f) /\ Arrived(f) # {}
    <3>1. OutMetas(f) # {}
      BY AppAssumption
    <3>2. QED
      BY <2>0, <2>4, <3>1 DEF JourneyOf, BooksOf
  <2>6. FinalReturned(f)
    <3>1. /\ LargestIn(Arrived(f)) \in Arrived(f)
          /\ bufferNo[f][LargestIn(Arrived(f))] = AtMost
      BY <2>0, <2>4, <2>5, LargestArrived
    <3>2. QED
      BY <2>4, <2>5, <3>1 DEF FinalReturned
  <2>7. told[f].metas = Expected(f) /\ told[f].shutter = ShutterOf(f)
    BY <2>0, <2>1 DEF ToldOf
  <2>8. Expected(f) = [i \in 1 .. Cardinality(OutMetas(f)) |->
                            IF i = Cardinality(OutMetas(f)) THEN AtMost ELSE i]
    BY <2>4, <2>6 DEF Expected, Counted
  <2>9. QED
    BY <2>4, <2>7, <2>8 DEF ShutterOf
<1>2. ResultInv /\ BookkeepingInv => SettledFrameHasItsMetadata
  BY <1>1 DEF SettledFrameHasItsMetadata
<1>3. QED
  BY <1>2, BookkeepingInductive, PTL

-----------------------------------------------------------------------------
(***************************************************************************)
(* The order of the final metadata of frames.                              *)
(***************************************************************************)

\* The metadata for the application are read by no node of the pipelines.
OneUserEach ==
    \A f \in Frame : \A m \in OutMetas(f) : Users[m] \cap NodesOf[f] = {Producer[m]}

\* Frames are registered by their numbers, each when the one before is in a pipeline.
RegistrationInv ==
    \A f \in registered, g \in Frame : g < f =>
        g \in registered /\ (g \in mFrameQueue => g \in submitted)

\* A frame that the thread has looked at, and all metadata that had come in were good:
\* none of them is left.
LookedAt(g) == g \in hasLastPartial \/ bad[g] \cap Meta # {} \/ Arrived(g) \subseteq emptied[g]
VisitInv ==
    /\ visit # {} => pc = "visit"
    /\ \A f \in visit, g \in mFrameQueue \ visit : g < f => LookedAt(g)

\* The numbers of the metadata are lists.
MetaListInv ==
    /\ \A f \in Frame : told[f].metas \in Seq(Nat)
    /\ \A i \in DOMAIN cbList : cbList[i].metas \in Seq(Nat)

HasFinal(s) == AtMost \in Elements(s)

\* The final metadata of an earlier frame has been told of before, or is in an earlier parcel.
FinalOf(f, g) ==
    /\ Final(f) => Final(g) \/ bad[g] \cap Meta # {}
    /\ \A i \in ParcelsOf(f) : HasFinal(cbList[i].metas) =>
        \/ Final(g) \/ bad[g] \cap Meta # {}
        \/ \E j \in ParcelsOf(g) : j < i /\ HasFinal(cbList[j].metas)
FinalInv == \A f, g \in submitted : g < f => FinalOf(f, g)

LEMMA RegistrationNext ==
    ASSUME AppTypeOK, RegistrationInv, [Next]_vars
    PROVE  RegistrationInv'
<1>0. submitted \subseteq submitted'
  BY FrameSteps
<1>1. ASSUME registered' = registered, mFrameQueue' \subseteq mFrameQueue
      PROVE  RegistrationInv'
  BY <1>0, <1>1 DEF RegistrationInv
<1>2. CASE \/ NodeStep \/ BeginFlush \/ FlushStep \/ TimeOut \/ DequeResult \/ VisitFrames
           \/ StartCallbacks \/ PerformCallback \/ SignalDrained \/ UNCHANGED vars
           \/ \E f \in Frame : SubmitRequest(f)
           \/ \E f \in Pending : UpdateFrame(f) \/ SkipResult(f)
           \/ \E f \in visit : ErrorFrame(f) \/ ReturnFrame(f)
  BY <1>1, <1>2 DEF NodeStep, Release, UpdateResult, SubmitRequest, BeginFlush,
              FlushStep, WaitUntilDrained, EndFlush, TimeOut, DequeResult, VisitFrames,
              StartCallbacks, PerformCallback, SignalDrained, vars, UpdateFrame, SkipResult,
              ErrorFrame, ReturnFrame, RemoveOrKeep, requests, handler
<1>3. ASSUME NEW f \in Frame, RegisterRequest(f) \/ FlushRequest(f) PROVE RegistrationInv'
  <2>1. /\ NextRequest(f) /\ registered' = registered \cup {f}
        /\ mFrameQueue' \subseteq mFrameQueue \cup {f}
    BY <1>3 DEF RegisterRequest, FlushRequest, handler
  <2>2. registered \subseteq Frame /\ Frame \subseteq Nat
    BY AppAssumption DEF AppTypeOK
  <2>3. ASSUME NEW h \in registered', NEW g \in Frame, g < h
        PROVE  g \in registered' /\ (g \in mFrameQueue' => g \in submitted')
    <3>1. g # f
      BY <2>1, <2>2, <2>3 DEF NextRequest, RegistrationInv
    <3>2. QED
      BY <1>0, <2>1, <2>3, <3>1 DEF NextRequest, RegistrationInv
  <2>4. QED
    BY <2>3 DEF RegistrationInv
<1>4. QED
  BY <1>2, <1>3 DEF Next, DeviceStep, ThreadStep

\* After a look at it, a frame whose last metadata is still to come has none left.
LEMMA LookLeavesNone ==
    ASSUME OneUserEach, IInv, ResultInv, NumberInv, NEW f \in visit, f \in Frame,
           ErrorFrame(f) \/ ReturnFrame(f)
    PROVE  LookedAt(f)'
<1>1. UNCHANGED <<bad, bufferNo, hasLastPartial>> /\ Arrived(f)' = Arrived(f)
  BY DEF ErrorFrame, ReturnFrame, pipelines, Arrived
<1>2. CASE Arrived(f) \cap bad[f] # {}
  <2>1. bad[f] \cap Meta # {}
    BY <1>2 DEF Arrived
  <2>2. QED
    BY <1>1, <2>1 DEF LookedAt
<1>3. CASE Arrived(f) \cap bad[f] = {} /\ f \notin hasLastPartial
  <2>1. ReturnFrame(f)
    BY <1>3 DEF ErrorFrame, RequestError
  <2>2. /\ returned'[f] = returned[f] \cup MetasToReturn(f)
            \cup (ImagesToReturn(f, OutImages[f] \cup InImages[f])
                  \cup (ErrorsToSend(f, {s \in OutImages[f] : state[f][s] = "ERROR"})
                            \ returned[f]))
        /\ emptied'[f] = emptied[f] \cup
            {m \in Arrived(f) : /\ Users[m] \cap NodesOf[f] \subseteq released[f]
                                /\ m \in returned'[f] \cup errorSent'[f]}
    BY <2>1 DEF ReturnFrame, IInv, ShapeInv, ResultInv, FormInv
  <2>3. \A m \in Arrived(f) : MetaReturnable(f, m)
    BY <1>3 DEF MetaReturnable, NumberInv, NumberOf
  <2>4. \A m \in Arrived(f) : m \in returned[f] \cup MetasToReturn(f)
    BY <1>3, <2>3 DEF MetasToReturn
  <2>5. \A m \in Arrived(f) : Users[m] \cap NodesOf[f] \subseteq released[f]
    BY DEF OneUserEach, ResultInv, JourneyInv, JourneyOf, Through
  <2>6. Arrived(f) \subseteq emptied'[f]
    BY <2>2, <2>4, <2>5
  <2>7. QED
    BY <1>1, <2>6 DEF LookedAt
<1>4. QED
  BY <1>1, <1>2, <1>3 DEF LookedAt

LEMMA VisitNext ==
    ASSUME OneUserEach, IInv, ResultInv, ChainInv, StateInv, NumberInv, VisitInv, [Next]_vars
    PROVE  VisitInv'
<1>0. /\ AppTypeOK /\ LastInv /\ visit \subseteq mFrameQueue /\ mFrameQueue \subseteq Frame
      /\ Frame \subseteq Nat
  BY AppAssumption DEF ResultInv, ChainInv, AppTypeOK
<1>1. ASSUME NEW g \in Frame, emptied'[g] = emptied[g], pc = "visit", bufferNo' = bufferNo,
             LookedAt(g)
      PROVE  LookedAt(g)'
  <2>1. /\ bad[g] \subseteq bad'[g] /\ g \in hasLastPartial => g \in hasLastPartial'
    BY <1>0, FactsStay
  <2>2. QED
    BY <1>0, <1>1, FactsStay DEF LookedAt, Arrived
<1>2. ASSUME UNCHANGED <<pc, visit, mFrameQueue, emptied, bufferNo>> PROVE VisitInv'
  BY <1>0, <1>1, <1>2 DEF VisitInv
<1>3. CASE \/ NodeStep \/ BeginFlush \/ FlushStep \/ TimeOut \/ UNCHANGED vars
           \/ \E f \in Frame : SubmitRequest(f) \/ FlushRequest(f)
           \/ PerformCallback
  BY <1>2, <1>3 DEF NodeStep, Release, UpdateResult, SubmitRequest, FlushRequest, BeginFlush,
              FlushStep, WaitUntilDrained, EndFlush, TimeOut, PerformCallback, vars, handler,
              items, thread
<1>4. CASE \/ DequeResult \/ StartCallbacks \/ SignalDrained
           \/ \E f \in Frame : RegisterRequest(f)
           \/ \E f \in Pending : UpdateFrame(f) \/ SkipResult(f)
  <2>1. visit = {} /\ visit' = {}
    BY <1>4 DEF DequeResult, StartCallbacks, SignalDrained, RegisterRequest, LockedHandler,
                UpdateFrame, SkipResult, thread, VisitInv
  <2>2. QED
    BY <2>1 DEF VisitInv
<1>5. CASE VisitFrames
  <2>1. /\ visit' = {f \in mFrameQueue : f <= latestResultFrameNo} /\ pc' = "visit"
        /\ mFrameQueue' = mFrameQueue
    BY <1>5 DEF VisitFrames, handler
  <2>2. latestResultFrameNo \in Nat
    BY <1>0 DEF AppTypeOK
  <2>3. \A f \in visit', g \in mFrameQueue \ visit' : ~(g < f)
    BY <1>0, <2>1, <2>2
  <2>4. QED
    BY <2>1, <2>3 DEF VisitInv
<1>6. ASSUME NEW f \in visit, ErrorFrame(f) \/ ReturnFrame(f) PROVE VisitInv'
  <2>1. /\ pc = "visit" /\ UNCHANGED <<pc, bufferNo>> /\ visit' = visit \ {f}
        /\ mFrameQueue' \subseteq mFrameQueue
        /\ \A g \in Frame \ {f} : emptied'[g] = emptied[g]
    BY <1>6 DEF ErrorFrame, ReturnFrame, RemoveOrKeep, ResultInv, FormInv
  <2>2. LookedAt(f)'
    BY <1>0, <1>6, LookLeavesNone
  <2>3. ASSUME NEW h \in visit', NEW g \in mFrameQueue' \ visit', g < h PROVE LookedAt(g)'
    <3>1. CASE g = f
      BY <2>2, <3>1
    <3>2. CASE g # f
      BY <1>0, <1>1, <2>1, <2>3, <3>2 DEF VisitInv
    <3>3. QED
      BY <3>1, <3>2
  <2>4. QED
    BY <2>1, <2>3 DEF VisitInv
<1>7. QED
  BY <1>3, <1>4, <1>5, <1>6 DEF Next, DeviceStep, ThreadStep

LEMMA FlushTells ==
    ASSUME IInv, NEW f \in Frame, FlushRequest(f)
    PROVE  \A g \in Frame : told'[g].metas = told[g].metas
<1>1. told = [g \in Frame |-> told[g]] /\ IsTold(told[f])
  BY DEF IInv, ShapeInv
<1>2. told'[f] = [told[f] EXCEPT !.errors = {"request"},
                                !.images = [s \in Image |->
                                    IF s \in OutImages[f] \cup InImages[f] THEN 1 ELSE 0]]
  BY <1>1 DEF FlushRequest
<1>3. told'[f].metas = told[f].metas
  BY <1>1, <1>2 DEF IsTold
<1>4. \A g \in Frame \ {f} : told'[g] = told[g]
  BY <1>1 DEF FlushRequest
<1>5. QED
  BY <1>3, <1>4

LEMMA MetaListNext ==
    ASSUME IInv, ResultInv, NumberInv, MetaListInv, [Next]_vars
    PROVE  MetaListInv'
<1>1. CASE UNCHANGED <<cbList, told>>
  BY <1>1 DEF MetaListInv
<1>2. CASE \/ NodeStep \/ BeginFlush \/ FlushStep \/ TimeOut \/ DequeResult \/ VisitFrames
           \/ StartCallbacks \/ SignalDrained \/ UNCHANGED vars
           \/ \E f \in Frame : RegisterRequest(f) \/ SubmitRequest(f)
           \/ \E f \in Pending : UpdateFrame(f) \/ SkipResult(f)
  BY <1>1, <1>2 DEF NodeStep, Release, UpdateResult, RegisterRequest, SubmitRequest, BeginFlush,
              FlushStep, WaitUntilDrained, EndFlush, TimeOut, DequeResult, VisitFrames,
              StartCallbacks, SignalDrained, vars, UpdateFrame, SkipResult, thread
<1>3. ASSUME NEW f \in Frame, FlushRequest(f) PROVE MetaListInv'
  <2>1. cbList' = cbList
    BY <1>3 DEF FlushRequest, thread
  <2>2. QED
    BY <1>3, <2>1, FlushTells DEF MetaListInv
<1>4. CASE PerformCallback
  <2>0. PICK f : f = cbList[1].frame
    OBVIOUS
  <2>1. /\ f \in Frame /\ 1 \in DOMAIN cbList
        /\ told'[f].metas = told[f].metas \o cbList[1].metas
        /\ \A g \in Frame \ {f} : told'[g] = told[g]
        /\ \A i \in DOMAIN cbList' : i + 1 \in DOMAIN cbList /\ cbList'[i] = cbList[i + 1]
    BY <1>4, <2>0, CallbackTakes
  <2>2. \A s, t \in Seq(Nat) : s \o t \in Seq(Nat)
    OBVIOUS
  <2>3. told'[f].metas \in Seq(Nat)
    BY <2>1, <2>2 DEF MetaListInv
  <2>4. QED
    BY <2>1, <2>3 DEF MetaListInv
<1>5. ASSUME NEW f \in visit, ErrorFrame(f) \/ ReturnFrame(f) PROVE MetaListInv'
  <2>1. told' = told
    BY <1>5 DEF ErrorFrame, ReturnFrame
  <2>2. PICK p : Prepare(p) /\ p.frame = f /\ p.metas \in Seq(Nat)
    <3>1. CASE ErrorFrame(f)
      <4>1. PICK p : Prepare(p) /\ p.frame = f /\ p.metas = <<>>
        BY <3>1, ParcelSays
      <4>2. <<>> \in Seq(Nat)
        OBVIOUS
      <4>3. QED
        BY <4>1, <4>2
    <3>2. CASE ReturnFrame(f)
      <4>1. f \in Frame /\ MetasToReturn(f) \in SUBSET Arrived(f)
        BY <3>2, ReturnFrameMetas
      <4>2. /\ Cardinality(MetasToReturn(f)) \in Nat
            /\ Numbers(f, MetasToReturn(f)) \in [1 .. Cardinality(MetasToReturn(f)) -> Nat]
        BY <4>1, NumbersCountOn
      <4>3. \A j \in Nat : \A s \in [1 .. j -> Nat] : s \in Seq(Nat)
        OBVIOUS
      <4>4. Numbers(f, MetasToReturn(f)) \in Seq(Nat)
        BY <4>2, <4>3
      <4>5. QED
        BY <3>2, <4>4, ParcelSays
    <3>3. QED
      BY <1>5, <3>1, <3>2
  <2>3. QED
    BY <2>1, <2>2, PrepareAppends DEF MetaListInv
<1>6. QED
  BY <1>2, <1>3, <1>4, <1>5 DEF Next, DeviceStep, ThreadStep

\* The numbers that are told, or in a parcel, are those of the metadata that are returned.
LEMMA NumbersTold ==
    ASSUME ToldInv, MetaListInv, NEW f \in Frame
    PROVE  \A e : e \in Elements(Expected(f)) <=>
                \/ e \in Elements(told[f].metas)
                \/ \E i \in ParcelsOf(f) : e \in Elements(cbList[i].metas)
<1>0. ToldOf(f) /\ told[f].metas \in Seq(Nat)
  BY DEF ToldInv, MetaListInv
<1>1. ASSUME NEW i \in ParcelsOf(f)
      PROVE  Elements(Expected(f)) = Elements(told[f].metas) \cup Elements(cbList[i].metas)
  <2>1. cbList[i].metas \in Seq(Nat) /\ told[f].metas \o cbList[i].metas = Expected(f)
    BY <1>0 DEF ToldOf, MetaListInv, ParcelsOf
  <2>2. QED
    BY <1>0, <2>1, ElementsOfConcat
<1>2. CASE ParcelsOf(f) = {}
  BY <1>0, <1>2 DEF ToldOf
<1>3. CASE ParcelsOf(f) # {}
  BY <1>1, <1>3
<1>4. QED
  BY <1>2, <1>3

\* The final metadata that has been returned has been told of, or is in a parcel; and that
\* of a frame that is in no pipeline has not.
LEMMA FinalTold ==
    ASSUME ResultInv, LocatedInv, BooksInv, ToldInv, MetaListInv, NEW f \in Frame
    PROVE  /\ FinalReturned(f) => Final(f) \/ \E i \in ParcelsOf(f) : HasFinal(cbList[i].metas)
           /\ f \notin submitted => ~Final(f) /\ \A i \in ParcelsOf(f) : ~HasFinal(cbList[i].metas)
<1>0. /\ Final(f) <=> AtMost \in Elements(told[f].metas)
      /\ \A i : HasFinal(cbList[i].metas) <=> AtMost \in Elements(cbList[i].metas)
  BY DEF Final, HasFinal, Elements
<1>1. ASSUME FinalReturned(f) PROVE AtMost \in Elements(Expected(f))
  <2> DEFINE k == Cardinality(ReturnedMetas(f))
  <2>1. k \in Nat /\ k # 0
    BY <1>1, ExpectedIsSeq, FS_EmptySet DEF FinalReturned
  <2>2. Expected(f) = [i \in 1 .. k |-> IF i = k THEN AtMost ELSE i]
    BY <1>1 DEF Expected, Counted
  <2> HIDE DEF k
  <2>3. k \in DOMAIN Expected(f) /\ Expected(f)[k] = AtMost
    BY <2>1, <2>2
  <2>4. QED
    BY <2>3 DEF Elements
<1>2. ASSUME f \notin submitted PROVE Elements(Expected(f)) = {}
  <2>1. Arrived(f) = {}
    BY <1>2 DEF LocatedInv, LocatedOf, ResultInv, JourneyInv, JourneyOf, Through
  <2>2. ReturnedMetas(f) = {}
    BY <2>1 DEF BooksInv, BooksOf
  <2>3. Cardinality(ReturnedMetas(f)) = 0
    BY <2>2, FS_EmptySet
  <2>4. DOMAIN Expected(f) = {}
    BY <2>3 DEF Expected, Counted
  <2>5. QED
    BY <2>4 DEF Elements
<1>3. QED
  BY <1>0, <1>1, <1>2, NumbersTold

\* A parcel says that a metadata is the final one when it is.
LEMMA FinalInParcel ==
    ASSUME IInv, ResultInv, LocatedInv, NumberInv, BooksInv, NEW f \in visit, ReturnFrame(f),
           HasFinal(Numbers(f, MetasToReturn(f)))
    PROVE  \E m \in MetasToReturn(f) : bufferNo[f][m] = AtMost
<1> DEFINE M == MetasToReturn(f)
           R == ReturnedMetas(f)
           k == Cardinality(R)
           n == Cardinality(M)
           t == Numbers(f, M)
           b == \E m \in M : bufferNo[f][m] = AtMost
<1>1. /\ f \in Frame /\ M \subseteq Arrived(f) \ (bad[f] \cup returned[f])
      /\ R \subseteq Arrived(f) /\ Arrived(f) \subseteq OutMetas(f) /\ M \cap R = {}
      /\ FinalReturned(f) => M = {}
  BY ReturnFrameMetas DEF BooksInv, BooksOf, ResultInv, JourneyInv, JourneyOf, ReturnedMetas
<1>2. /\ n \in Nat /\ k \in Nat /\ t \in [1 .. n -> Nat]
      /\ \A i \in 1 .. n : t[i] = IF i = n /\ b THEN AtMost ELSE k + i
  <2>1. M \in SUBSET Arrived(f)
    BY <1>1
  <2> HIDE DEF M
  <2>2. QED
    BY <1>1, <2>1, NumbersCountOn DEF ReturnedMetas
<1>3. PICK i \in 1 .. n : t[i] = AtMost
  BY <1>2 DEF HasFinal, Elements
<1>4. IsFiniteSet(OutMetas(f)) /\ Cardinality(OutMetas(f)) \in Nat
      /\ Cardinality(OutMetas(f)) <= AtMost /\ AtMost \in Nat
  BY <1>1, OutMetasFit, FS_CardinalityType, AppAssumption
<1>5. IsFiniteSet(R) /\ IsFiniteSet(M) /\ M # {}
  <2>1. IsFiniteSet(R) /\ IsFiniteSet(M)
    BY <1>1, <1>4, FS_Subset
  <2>2. n # 0
    BY <1>2, <1>3
  <2>3. QED
    BY <2>1, <2>2, FS_EmptySet
<1>6. FinalReturned(f) <=> \E m \in R : bufferNo[f][m] = AtMost
  BY DEF FinalReturned
<1> HIDE DEF M, R
<1>7. Cardinality(R \cup M) = k + n
  <2>1. Cardinality(R \cup M) = k + n - Cardinality(R \cap M)
    BY <1>5, FS_Union
  <2>2. Cardinality(R \cap M) = 0
    BY <1>1, FS_EmptySet
  <2> HIDE DEF k, n
  <2>3. Cardinality(R \cup M) = k + n - 0
    BY <2>1, <2>2 DEF k, n
  <2>4. QED
    BY <1>2, <2>3
<1>8. CASE b
  BY <1>8 DEF M
<1>9. CASE ~b
  <2>1. AtMost = k + i /\ i <= n /\ i \in Nat
    BY <1>2, <1>3, <1>9
  <2>2. R \cup M \subseteq OutMetas(f)
    BY <1>1
  <2>3. Cardinality(R \cup M) <= Cardinality(OutMetas(f))
    BY <1>4, <2>2, FS_Subset
  <2>4. Cardinality(R \cup M) = Cardinality(OutMetas(f))
    <3> HIDE DEF k, n, t, b
    <3>1. \A a, c, d, e, j \in Nat : a = c + j /\ j <= d /\ c + d <= e /\ e <= a => c + d = e
      OBVIOUS
    <3>2. k + n <= Cardinality(OutMetas(f))
      BY <1>7, <2>3
    <3>3. QED
      BY <1>2, <1>4, <1>7, <2>1, <3>1, <3>2
  <2>5. R \cup M = OutMetas(f)
    BY <1>4, <2>2, <2>4, FS_Subset
  <2>6. Arrived(f) = OutMetas(f) /\ Arrived(f) # {} /\ Arrived(f) = R \cup M
    BY <1>1, <1>5, <2>5
  <2>7. f \in hasLastPartial
    <3>1. LocatedOf(f)
      BY <1>1 DEF LocatedInv
    <3>2. f \notin hasLastPartial => ~(OutMetas(f) \subseteq Arrived(f))
      BY <3>1 DEF LocatedOf
    <3>3. QED
      BY <2>6, <3>2
  <2>8. PICK m \in Arrived(f) : bufferNo[f][m] = AtMost
    BY <1>1, <2>6, <2>7 DEF NumberInv, NumberOf
  <2>9. FinalReturned(f)
    BY <1>6, <1>9, <2>6, <2>8
  <2>10. QED
    BY <1>1, <1>5, <2>9
<1>10. QED
  BY <1>8, <1>9

LEMMA SmallestFrame ==
    ASSUME NEW S \in SUBSET Frame, S # {}
    PROVE  \A g \in S : SmallestIn(S) <= g
<1>1. S \in SUBSET Nat /\ IsFiniteSet(S)
  BY AppAssumption, FS_Subset
<1>2. Cardinality(S) \in Nat /\ Cardinality(S) # 0
  BY <1>1, FS_CardinalityType, FS_EmptySet
<1>3. PICK m \in S : Cardinality({k \in S : k < m}) = 1 - 1
  <2>1. 1 \in 1 .. Cardinality(S)
    BY <1>2
  <2>2. QED
    BY <1>1, <2>1, Ranks
<1>4. {k \in S : k < m} = {}
  <2>1. IsFiniteSet({k \in S : k < m})
    BY <1>1, FS_Subset
  <2>2. Cardinality({k \in S : k < m}) = 0
    BY <1>3
  <2>3. QED
    BY <2>1, <2>2, FS_EmptySet
<1>5. \A g \in S : m <= g
  <2>1. \A g \in S : ~(g < m)
    BY <1>4
  <2>2. QED
    BY <1>1, <2>1
<1>6. QED
  BY <1>5 DEF SmallestIn

\* The final metadata of a frame is returned when those of the frames before it have been.
LEMMA FinalWaits ==
    ASSUME IInv, ResultInv, NumberInv, BooksInv, ErrorInv, AnswerInv, VisitInv,
           NEW f \in visit, ReturnFrame(f),
           NEW m \in MetasToReturn(f), bufferNo[f][m] = AtMost, NEW g \in submitted, g < f
    PROVE  FinalReturned(g) \/ bad[g] \cap Meta # {}
<1>0. /\ g \in Frame /\ f \in Frame /\ visit \in SUBSET Frame /\ Frame \subseteq Nat
      /\ BooksOf(g) /\ AnswerOf(g) /\ ErrorOf(g) /\ JourneyOf(g)
  BY AppAssumption
     DEF ResultInv, AppTypeOK, BooksInv, AnswerInv, ErrorInv, JourneyInv
<1>1. errors[g] # {} => bad[g] \cap Meta # {}
  <2>1. "meta" \in errors[g] => bad[g] \cap Meta # {}
    BY <1>0 DEF AnswerOf, ErrorOf
  <2>2. "frame" \in errors[g] => bad[g] \cap Meta # {}
    BY <1>0 DEF AnswerOf, ErrorOf, RequestError, Arrived
  <2>3. QED
    BY <1>0, <2>1, <2>2 DEF ResultInv, AppTypeOK
<1>2. CASE g \notin mFrameQueue
  <2>1. errors[g] # {} \/ (g \in hasLastPartial /\ ReturnedMetas(g) = OutMetas(g))
    BY <1>0, <1>2 DEF BooksOf
  <2>2. ASSUME g \in hasLastPartial, ReturnedMetas(g) = OutMetas(g) PROVE FinalReturned(g)
    <3>1. Arrived(g) = OutMetas(g)
      BY <1>0, <2>2 DEF BooksOf, JourneyOf
    <3>2. OutMetas(g) # {}
      BY <1>0, AppAssumption
    <3>3. PICK k \in Arrived(g) : bufferNo[g][k] = AtMost
      BY <1>0, <2>2, <3>1, <3>2, LargestArrived
    <3>4. QED
      BY <2>2, <3>1, <3>3 DEF FinalReturned
  <2>3. QED
    BY <1>1, <2>1, <2>2
<1>3. CASE g \in mFrameQueue
  <2>1. Arrived(g) # {} /\ (g \in hasLastPartial <=> LastIsEmptied(g))
    BY <1>3 DEF MetasToReturn, MetaReturnable
  <2>2. /\ LargestIn(Arrived(g)) \in Arrived(g)
        /\ g \in hasLastPartial => bufferNo[g][LargestIn(Arrived(g))] = AtMost
    BY <1>0, <2>1, LargestArrived
  <2>3. CASE g \in hasLastPartial
    <3>1. LargestIn(Arrived(g)) \in returned[g] \cup errorSent[g]
      BY <1>0, <2>1, <2>3 DEF LastIsEmptied, BooksOf
    <3>2. LargestIn(Arrived(g)) \in Meta
      BY <2>2 DEF Arrived
    <3>3. CASE LargestIn(Arrived(g)) \in returned[g]
      BY <2>2, <2>3, <3>2, <3>3 DEF FinalReturned, ReturnedMetas
    <3>4. CASE LargestIn(Arrived(g)) \in errorSent[g]
      BY <1>0, <1>1, <3>2, <3>4 DEF BooksOf
    <3>5. QED
      BY <3>1, <3>3, <3>4
  <2>4. CASE g \notin hasLastPartial
    <3>1. g \notin visit
      <4>1. f <= g \/ g \notin visit
        BY <1>0, SmallestFrame DEF ReturnFrame
      <4>2. QED
        BY <1>0, <4>1
    <3>2. LookedAt(g)
      BY <1>3, <3>1 DEF VisitInv
    <3>3. ~(Arrived(g) \subseteq emptied[g])
      BY <2>1, <2>2, <2>4 DEF LastIsEmptied
    <3>4. QED
      BY <2>4, <3>2, <3>3 DEF LookedAt
  <2>5. QED
    BY <2>3, <2>4
<1>4. QED
  BY <1>2, <1>3

LEMMA FinalNext ==
    ASSUME IInv, ResultInv, ChainInv, StateInv, ErrorInv, LocatedInv, NumberInv, OneParcelInv,
           BooksInv, ToldInv, AnswerInv, RegistrationInv, VisitInv, MetaListInv, FinalInv,
           [Next]_vars
    PROVE  FinalInv'
<1>0. /\ AppTypeOK /\ LastInv /\ submitted \subseteq Frame /\ submitted \subseteq registered
      /\ submitted \subseteq submitted'
  BY FrameSteps DEF ResultInv, AppTypeOK, ChainInv
<1>1. \A g \in Frame : bad[g] \subseteq bad'[g]
  BY <1>0, FactsStay
<1>2. \A f : Final(f) <=> HasFinal(told[f].metas)
  BY DEF Final, HasFinal, Elements
<1>3. ASSUME NEW f \in Frame, NEW g \in Frame, FinalOf(f, g), cbList' = cbList,
             told'[f].metas = told[f].metas, told'[g].metas = told[g].metas
      PROVE  FinalOf(f, g)'
  BY <1>1, <1>3 DEF FinalOf, Final, ParcelsOf, HasFinal
<1>4. ASSUME submitted' = submitted, cbList' = cbList,
             \A g \in Frame : told'[g].metas = told[g].metas
      PROVE  FinalInv'
  BY <1>0, <1>3, <1>4 DEF FinalInv
<1>5. CASE \/ NodeStep \/ BeginFlush \/ FlushStep \/ TimeOut \/ DequeResult \/ VisitFrames
           \/ StartCallbacks \/ SignalDrained \/ UNCHANGED vars
           \/ \E f \in Frame : RegisterRequest(f)
           \/ \E f \in Pending : UpdateFrame(f) \/ SkipResult(f)
  BY <1>4, <1>5 DEF NodeStep, Release, UpdateResult, RegisterRequest, BeginFlush,
              FlushStep, WaitUntilDrained, EndFlush, TimeOut, DequeResult, VisitFrames,
              StartCallbacks, SignalDrained, vars, UpdateFrame, SkipResult, thread, pipelines
<1>6. ASSUME NEW f \in Frame, FlushRequest(f) PROVE FinalInv'
  <2>1. submitted' = submitted /\ cbList' = cbList
    BY <1>6 DEF FlushRequest, thread, pipelines
  <2>2. QED
    BY <1>4, <1>6, <2>1, FlushTells
<1>7. ASSUME NEW h \in Frame, SubmitRequest(h) PROVE FinalInv'
  <2>1. /\ h \in mFrameQueue \ submitted /\ submitted' = submitted \cup {h}
        /\ UNCHANGED <<cbList, told>>
    BY <1>7 DEF SubmitRequest, thread
  <2>2. ~Final(h) /\ \A i \in ParcelsOf(h) : ~HasFinal(cbList[i].metas)
    BY <2>1, FinalTold
  <2>3. ASSUME NEW f \in submitted', NEW g \in submitted', g < f PROVE FinalOf(f, g)'
    <3>1. f \in Frame /\ g \in Frame
      BY <1>0, <2>1, <2>3
    <3>2. g # h
      <4>1. f \in registered
        BY <1>0, <2>1, <2>3 DEF AppTypeOK
      <4>2. QED
        BY <2>1, <2>3, <3>1, <4>1, AppAssumption DEF RegistrationInv
    <3>3. CASE f = h
      BY <2>1, <2>2, <3>3 DEF FinalOf, Final, ParcelsOf, HasFinal
    <3>4. CASE f # h
      BY <1>3, <2>1, <2>3, <3>1, <3>2, <3>4 DEF FinalInv
    <3>5. QED
      BY <3>3, <3>4
  <2>4. QED
    BY <2>3 DEF FinalInv
<1>8. CASE PerformCallback
  <2>0. PICK h : h = cbList[1].frame
    OBVIOUS
  <2> DEFINE t == cbList[1].metas
  <2>1. /\ h \in Frame /\ told'[h].metas = told[h].metas \o t
        /\ \A g \in Frame \ {h} : told'[g] = told[g]
        /\ 1 \in DOMAIN cbList /\ DOMAIN cbList \subseteq Nat \ {0} /\ DOMAIN cbList' \subseteq Nat
        /\ \A i \in DOMAIN cbList' : i + 1 \in DOMAIN cbList /\ cbList'[i] = cbList[i + 1]
        /\ \A i \in DOMAIN cbList : i # 1 =>
                i - 1 \in DOMAIN cbList' /\ cbList'[i - 1] = cbList[i]
    BY <1>8, <2>0, CallbackTakes
  <2>2. ParcelsOf(h) = {1} /\ submitted' = submitted
    BY <1>8, <2>0, CallbackParcels DEF PerformCallback, pipelines
  <2>3. Final(h)' <=> Final(h) \/ HasFinal(t)
    <3>1. told[h].metas \in Seq(Nat) /\ t \in Seq(Nat)
      BY <2>1 DEF MetaListInv
    <3>2. Elements(told'[h].metas) = Elements(told[h].metas) \cup Elements(t)
      BY <2>1, <3>1, ElementsOfConcat
    <3>3. Final(h)' <=> AtMost \in Elements(told'[h].metas)
      BY DEF Final, Elements
    <3>4. QED
      BY <1>2, <3>2, <3>3 DEF HasFinal
  <2>4. \A g \in Frame : /\ Final(g) => Final(g)'
                         /\ Final(g)' => Final(g) \/ (g = h /\ HasFinal(t))
                         /\ 1 \in ParcelsOf(g) => g = h
    <3>1. \A g \in Frame \ {h} : Final(g)' <=> Final(g)
      BY <2>1 DEF Final
    <3>2. \A g : 1 \in ParcelsOf(g) => g = h
      BY <2>0 DEF ParcelsOf
    <3>3. QED
      BY <2>3, <3>1, <3>2
  <2>5. \A g, i : i \in ParcelsOf(g)' => i + 1 \in ParcelsOf(g) /\ cbList'[i] = cbList[i + 1]
    BY <2>1 DEF ParcelsOf
  <2>6. \A g, i : i \in ParcelsOf(g) /\ i # 1 =>
            i - 1 \in ParcelsOf(g)' /\ cbList'[i - 1] = cbList[i]
    BY <2>1 DEF ParcelsOf
  <2>7. \A g : ParcelsOf(g) \subseteq Nat \ {0}
    BY <2>1 DEF ParcelsOf
  <2>8. \A g, i : i \in ParcelsOf(g)' => i \in Nat
    BY <2>1 DEF ParcelsOf
  <2> HIDE DEF t
  <2>9. ASSUME NEW f \in submitted, NEW g \in submitted, g < f PROVE FinalOf(f, g)'
    <3>1. f \in Frame /\ g \in Frame /\ FinalOf(f, g) /\ bad[g] \subseteq bad'[g]
      BY <1>0, <1>1, <2>9 DEF FinalInv
    <3>2. ASSUME Final(f)' PROVE Final(g)' \/ bad'[g] \cap Meta # {}
      <4>1. CASE Final(f)
        BY <2>4, <3>1, <4>1 DEF FinalOf
      <4>2. CASE f = h /\ HasFinal(t)
        <5>1. \A j \in ParcelsOf(g) : ~(j < 1)
          BY <2>7
        <5>2. Final(g) \/ bad[g] \cap Meta # {}
          BY <2>2, <3>1, <4>2, <5>1 DEF FinalOf, t
        <5>3. QED
          BY <2>4, <3>1, <5>2
      <4>3. QED
        BY <2>4, <3>1, <3>2, <4>1, <4>2
    <3>3. ASSUME NEW i \in ParcelsOf(f)', HasFinal(cbList'[i].metas)
          PROVE  \/ Final(g)' \/ bad'[g] \cap Meta # {}
                 \/ \E j \in ParcelsOf(g)' : j < i /\ HasFinal(cbList'[j].metas)
      <4>1. i \in Nat /\ i + 1 \in ParcelsOf(f) /\ HasFinal(cbList[i + 1].metas)
        BY <2>5, <2>8, <3>3
      <4>2. \/ Final(g) \/ bad[g] \cap Meta # {}
            \/ \E j \in ParcelsOf(g) : j < i + 1 /\ HasFinal(cbList[j].metas)
        BY <3>1, <4>1 DEF FinalOf
      <4>3. CASE Final(g) \/ bad[g] \cap Meta # {}
        BY <2>4, <3>1, <4>3
      <4>4. ASSUME NEW j \in ParcelsOf(g), j < i + 1, HasFinal(cbList[j].metas)
            PROVE  Final(g)' \/ \E k \in ParcelsOf(g)' : k < i /\ HasFinal(cbList'[k].metas)
        <5>1. CASE j = 1
          BY <2>3, <2>4, <3>1, <4>4, <5>1 DEF t
        <5>2. CASE j # 1
          <6>1. j - 1 \in ParcelsOf(g)' /\ cbList'[j - 1] = cbList[j]
            BY <2>6, <5>2
          <6>2. j - 1 < i
            BY <2>7, <4>1, <4>4
          <6>3. QED
            BY <4>4, <6>1, <6>2
        <5>3. QED
          BY <5>1, <5>2
      <4>5. QED
        BY <4>2, <4>3, <4>4
    <3>4. QED
      BY <3>2, <3>3 DEF FinalOf
  <2>10. QED
    BY <2>2, <2>9 DEF FinalInv
<1>9. ASSUME NEW h \in visit, ErrorFrame(h) \/ ReturnFrame(h) PROVE FinalInv'
  <2>1. told' = told /\ submitted' = submitted
    BY <1>9 DEF ErrorFrame, ReturnFrame, pipelines
  <2>2. PICK p : /\ Prepare(p) /\ p.frame = h
                 /\ HasFinal(p.metas) => \A g \in submitted : g < h =>
                        FinalReturned(g) \/ bad[g] \cap Meta # {}
    <3>1. CASE ErrorFrame(h)
      <4>1. PICK p : Prepare(p) /\ p.frame = h /\ p.metas = <<>>
        BY <3>1, ParcelSays
      <4>2. ~HasFinal(p.metas)
        BY <4>1 DEF HasFinal, Elements
      <4>3. QED
        BY <4>1, <4>2
    <3>2. CASE ReturnFrame(h)
      <4>1. PICK p : Prepare(p) /\ p.frame = h /\ p.metas = Numbers(h, MetasToReturn(h))
        BY <3>2, ParcelSays
      <4>2. HasFinal(p.metas) => \E m \in MetasToReturn(h) : bufferNo[h][m] = AtMost
        BY <3>2, <4>1, FinalInParcel
      <4>3. HasFinal(p.metas) => \A g \in submitted : g < h =>
                FinalReturned(g) \/ bad[g] \cap Meta # {}
        BY <3>2, <4>2, FinalWaits
      <4>4. QED
        BY <4>1, <4>3
    <3>3. QED
      BY <1>9, <3>1, <3>2
  <2>3. /\ ParcelsOf(h) = {}
        /\ \A i \in ParcelsOf(h)' : cbList'[i] = p /\ \A j \in DOMAIN cbList : j < i
        /\ \A g : g # h => /\ ParcelsOf(g)' = ParcelsOf(g)
                           /\ \A i \in ParcelsOf(g) : cbList'[i] = cbList[i]
    BY <2>2, PrepareParcels
  <2>4. \A g : Final(g)' <=> Final(g)
    BY <2>1 DEF Final
  <2>5. ASSUME NEW f \in submitted, NEW g \in submitted, g < f PROVE FinalOf(f, g)'
    <3>1. f \in Frame /\ g \in Frame /\ FinalOf(f, g) /\ bad[g] \subseteq bad'[g] /\ g # f
      BY <1>0, <1>1, <2>5, AppAssumption DEF FinalInv
    <3>2. ASSUME NEW i \in ParcelsOf(f)', HasFinal(cbList'[i].metas)
          PROVE  \/ Final(g) \/ bad[g] \cap Meta # {}
                 \/ \E j \in ParcelsOf(g)' : j < i /\ HasFinal(cbList'[j].metas)
      <4>1. CASE f = h
        <5>1. FinalReturned(g) \/ bad[g] \cap Meta # {}
          BY <2>2, <2>3, <2>5, <3>2, <4>1
        <5>2. \/ Final(g) \/ bad[g] \cap Meta # {}
              \/ \E j \in ParcelsOf(g) : HasFinal(cbList[j].metas)
          BY <3>1, <5>1, FinalTold
        <5>3. \A j \in ParcelsOf(g) : j < i
          BY <2>3, <3>2, <4>1 DEF ParcelsOf
        <5>4. QED
          BY <2>3, <3>1, <4>1, <5>2, <5>3
      <4>2. CASE f # h
        <5>1. i \in ParcelsOf(f) /\ HasFinal(cbList[i].metas)
          BY <2>3, <3>2, <4>2
        <5>2. \/ Final(g) \/ bad[g] \cap Meta # {}
              \/ \E j \in ParcelsOf(g) : j < i /\ HasFinal(cbList[j].metas)
          BY <3>1, <5>1 DEF FinalOf
        <5>3. \A j \in ParcelsOf(g) : j \in ParcelsOf(g)' /\ cbList'[j] = cbList[j]
          BY <2>3
        <5>4. QED
          BY <5>2, <5>3
      <4>3. QED
        BY <4>1, <4>2
    <3>3. QED
      BY <2>4, <3>1, <3>2 DEF FinalOf
  <2>6. QED
    BY <2>1, <2>5 DEF FinalInv
<1>10. QED
  BY <1>5, <1>6, <1>7, <1>8, <1>9 DEF Next, DeviceStep, ThreadStep

\* The final metadata of frames reach the framework in the order of the requests, whatever
\* pipelines they go through, but for frames with metadata in error
\* (FrameHandler::isReturnable).  No node may read the metadata that go to the application:
\* one that is read keeps its item after it is returned, and the frame handler takes a frame
\* with such an item for one that holds nobody up.
THEOREM FinalsReturnedInOrder ==
    ASSUME OneAtATime, IdsInOrder, OneUserEach
    PROVE  Spec => []FinalsInOrder
<1> DEFINE I == RegistrationInv /\ VisitInv /\ MetaListInv /\ FinalInv
<1>1. Init => I
  <2> SUFFICES ASSUME Init PROVE I
    OBVIOUS
  <2>1. /\ registered = {} /\ visit = {} /\ submitted = {} /\ DOMAIN cbList = {}
        /\ \A f \in Frame : told[f].metas = <<>>
    BY DEF Init, Untold
  <2>2. <<>> \in Seq(Nat)
    OBVIOUS
  <2>3. QED
    BY <2>1, <2>2 DEF RegistrationInv, VisitInv, MetaListInv, FinalInv
<1>2. IInv /\ ResultInv /\ ChainInv /\ BookkeepingInv /\ I /\ [Next]_vars => I'
  <2> SUFFICES ASSUME IInv, ResultInv, ChainInv, BookkeepingInv, I, [Next]_vars PROVE I'
    OBVIOUS
  <2>1. AppTypeOK /\ RegistrationInv /\ VisitInv /\ MetaListInv /\ FinalInv
    BY DEF ResultInv
  <2>2. RegistrationInv' /\ VisitInv' /\ MetaListInv'
    BY <2>1, RegistrationNext, VisitNext, MetaListNext DEF BookkeepingInv
  <2>3. FinalInv'
    BY <2>1, FinalNext DEF BookkeepingInv
  <2>4. QED
    BY <2>2, <2>3
<1>3. I => FinalsInOrder
  BY DEF FinalInv, FinalOf, FinalsInOrder
<1>4. QED
  BY <1>1, <1>2, <1>3, BookkeepingInductive, PTL DEF Spec
=============================================================================
