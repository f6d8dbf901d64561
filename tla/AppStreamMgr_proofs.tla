------------------------- MODULE AppStreamMgr_proofs -------------------------
(***************************************************************************)
(* Proof that every image of a request goes back to the framework exactly  *)
(* once, for any number of frames, nodes, pipelines and streams.           *)
(***************************************************************************)
EXTENDS AppStreamMgr, TLAPS

Wanted(f) == OutImages[f] \cup InImages[f]
IsTold(t) == t = [shutter |-> t.shutter, metas |-> t.metas,
                  errors |-> t.errors, images |-> t.images]

\* s of frame f is in a callback that is still to be made.
OnTheWay(f, s) == \E i \in DOMAIN cbList : cbList[i].frame = f /\ s \in cbList[i].images

\* The shape of what the argument uses.
ShapeInv ==
    /\ registered \subseteq Frame
    /\ mFrameQueue \subseteq registered
    /\ visit \subseteq mFrameQueue
    /\ returned = [f \in Frame |-> returned[f]]
    /\ told = [f \in Frame |-> told[f]]
    /\ \A f \in Frame : IsTold(told[f]) /\ told[f].images \in [Image -> {0, 1}]
    /\ \E P : cbList \in Seq(P)
    /\ \A i \in DOMAIN cbList : cbList[i].frame \in registered

\* A callback that is still to be made has images of its request that have not
\* gone back, and that no other such callback has.
CallbackInv ==
    /\ \A i \in DOMAIN cbList : \A s \in cbList[i].images :
            /\ s \in Wanted(cbList[i].frame)
            /\ told[cbList[i].frame].images[s] = 0
    /\ \A i, j \in DOMAIN cbList : i # j /\ cbList[i].frame = cbList[j].frame =>
            cbList[i].images \cap cbList[j].images = {}

\* The frame handler knows which images it has returned, and a frame that it does
\* not have any more has returned all.
ReturnInv ==
    /\ \A f \in Frame : \A s \in Image :
            told[f].images[s] = 1 => s \in Wanted(f) /\ f \in registered
    /\ \A f \in mFrameQueue : \A s \in Image :
            s \in returned[f] <=> (told[f].images[s] = 1 \/ OnTheWay(f, s))
    /\ \A f \in registered \ mFrameQueue : \A s \in Wanted(f) :
            told[f].images[s] = 1 \/ OnTheWay(f, s)
    /\ \A f \in Frame \ registered : returned[f] = {}

IInv == ShapeInv /\ CallbackInv /\ ReturnInv
-----------------------------------------------------------------------------
LEMMA InvInit == Init => IInv
<1> SUFFICES ASSUME Init PROVE IInv
  OBVIOUS
<1>1. \A f \in Frame : told[f] = Untold
  BY DEF Init
<1>2. \A f \in Frame : IsTold(told[f]) /\ told[f].images = [s \in Image |-> 0]
  BY <1>1 DEF Untold, IsTold
<1>3. cbList = <<>> /\ cbList \in Seq({})
  BY DEF Init
<1>4. ShapeInv
  <2>1. \E P : cbList \in Seq(P)
    BY <1>3
  <2>2. QED
    BY <1>2, <1>3, <2>1 DEF Init, ShapeInv
<1>5. CallbackInv
  BY <1>3 DEF CallbackInv
<1>6. ReturnInv
  BY <1>2 DEF Init, ReturnInv
<1>7. QED
  BY <1>4, <1>5, <1>6 DEF IInv

\* Steps that leave frames, callbacks and the framework alone.
LEMMA InvSame ==
    ASSUME IInv, UNCHANGED <<registered, mFrameQueue, returned, cbList, told>>,
           visit' \subseteq mFrameQueue
    PROVE  IInv'
<1>1. ShapeInv'
  BY DEF IInv, ShapeInv
<1>2. CallbackInv'
  BY DEF IInv, CallbackInv
<1>3. \A f, s : OnTheWay(f, s)' <=> OnTheWay(f, s)
  BY DEF OnTheWay
<1>4. UNCHANGED <<registered, mFrameQueue, returned, told>>
  OBVIOUS
<1>5. ReturnInv'
  BY <1>3, <1>4 DEF IInv, ReturnInv
<1>6. QED
  BY <1>1, <1>2, <1>5 DEF IInv

LEMMA InvRegister ==
    ASSUME IInv, NEW f \in Frame, RegisterRequest(f)
    PROVE  IInv'
<1>1. /\ f \notin registered /\ registered' = registered \cup {f}
      /\ mFrameQueue' = mFrameQueue \cup {f}
      /\ UNCHANGED <<returned, cbList, told, visit>>
  BY DEF RegisterRequest, NextRequest, items, thread
<1>2. ShapeInv'
  BY <1>1 DEF IInv, ShapeInv
<1>3. CallbackInv'
  BY <1>1 DEF IInv, CallbackInv
<1>4. \A g, s : OnTheWay(g, s)' <=> OnTheWay(g, s)
  BY <1>1 DEF OnTheWay
<1>5. \A s : ~OnTheWay(f, s)
  BY <1>1 DEF OnTheWay, IInv, ShapeInv
<1>6. ReturnInv'
  <2>1. ReturnInv /\ returned[f] = {}
    BY <1>1 DEF IInv, ReturnInv
  <2>2. \A g \in Frame : \A s \in Image :
            told'[g].images[s] = 1 => s \in Wanted(g) /\ g \in registered'
    BY <1>1, <2>1 DEF ReturnInv
  <2>3. \A s \in Image : told[f].images[s] # 1
    BY <1>1, <2>1 DEF ReturnInv
  <2>4. \A g \in mFrameQueue' : \A s \in Image :
            s \in returned'[g] <=> (told'[g].images[s] = 1 \/ OnTheWay(g, s)')
    BY <1>1, <1>4, <1>5, <2>1, <2>3 DEF ReturnInv
  <2>5. \A g \in registered' \ mFrameQueue' : \A s \in Wanted(g) :
            told'[g].images[s] = 1 \/ OnTheWay(g, s)'
    BY <1>1, <1>4, <2>1 DEF ReturnInv
  <2>6. QED
    BY <1>1, <2>1, <2>2, <2>4, <2>5 DEF ReturnInv
<1>7. QED
  BY <1>2, <1>3, <1>6 DEF IInv

LEMMA InvFlushRequest ==
    ASSUME IInv, NEW f \in Frame, FlushRequest(f)
    PROVE  IInv'
<1>1. /\ f \notin registered /\ registered' = registered \cup {f} /\ f \notin mFrameQueue
      /\ UNCHANGED <<mFrameQueue, returned, cbList, visit>>
  BY DEF FlushRequest, NextRequest, handler, items, thread, IInv, ShapeInv
<1>2. \A g, s : OnTheWay(g, s)' <=> OnTheWay(g, s)
  BY <1>1 DEF OnTheWay
<1>3. \A g \in Frame : g # f => told'[g] = told[g]
  BY DEF FlushRequest, IInv, ShapeInv
<1>4. told'[f] = [told[f] EXCEPT !.errors = {"request"},
                                 !.images = [s \in Image |-> IF s \in Wanted(f) THEN 1 ELSE 0]]
  BY DEF FlushRequest, IInv, ShapeInv, Wanted
<1>5. /\ IsTold(told'[f])
      /\ told'[f].images = [s \in Image |-> IF s \in Wanted(f) THEN 1 ELSE 0]
  <2>1. IsTold(told[f])
    BY DEF IInv, ShapeInv
  <2>2. QED
    BY <1>4, <2>1 DEF IsTold
<1>6. told' = [g \in Frame |-> told'[g]]
  BY DEF FlushRequest, IInv, ShapeInv
<1>7. ShapeInv'
  BY <1>1, <1>3, <1>5, <1>6 DEF IInv, ShapeInv
<1>8. \A i \in DOMAIN cbList : cbList[i].frame # f /\ cbList[i].frame \in Frame
  BY <1>1 DEF IInv, ShapeInv
<1>9. CallbackInv'
  BY <1>1, <1>3, <1>8 DEF IInv, CallbackInv
<1>10. \A g \in Frame : Wanted(g) \subseteq Image
  BY AppAssumption DEF Wanted
<1>11. ReturnInv'
  <2>1. ReturnInv /\ mFrameQueue \subseteq Frame
    BY DEF IInv, ShapeInv
  <2>2. \A g \in Frame : \A s \in Image :
            told'[g].images[s] = 1 => s \in Wanted(g) /\ g \in registered'
    BY <1>1, <1>3, <1>5, <2>1 DEF ReturnInv
  <2>3. \A g \in mFrameQueue' : \A s \in Image :
            s \in returned'[g] <=> (told'[g].images[s] = 1 \/ OnTheWay(g, s)')
    BY <1>1, <1>2, <1>3, <2>1 DEF ReturnInv
  <2>4. \A g \in registered' \ mFrameQueue' : \A s \in Wanted(g) :
            told'[g].images[s] = 1 \/ OnTheWay(g, s)'
    <3> SUFFICES ASSUME NEW g \in registered' \ mFrameQueue', NEW s \in Wanted(g)
                 PROVE  told'[g].images[s] = 1 \/ OnTheWay(g, s)'
      OBVIOUS
    <3>1. CASE g = f
      BY <1>5, <1>10, <3>1
    <3>2. CASE g # f
      <4>1. g \in registered \ mFrameQueue /\ g \in Frame
        BY <1>1, <3>2 DEF IInv, ShapeInv
      <4>2. QED
        BY <1>2, <1>3, <2>1, <3>2, <4>1 DEF ReturnInv
    <3>3. QED
      BY <3>1, <3>2
  <2>5. QED
    BY <1>1, <2>1, <2>2, <2>3, <2>4 DEF ReturnInv
<1>12. QED
  BY <1>7, <1>9, <1>11 DEF IInv

\* A look at a frame sends back images that have not gone back, notes them, and
\* lets the frame go when it has noted all.
LEMMA InvVisit ==
    ASSUME IInv, NEW f \in visit, NEW parcel, NEW R,
           \/ cbList' = Append(cbList, parcel)
           \/ cbList' = cbList /\ parcel.images = {},
           parcel.frame = f, parcel.images \subseteq Wanted(f) \ returned[f],
           returned' = [returned EXCEPT ![f] = @ \cup R], R \cap Image = parcel.images,
           RemoveOrKeep(f), UNCHANGED <<registered, told>>
    PROVE  IInv'
<1>0. f \in mFrameQueue /\ f \in registered /\ f \in Frame /\ mFrameQueue \subseteq Frame
  BY DEF IInv, ShapeInv
<1>1. /\ visit' \subseteq mFrameQueue' /\ mFrameQueue' \subseteq mFrameQueue
      /\ mFrameQueue \ mFrameQueue' \subseteq {f}
      /\ f \notin mFrameQueue' => Wanted(f) \subseteq returned'[f]
  BY <1>0 DEF RemoveOrKeep, IsFrameRemovable, Wanted, IInv, ShapeInv
<1>2. /\ \A g \in Frame : g # f => returned'[g] = returned[g]
      /\ returned'[f] = returned[f] \cup R
      /\ returned' = [g \in Frame |-> returned'[g]]
  BY <1>0 DEF IInv, ShapeInv
<1>3. PICK P : cbList \in Seq(P)
  BY DEF IInv, ShapeInv
<1>4. cbList' \in Seq(P \cup {parcel})
  <2>1. cbList \in Seq(P \cup {parcel}) /\ parcel \in P \cup {parcel}
    BY <1>3
  <2>2. QED
    BY <2>1
<1>5. \/ /\ DOMAIN cbList' = DOMAIN cbList /\ parcel.images = {}
         /\ \A i \in DOMAIN cbList : cbList'[i] = cbList[i]
      \/ \E n : /\ n \notin DOMAIN cbList /\ DOMAIN cbList' = DOMAIN cbList \cup {n}
                /\ cbList'[n] = parcel
                /\ \A i \in DOMAIN cbList : cbList'[i] = cbList[i]
  <2>1. CASE cbList' = Append(cbList, parcel)
    <3>1. /\ Len(cbList) + 1 \notin DOMAIN cbList
          /\ DOMAIN cbList' = DOMAIN cbList \cup {Len(cbList) + 1}
          /\ cbList'[Len(cbList) + 1] = parcel
          /\ \A i \in DOMAIN cbList : cbList'[i] = cbList[i]
      BY <1>3, <1>4, <2>1
    <3>2. QED
      BY <3>1
  <2>2. CASE cbList' = cbList /\ parcel.images = {}
    BY <2>2
  <2>3. QED
    BY <2>1, <2>2
<1>6. \A i \in DOMAIN cbList' : \/ i \in DOMAIN cbList /\ cbList'[i] = cbList[i]
                                \/ cbList'[i] = parcel
  BY <1>5
<1>7. ASSUME NEW g, NEW s
      PROVE  OnTheWay(g, s)' <=> OnTheWay(g, s) \/ (g = f /\ s \in parcel.images)
  BY <1>5 DEF OnTheWay
<1>8. \A s \in parcel.images : told[f].images[s] = 0 /\ ~OnTheWay(f, s)
  <2> SUFFICES ASSUME NEW s \in parcel.images PROVE told[f].images[s] = 0 /\ ~OnTheWay(f, s)
    OBVIOUS
  <2>1. s \in Image /\ s \notin returned[f]
    OBVIOUS
  <2>2. told[f].images[s] # 1 /\ ~OnTheWay(f, s)
    BY <1>0, <2>1 DEF IInv, ReturnInv
  <2>3. told[f].images[s] \in {0, 1}
    BY <1>0, <2>1 DEF IInv, ShapeInv
  <2>4. QED
    BY <2>2, <2>3
<1>9. ShapeInv'
  <2>1. \E Q : cbList' \in Seq(Q)
    BY <1>4
  <2>2. \A i \in DOMAIN cbList' : cbList'[i].frame \in registered'
    BY <1>0, <1>6 DEF IInv, ShapeInv
  <2>3. UNCHANGED <<registered, told>> /\ ShapeInv
    BY DEF IInv
  <2>4. QED
    BY <1>0, <1>1, <1>2, <2>1, <2>2, <2>3 DEF ShapeInv
<1>10. CallbackInv'
  <2>1. CallbackInv /\ told' = told
    BY DEF IInv
  <2>2. \A i \in DOMAIN cbList' : \A s \in cbList'[i].images :
            /\ s \in Wanted(cbList'[i].frame)
            /\ told'[cbList'[i].frame].images[s] = 0
    BY <1>6, <1>8, <2>1 DEF CallbackInv
  <2>3. \A i \in DOMAIN cbList :
            cbList[i].frame = f => cbList[i].images \cap parcel.images = {}
    BY <1>8 DEF OnTheWay
  <2>4. \A i, j \in DOMAIN cbList' : i # j /\ cbList'[i].frame = cbList'[j].frame =>
            cbList'[i].images \cap cbList'[j].images = {}
    <3>1. CASE \E n : /\ n \notin DOMAIN cbList /\ DOMAIN cbList' = DOMAIN cbList \cup {n}
                      /\ cbList'[n] = parcel
                      /\ \A i \in DOMAIN cbList : cbList'[i] = cbList[i]
      <4>1. PICK n : /\ n \notin DOMAIN cbList /\ DOMAIN cbList' = DOMAIN cbList \cup {n}
                     /\ cbList'[n] = parcel
                     /\ \A i \in DOMAIN cbList : cbList'[i] = cbList[i]
        BY <3>1
      <4> SUFFICES ASSUME NEW i \in DOMAIN cbList', NEW j \in DOMAIN cbList', i # j,
                          cbList'[i].frame = cbList'[j].frame
                   PROVE  cbList'[i].images \cap cbList'[j].images = {}
        OBVIOUS
      <4>2. CASE i = n
        <5>1. j \in DOMAIN cbList /\ cbList'[j] = cbList[j] /\ cbList[j].frame = f
          BY <4>1, <4>2
        <5>2. cbList[j].images \cap parcel.images = {}
          BY <2>3, <5>1
        <5>3. QED
          BY <4>1, <4>2, <5>1, <5>2
      <4>3. CASE j = n
        <5>1. i \in DOMAIN cbList /\ cbList'[i] = cbList[i] /\ cbList[i].frame = f
          BY <4>1, <4>3
        <5>2. cbList[i].images \cap parcel.images = {}
          BY <2>3, <5>1
        <5>3. QED
          BY <4>1, <4>3, <5>1, <5>2
      <4>4. CASE i # n /\ j # n
        <5>1. /\ i \in DOMAIN cbList /\ cbList'[i] = cbList[i]
              /\ j \in DOMAIN cbList /\ cbList'[j] = cbList[j]
          BY <4>1, <4>4
        <5>2. QED
          BY <2>1, <5>1 DEF CallbackInv
      <4>5. QED
        BY <4>2, <4>3, <4>4
    <3>2. CASE /\ DOMAIN cbList' = DOMAIN cbList
               /\ \A i \in DOMAIN cbList : cbList'[i] = cbList[i]
      BY <2>1, <3>2 DEF CallbackInv
    <3>3. QED
      BY <1>5, <3>1, <3>2
  <2>5. QED
    BY <2>2, <2>4 DEF CallbackInv
<1>11. ReturnInv'
  <2>1. ReturnInv /\ UNCHANGED <<registered, told>>
    BY DEF IInv
  <2>2. \A g \in mFrameQueue' : \A s \in Image :
            s \in returned'[g] <=> (told'[g].images[s] = 1 \/ OnTheWay(g, s)')
    <3> SUFFICES ASSUME NEW g \in mFrameQueue', NEW s \in Image
                 PROVE  s \in returned'[g] <=> (told'[g].images[s] = 1 \/ OnTheWay(g, s)')
      OBVIOUS
    <3>1. g \in mFrameQueue /\ g \in Frame
      BY <1>0, <1>1
    <3>2. s \in returned[g] <=> (told[g].images[s] = 1 \/ OnTheWay(g, s))
      BY <2>1, <3>1 DEF ReturnInv
    <3>3. CASE g = f
      BY <1>2, <1>7, <2>1, <3>2, <3>3
    <3>4. CASE g # f
      BY <1>2, <1>7, <2>1, <3>1, <3>2, <3>4
    <3>5. QED
      BY <3>3, <3>4
  <2>3. \A g \in registered' \ mFrameQueue' : \A s \in Wanted(g) :
            told'[g].images[s] = 1 \/ OnTheWay(g, s)'
    <3> SUFFICES ASSUME NEW g \in registered' \ mFrameQueue', NEW s \in Wanted(g)
                 PROVE  told'[g].images[s] = 1 \/ OnTheWay(g, s)'
      OBVIOUS
    <3>1. CASE g \in mFrameQueue
      <4>1. g = f /\ s \in returned'[f]
        BY <1>1, <3>1
      <4>2. s \in Image
        BY <1>0, <4>1, AppAssumption DEF Wanted
      <4>3. s \in returned[f] => told[f].images[s] = 1 \/ OnTheWay(f, s)
        BY <1>0, <2>1, <4>2 DEF ReturnInv
      <4>4. s \in returned[f] \/ s \in parcel.images
        BY <1>2, <4>1, <4>2
      <4>5. QED
        BY <1>7, <2>1, <4>1, <4>3, <4>4
    <3>2. CASE g \notin mFrameQueue
      BY <1>7, <2>1, <3>2 DEF ReturnInv
    <3>3. QED
      BY <3>1, <3>2
  <2>4. \A g \in Frame \ registered' : returned'[g] = {}
    BY <1>0, <1>2, <2>1 DEF ReturnInv
  <2>5. \A g \in Frame : \A s \in Image :
            told'[g].images[s] = 1 => s \in Wanted(g) /\ g \in registered'
    BY <2>1 DEF ReturnInv
  <2>6. QED
    BY <2>2, <2>3, <2>4, <2>5 DEF ReturnInv
<1>12. QED
  BY <1>9, <1>10, <1>11 DEF IInv

LEMMA InvErrorFrame ==
    ASSUME IInv, NEW f \in visit, ErrorFrame(f)
    PROVE  IInv'
<1>0. f \in Frame /\ Wanted(f) \subseteq Image
  BY AppAssumption DEF IInv, ShapeInv, Wanted
<1>1. PICK B : B = (OutImages[f] \ returned[f]) \cup ImagesToReturn(f, InImages[f])
  OBVIOUS
<1>2. PICK parcel : parcel = [frame |-> f, shutter |-> FALSE, metas |-> <<>>,
                              errors |-> {"request"}, images |-> B]
  OBVIOUS
<1>3. parcel.frame = f /\ parcel.images = B
  BY <1>2
<1>4. Prepare(parcel) /\ RemoveOrKeep(f) /\ UNCHANGED <<registered, told>>
  BY <1>1, <1>2 DEF ErrorFrame, requests
<1>5. cbList' = Append(cbList, parcel) \/ (cbList' = cbList /\ parcel.images = {})
  BY <1>4 DEF Prepare
<1>6. returned' = [returned EXCEPT ![f] = @ \cup B]
  <2>1. returned' = [returned EXCEPT ![f] = @ \cup (OutImages[f] \ returned[f])
                                             \cup ImagesToReturn(f, InImages[f])]
    BY DEF ErrorFrame
  <2>2. \A X, Y, Z : (X \cup Y) \cup Z = X \cup (Y \cup Z)
    OBVIOUS
  <2>3. QED
    BY <1>1, <2>1, <2>2
<1>7. B \subseteq Wanted(f) \ returned[f]
  BY <1>1 DEF ImagesToReturn, Wanted
<1>8. B \cap Image = parcel.images
  BY <1>0, <1>3, <1>7
<1>9. QED
  BY <1>3, <1>4, <1>5, <1>6, <1>7, <1>8, InvVisit

LEMMA InvReturnFrame ==
    ASSUME IInv, NEW f \in visit, ReturnFrame(f)
    PROVE  IInv'
<1> DEFINE imageErrors == ErrorsToSend(f, {s \in OutImages[f] : state[f][s] = "ERROR"})
<1> DEFINE metaErrors == ErrorsToSend(f, Arrived(f))
<1> DEFINE result == metaErrors # {} /\ "meta" \notin errors[f]
<1>0. f \in Frame /\ Wanted(f) \subseteq Image /\ Image \cap Meta = {}
  BY AppAssumption DEF IInv, ShapeInv, Wanted
<1>1. PICK M : M = MetasToReturn(f)
  OBVIOUS
<1>2. PICK B : B = ImagesToReturn(f, OutImages[f] \cup InImages[f])
                        \cup (imageErrors \ returned[f])
  OBVIOUS
<1>3. PICK parcel : parcel =
            [frame |-> f, shutter |-> M \cap Timestamped # {} /\ f \notin timestampShutter,
             metas |-> Numbers(f, M),
             errors |-> imageErrors \cup (IF result THEN {"result"} ELSE {}),
             images |-> B]
  OBVIOUS
<1>4. parcel.frame = f /\ parcel.images = B
  BY <1>3
<1>5. Prepare(parcel) /\ RemoveOrKeep(f) /\ UNCHANGED <<registered, told>>
  BY <1>1, <1>2, <1>3 DEF ReturnFrame, requests
<1>6. cbList' = Append(cbList, parcel) \/ (cbList' = cbList /\ parcel.images = {})
  BY <1>5 DEF Prepare
<1>7. returned' = [returned EXCEPT ![f] = @ \cup (M \cup B)]
  <2>1. returned' = [returned EXCEPT ![f] = @ \cup M \cup B]
    BY <1>1, <1>2 DEF ReturnFrame
  <2>2. \A X, Y, Z : (X \cup Y) \cup Z = X \cup (Y \cup Z)
    OBVIOUS
  <2>3. QED
    BY <2>1, <2>2
<1>8. B \subseteq Wanted(f) \ returned[f]
  <2>1. imageErrors \subseteq OutImages[f]
    BY DEF ErrorsToSend
  <2>2. QED
    BY <1>2, <2>1 DEF ImagesToReturn, Wanted
<1>9. M \subseteq Meta
  BY <1>1 DEF MetasToReturn, Arrived
<1>10. (M \cup B) \cap Image = parcel.images
  BY <1>0, <1>4, <1>8, <1>9
<1>11. QED
  BY <1>4, <1>5, <1>6, <1>7, <1>8, <1>10, InvVisit

\* A callback takes what it hands back from those on the way to those told.
LEMMA InvCallback ==
    ASSUME IInv, PerformCallback
    PROVE  IInv'
<1>1. PICK P : cbList \in Seq(P)
  BY DEF IInv, ShapeInv
<1>2. PICK p : p = cbList[1]
  OBVIOUS
<1>3. cbList # <<>> /\ cbList' = Tail(cbList) /\ 1 \in DOMAIN cbList
  BY <1>1 DEF PerformCallback
<1>4. /\ DOMAIN cbList' = 1 .. Len(cbList) - 1 /\ DOMAIN cbList = 1 .. Len(cbList)
      /\ Len(cbList) \in Nat
      /\ \A i \in DOMAIN cbList' : cbList'[i] = cbList[i + 1]
      /\ cbList' \in Seq(P)
  BY <1>1, <1>3
<1>5. \A i \in DOMAIN cbList' : i + 1 \in DOMAIN cbList /\ i + 1 # 1 /\ i \in Nat
  BY <1>4
<1>6. p.frame \in registered /\ p.frame \in Frame /\ registered \subseteq Frame
  BY <1>2, <1>3 DEF IInv, ShapeInv
<1>7. Head(cbList) = p
  BY <1>1, <1>2, <1>3
<1>8. /\ \A g \in Frame : g # p.frame => told'[g] = told[g]
      /\ told' = [g \in Frame |-> told'[g]]
      /\ UNCHANGED <<registered, mFrameQueue, returned, visit>>
  BY <1>6, <1>7 DEF PerformCallback, requests, handler, items, IInv, ShapeInv
<1>9. told'[p.frame] =
        [shutter |-> told[p.frame].shutter + (IF p.shutter THEN 1 ELSE 0),
         metas   |-> told[p.frame].metas \o p.metas,
         errors  |-> told[p.frame].errors \cup p.errors,
         images  |-> [s \in Image |->
                        told[p.frame].images[s] + (IF s \in p.images THEN 1 ELSE 0)]]
  BY <1>6, <1>7 DEF PerformCallback, IInv, ShapeInv
<1>10. /\ IsTold(told'[p.frame])
       /\ told'[p.frame].images =
            [s \in Image |-> told[p.frame].images[s] + (IF s \in p.images THEN 1 ELSE 0)]
  BY <1>9 DEF IsTold
<1>11. \A s \in p.images : s \in Wanted(p.frame) /\ told[p.frame].images[s] = 0
  BY <1>2, <1>3 DEF IInv, CallbackInv
<1>12. \A g \in Frame : Wanted(g) \subseteq Image
  BY AppAssumption DEF Wanted
<1>13. told[p.frame].images \in [Image -> {0, 1}]
  BY <1>6 DEF IInv, ShapeInv
<1>14. /\ \A s \in p.images : s \in Image /\ told'[p.frame].images[s] = 1
       /\ \A s \in Image \ p.images : told'[p.frame].images[s] = told[p.frame].images[s]
  <2>1. \A s \in p.images : s \in Image
    BY <1>6, <1>11, <1>12
  <2>2. \A s \in p.images : told'[p.frame].images[s] = 1
    BY <1>10, <1>11, <2>1
  <2>3. ASSUME NEW s \in Image, s \notin p.images
        PROVE  told'[p.frame].images[s] = told[p.frame].images[s]
    <3>1. told[p.frame].images[s] \in {0, 1}
      BY <1>13
    <3>2. QED
      BY <1>10, <2>3, <3>1
  <2>4. QED
    BY <2>1, <2>2, <2>3
<1>15. \A i \in DOMAIN cbList' : cbList'[i].frame = p.frame =>
            cbList'[i].images \cap p.images = {}
  <2> SUFFICES ASSUME NEW i \in DOMAIN cbList', cbList'[i].frame = p.frame
               PROVE  cbList'[i].images \cap p.images = {}
    OBVIOUS
  <2>1. i + 1 \in DOMAIN cbList /\ i + 1 # 1 /\ cbList'[i] = cbList[i + 1]
    BY <1>4, <1>5
  <2>2. CallbackInv
    BY DEF IInv
  <2>3. QED
    BY <1>2, <1>3, <2>1, <2>2 DEF CallbackInv
<1>16. ASSUME NEW g, NEW s
       PROVE  OnTheWay(g, s) <=> OnTheWay(g, s)' \/ (g = p.frame /\ s \in p.images)
  <2>1. ASSUME OnTheWay(g, s)
        PROVE  OnTheWay(g, s)' \/ (g = p.frame /\ s \in p.images)
    <3>1. PICK i \in DOMAIN cbList : cbList[i].frame = g /\ s \in cbList[i].images
      BY <2>1 DEF OnTheWay
    <3>2. CASE i = 1
      BY <1>2, <3>1, <3>2
    <3>3. CASE i # 1
      <4>1. i - 1 \in DOMAIN cbList' /\ (i - 1) + 1 = i
        BY <1>4, <3>3
      <4>2. cbList'[i - 1] = cbList[i]
        BY <1>4, <4>1
      <4>3. QED
        BY <3>1, <4>1, <4>2 DEF OnTheWay
    <3>4. QED
      BY <3>2, <3>3
  <2>2. ASSUME OnTheWay(g, s)' PROVE OnTheWay(g, s)
    BY <1>4, <1>5, <2>2 DEF OnTheWay
  <2>3. ASSUME g = p.frame, s \in p.images PROVE OnTheWay(g, s)
    BY <1>2, <1>3, <2>3 DEF OnTheWay
  <2>4. QED
    BY <2>1, <2>2, <2>3
<1>17. ShapeInv'
  <2>1. \E Q : cbList' \in Seq(Q)
    BY <1>4
  <2>2. \A i \in DOMAIN cbList' : cbList'[i].frame \in registered'
    BY <1>4, <1>5, <1>8 DEF IInv, ShapeInv
  <2>3. told'[p.frame].images \in [Image -> {0, 1}]
    <3>1. \A s \in Image : told'[p.frame].images[s] \in {0, 1}
      BY <1>13, <1>14
    <3>2. QED
      BY <1>10, <3>1
  <2>4. \A g \in Frame : IsTold(told'[g]) /\ told'[g].images \in [Image -> {0, 1}]
    BY <1>8, <1>10, <2>3 DEF IInv, ShapeInv
  <2>5. ShapeInv
    BY DEF IInv
  <2>6. QED
    BY <1>8, <2>1, <2>2, <2>4, <2>5 DEF ShapeInv
<1>18. CallbackInv'
  <2>1. CallbackInv
    BY DEF IInv
  <2>2. \A i \in DOMAIN cbList' : \A s \in cbList'[i].images :
            /\ s \in Wanted(cbList'[i].frame)
            /\ told'[cbList'[i].frame].images[s] = 0
    <3> SUFFICES ASSUME NEW i \in DOMAIN cbList', NEW s \in cbList'[i].images
                 PROVE  /\ s \in Wanted(cbList'[i].frame)
                        /\ told'[cbList'[i].frame].images[s] = 0
      OBVIOUS
    <3>1. i + 1 \in DOMAIN cbList /\ cbList'[i] = cbList[i + 1]
      BY <1>4, <1>5
    <3>2. s \in Wanted(cbList'[i].frame) /\ told[cbList'[i].frame].images[s] = 0
      BY <2>1, <3>1 DEF CallbackInv
    <3>3. cbList'[i].frame \in Frame
      BY <1>6, <3>1 DEF IInv, ShapeInv
    <3>4. CASE cbList'[i].frame # p.frame
      BY <1>8, <3>2, <3>3, <3>4
    <3>5. CASE cbList'[i].frame = p.frame
      <4>1. s \notin p.images /\ s \in Image
        BY <1>6, <1>12, <1>15, <3>2, <3>5
      <4>2. QED
        BY <1>14, <3>2, <3>5, <4>1
    <3>6. QED
      BY <3>4, <3>5
  <2>3. \A i, j \in DOMAIN cbList' : i # j /\ cbList'[i].frame = cbList'[j].frame =>
            cbList'[i].images \cap cbList'[j].images = {}
    <3> SUFFICES ASSUME NEW i \in DOMAIN cbList', NEW j \in DOMAIN cbList', i # j,
                        cbList'[i].frame = cbList'[j].frame
                 PROVE  cbList'[i].images \cap cbList'[j].images = {}
      OBVIOUS
    <3>1. /\ i + 1 \in DOMAIN cbList /\ cbList'[i] = cbList[i + 1]
          /\ j + 1 \in DOMAIN cbList /\ cbList'[j] = cbList[j + 1]
      BY <1>4, <1>5
    <3>2. i + 1 # j + 1
      BY <1>5
    <3>3. QED
      BY <2>1, <3>1, <3>2 DEF CallbackInv
  <2>4. QED
    BY <2>2, <2>3 DEF CallbackInv
<1>19. ASSUME NEW g \in Frame, NEW s \in Image
       PROVE  /\ told'[g].images[s] = 1
                    <=> told[g].images[s] = 1 \/ (g = p.frame /\ s \in p.images)
  BY <1>8, <1>14
<1>20. ReturnInv'
  <2>1. ReturnInv /\ mFrameQueue \subseteq Frame
    BY DEF IInv, ShapeInv
  <2>2. \A g \in Frame : \A s \in Image :
            told'[g].images[s] = 1 => s \in Wanted(g) /\ g \in registered'
    BY <1>6, <1>8, <1>11, <1>19, <2>1 DEF ReturnInv
  <2>3. \A g \in mFrameQueue' : \A s \in Image :
            s \in returned'[g] <=> (told'[g].images[s] = 1 \/ OnTheWay(g, s)')
    BY <1>8, <1>16, <1>19, <2>1 DEF ReturnInv
  <2>4. \A g \in registered' \ mFrameQueue' : \A s \in Wanted(g) :
            told'[g].images[s] = 1 \/ OnTheWay(g, s)'
    BY <1>6, <1>8, <1>12, <1>16, <1>19, <2>1 DEF ReturnInv
  <2>5. \A g \in Frame \ registered' : returned'[g] = {}
    BY <1>8, <2>1 DEF ReturnInv
  <2>6. QED
    BY <2>2, <2>3, <2>4, <2>5 DEF ReturnInv
<1>21. QED
  BY <1>17, <1>18, <1>20 DEF IInv

LEMMA InvNext == IInv /\ [Next]_vars => IInv'
<1> SUFFICES ASSUME IInv, [Next]_vars PROVE IInv'
  OBVIOUS
<1>1. visit \subseteq mFrameQueue
  BY DEF IInv, ShapeInv
<1>2. ASSUME NEW n \in Node, NEW f \in Frame, Release(n, f) PROVE IInv'
  BY <1>1, <1>2, InvSame DEF Release, requests, handler, items, thread
<1>3. ASSUME NEW c \in calls, UpdateResult(c) PROVE IInv'
  BY <1>1, <1>3, InvSame DEF UpdateResult, requests, handler, items, thread
<1>4. ASSUME NEW f \in Frame, RegisterRequest(f) PROVE IInv'
  BY <1>4, InvRegister
<1>5. ASSUME NEW f \in Frame, FlushRequest(f) PROVE IInv'
  BY <1>5, InvFlushRequest
<1>6. CASE BeginFlush
  BY <1>1, <1>6, InvSame DEF BeginFlush, handler, items, thread
<1>7. CASE WaitUntilDrained
  BY <1>1, <1>7, InvSame DEF WaitUntilDrained, handler, items, thread
<1>8. CASE EndFlush
  BY <1>1, <1>8, InvSame DEF EndFlush, handler, items, thread
<1>9. CASE TimeOut
  BY <1>1, <1>9, InvSame DEF TimeOut, handler, items, thread
<1>10. CASE DequeResult
  BY <1>1, <1>10, InvSame DEF DequeResult, requests, handler, items
<1>11. ASSUME NEW f \in Pending, UpdateFrame(f) PROVE IInv'
  BY <1>1, <1>11, InvSame DEF UpdateFrame, requests, thread
<1>12. ASSUME NEW f \in Pending, SkipResult(f) PROVE IInv'
  BY <1>1, <1>12, InvSame DEF SkipResult, requests, items, thread
<1>13. CASE VisitFrames
  BY <1>13, InvSame DEF VisitFrames, requests, handler, items
<1>14. ASSUME NEW f \in visit, ErrorFrame(f) PROVE IInv'
  BY <1>14, InvErrorFrame
<1>15. ASSUME NEW f \in visit, ReturnFrame(f) PROVE IInv'
  BY <1>15, InvReturnFrame
<1>16. CASE StartCallbacks
  BY <1>1, <1>16, InvSame DEF StartCallbacks, requests, handler, items
<1>17. CASE PerformCallback
  BY <1>17, InvCallback
<1>18. CASE SignalDrained
  BY <1>1, <1>18, InvSame DEF SignalDrained, handler, items
<1>19. ASSUME NEW f \in Frame, SubmitRequest(f) PROVE IInv'
  BY <1>1, <1>19, InvSame DEF SubmitRequest, requests, handler, items, thread
<1>20. CASE UNCHANGED vars
  BY <1>1, <1>20, InvSame DEF vars, requests, handler, items, thread
<1>21. QED
  BY <1>2, <1>3, <1>4, <1>5, <1>6, <1>7, <1>8, <1>9, <1>10, <1>11, <1>12, <1>13,
     <1>14, <1>15, <1>16, <1>17, <1>18, <1>19, <1>20
     DEF Next, NodeStep, DeviceStep, FlushStep, ThreadStep

\* No image of a request is handed back to the framework twice, by the frame
\* handler or by the flush, and when a request has left the handler's queue and
\* its callbacks are made (FrameHandler::update, performCallback) the images
\* handed back are exactly those it came with.
THEOREM ImagesGoBackOnce == Spec => []ImagesReturnedOnce
<1>1. IInv => ImagesReturnedOnce
  <2> SUFFICES ASSUME IInv, NEW f \in Frame, NEW s \in Image
               PROVE  /\ told[f].images[s] <= 1
                      /\ Settled(f) => (told[f].images[s] = 1
                                            <=> s \in OutImages[f] \cup InImages[f])
    BY DEF ImagesReturnedOnce
  <2>1. told[f].images[s] \in {0, 1}
    BY DEF IInv, ShapeInv
  <2>2. told[f].images[s] = 1 => s \in Wanted(f)
    BY DEF IInv, ReturnInv
  <2>3. Settled(f) => ~OnTheWay(f, s)
    BY DEF Settled, OnTheWay
  <2>4. Settled(f) /\ s \in Wanted(f) => told[f].images[s] = 1
    BY <2>3 DEF Settled, IInv, ReturnInv
  <2>5. QED
    BY <2>1, <2>2, <2>4 DEF Wanted
<1>2. QED
  BY InvInit, InvNext, <1>1, PTL DEF Spec
=============================================================================
