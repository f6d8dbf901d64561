-------------------------- MODULE UsersManager_proofs --------------------------
(***************************************************************************)
(* Proofs about the users of a stream buffer: the answers by counts of     *)
(* bits are right, the depth-first search finds the users ahead, fences    *)
(* cover all work that goes on, ERROR says what has been marked, and nodes *)
(* work on content that was produced, for any set of users and any acyclic *)
(* graphs of them.                                                         *)
(***************************************************************************)
EXTENDS UsersManager, FiniteSetTheorems, WellFoundedInduction, TLAPS

-----------------------------------------------------------------------------
(* The search.                                                             *)

\* u and the users ahead of it: the least set with u that no edge leads into.
Reach(E, u) == {u} \cup Ancestors(E, u)
Closed(E, S) == \A e \in E : e[2] \in S => e[1] \in S
Ahead(E, u) == {e[1] : e \in {f \in E : f[2] = u}}

\* Graphs whose edges lead from no user back to itself.
Acyclic(E) ==
    /\ E \subseteq User \X User
    /\ \A e \in E : e[2] \notin Reach(E, e[1])

LEMMA ReachLeast ==
    ASSUME NEW E, E \subseteq User \X User, NEW u \in User
    PROVE  /\ Reach(E, u) \subseteq User /\ u \in Reach(E, u)
           /\ Closed(E, Reach(E, u))
           /\ \A S \in SUBSET User : u \in S /\ Closed(E, S) => Reach(E, u) \subseteq S
<1>1. \A v \in User : v \in Reach(E, u) <=>
            \A S \in SUBSET User : u \in S /\ Closed(E, S) => v \in S
  BY DEF Reach, Ancestors, Closed
<1>2. Reach(E, u) \subseteq User /\ u \in Reach(E, u)
  BY DEF Reach, Ancestors
<1>3. Closed(E, Reach(E, u))
  <2> SUFFICES ASSUME NEW e \in E, e[2] \in Reach(E, u), NEW S \in SUBSET User,
                      u \in S, Closed(E, S)
               PROVE  e[1] \in S
    BY <1>1 DEF Closed
  <2>1. e[2] \in User /\ e[2] \in S
    BY <1>1
  <2>2. QED
    BY <2>1 DEF Closed
<1>4. QED
  BY <1>1, <1>2, <1>3

\* The users found from u are u and what is found from the users right ahead of it.
LEMMA ReachUnfolds ==
    ASSUME NEW E, E \subseteq User \X User, NEW u \in User
    PROVE  Reach(E, u) = {u} \cup UNION {Reach(E, p) : p \in Ahead(E, u)}
<1> DEFINE R == {u} \cup UNION {Reach(E, p) : p \in Ahead(E, u)}
<1>1. Ahead(E, u) \subseteq User
  BY DEF Ahead
<1>2. R \subseteq User /\ u \in R
  BY <1>1, ReachLeast
<1>3. Closed(E, R)
  <2> SUFFICES ASSUME NEW e \in E, e[2] \in R PROVE e[1] \in R
    BY DEF Closed
  <2>1. CASE e[2] = u
    <3>1. e[1] \in Ahead(E, u) /\ e[1] \in User
      BY <2>1 DEF Ahead
    <3>2. e[1] \in Reach(E, e[1])
      BY <3>1, ReachLeast
    <3>3. QED
      BY <3>1, <3>2
  <2>2. CASE e[2] # u
    <3>1. PICK p \in Ahead(E, u) : e[2] \in Reach(E, p)
      BY <2>2
    <3>2. Closed(E, Reach(E, p))
      BY <1>1, ReachLeast
    <3>3. e[1] \in Reach(E, p)
      BY <3>1, <3>2 DEF Closed
    <3>4. QED
      BY <3>3
  <2>3. QED
    BY <2>1, <2>2
<1>4. Reach(E, u) \subseteq R
  BY <1>2, <1>3, ReachLeast
<1>5. ASSUME NEW p \in Ahead(E, u) PROVE Reach(E, p) \subseteq Reach(E, u)
  <2>1. p \in User /\ p \in Reach(E, u)
    BY <1>1, ReachLeast DEF Ahead, Closed
  <2>2. QED
    BY <2>1, ReachLeast
<1>6. R \subseteq Reach(E, u)
  BY <1>5, ReachLeast
<1>7. QED
  BY <1>4, <1>6

\* Every set of users that is not empty has one with no other of them ahead of it.
LEMMA FirstOf ==
    ASSUME NEW E, Acyclic(E), NEW D \in SUBSET User, D # {}
    PROVE  \E u \in D : \A p \in Ahead(E, u) : p \notin D
<1> DEFINE F == {Reach(E, u) : u \in D}
<1>1. E \subseteq User \X User
  BY DEF Acyclic
<1>2. F \subseteq FiniteSubsetsOf(User) /\ F # {}
  <2>1. FiniteSubsetsOf(User) = SUBSET User
    BY UsersAssumption, FS_FiniteSubsetsOfFinite
  <2>2. QED
    BY <1>1, <2>1, ReachLeast
<1>3. PICK R \in F : \A S \in F : ~(<<S, R>> \in StrictSubsetOrdering(User))
  <2>1. IsWellFoundedOn(StrictSubsetOrdering(User), FiniteSubsetsOf(User))
    BY FS_StrictSubsetOrderingWellFounded
  <2>2. QED
    BY <1>2, <2>1, WFMin
<1>4. PICK u \in D : R = Reach(E, u)
  OBVIOUS
<1>5. ASSUME NEW p \in Ahead(E, u), p \in D PROVE FALSE
  <2>1. Reach(E, p) \subseteq Reach(E, u)
    BY <1>1, ReachUnfolds
  <2>2. u \notin Reach(E, p) /\ u \in Reach(E, u)
    <3>1. PICK e \in E : e[2] = u /\ e[1] = p
      BY DEF Ahead
    <3>2. QED
      BY <1>1, <3>1, ReachLeast DEF Acyclic
  <2>3. Reach(E, p) \subseteq User /\ Reach(E, u) \subseteq User
    BY <1>1, <1>5, ReachLeast
  <2>4. <<Reach(E, p), Reach(E, u)>> \in StrictSubsetOrdering(User)
    BY <2>1, <2>2, <2>3 DEF StrictSubsetOrdering
  <2>5. QED
    BY <1>3, <1>4, <1>5, <2>4
<1>6. QED
  BY <1>5

\* The recursive search is defined, and finds the users ahead of u at any distance.
LEMMA SearchFinds ==
    ASSUME Acyclic(edges), NEW u \in User
    PROVE  PriorUsers(u) = Reach(edges, u)
<1> DEFINE From(f, v) == {v} \cup UNION {f[e[1]] : e \in {d \in edges : d[2] = v}}
<1> DEFINE g == [v \in User |-> Reach(edges, v)]
<1>1. edges \subseteq User \X User
  BY DEF Acyclic
<1>2. \A v \in User : From(g, v) = {v} \cup UNION {g[p] : p \in Ahead(edges, v)}
  BY DEF Ahead
<1>3. \A v \in User : Ahead(edges, v) \subseteq User
  BY <1>1 DEF Ahead
<1>4. ASSUME NEW v \in User PROVE g[v] = From(g, v)
  <2>1. {g[p] : p \in Ahead(edges, v)} = {Reach(edges, p) : p \in Ahead(edges, v)}
    BY <1>3
  <2>2. g[v] = {v} \cup UNION {g[p] : p \in Ahead(edges, v)}
    BY <1>1, <2>1, ReachUnfolds
  <2>3. QED
    BY <1>2, <2>2
<1>5. g = [v \in User |-> From(g, v)]
  BY <1>4
<1>6. DFS = [v \in User |-> From(DFS, v)]
  <2>1. \E f : f = [v \in User |->
                {v} \cup UNION {f[e[1]] : e \in {d \in edges : d[2] = v}}]
    BY <1>5
  <2>2. QED
    BY <2>1 DEF DFS
<1>7. \A v \in User : DFS[v] = g[v]
  <2> DEFINE D == {v \in User : DFS[v] # g[v]}
  <2>1. SUFFICES ASSUME D # {} PROVE FALSE
    OBVIOUS
  <2>2. PICK v \in D : \A p \in Ahead(edges, v) : p \notin D
    BY <2>1, FirstOf
  <2>3. \A p \in Ahead(edges, v) : DFS[p] = g[p]
    BY <1>3, <2>2
  <2>4. {DFS[p] : p \in Ahead(edges, v)} = {g[p] : p \in Ahead(edges, v)}
    BY <2>3
  <2>5. From(DFS, v) = {v} \cup UNION {DFS[p] : p \in Ahead(edges, v)}
    BY DEF Ahead
  <2>6. QED
    BY <1>2, <1>4, <1>6, <2>2, <2>4, <2>5
<1>8. QED
  BY <1>7 DEF PriorUsers

-----------------------------------------------------------------------------
(* The invariant.                                                          *)

Places == {"idle", "got", "waited", "acquired", "refused", "using", "fenced",
           "prereleased", "releasedBySet", "releasedByBuffer"}
Over == {"releasedBySet", "releasedByBuffer"}
Behind == {"got", "waited", "acquired", "refused", "using", "fenced", "prereleased"}
Done == {"RELEASE", "PRE_RELEASE"}
With(m, s) == {v \in Map(m) : s \in mUserStatus[v]}
Indices(m, T) == {indexOfKey(m, u) : u \in T}

TypeInv ==
    /\ mUserInit \in BOOLEAN /\ lazy \in BOOLEAN /\ error \in BOOLEAN
    /\ edges \in Graph \cup {{}}
    /\ mCategory \in [User -> Category]
    /\ mUserStatus \in [User -> SUBSET Status]
    /\ mAcquireFence \in [User -> SUBSET (User \cup {App})]
    /\ mReleaseFence \in [User -> SUBSET (User \cup {App})]
    /\ waited \in [User -> SUBSET (User \cup {App})]
    /\ pc \in [User -> Places]
    /\ failed \subseteq User

\* A bit is set for each user with the status, and for nobody else.
BitsInv == bits = [m \in Maps |-> [s \in Counted |-> Indices(m, With(m, s))]]

\* Where a node is with the buffer tells what it has marked.
PlaceInv ==
    /\ \A u \in User :
        /\ pc[u] # "idle" => Valid(u)
        /\ mCategory[u] = "NONE" => mUserStatus[u] = {} /\ mAcquireFence[u] = {}
        /\ "RELEASE" \in mUserStatus[u] <=> pc[u] \in Over
        /\ "PRE_RELEASE" \in mUserStatus[u] =>
                "USED" \in mUserStatus[u] /\ u \in mReleaseFence[u]
        /\ pc[u] = "fenced" => u \in mReleaseFence[u]
        /\ pc[u] = "prereleased" => "PRE_RELEASE" \in mUserStatus[u]
    /\ failed \subseteq Map("PRODUCER")
    /\ ~mUserInit => /\ mCategory = [u \in User |-> "NONE"]
                     /\ mReleaseFence = NoFence /\ ~lazy /\ ~error

\* From the time a node has got the buffer, those ahead of it are done with it, and
\* once it has waited, it has waited for what they still do.
AheadInv ==
    \A u \in User : pc[u] \in Behind =>
        /\ pc[u] # "got" => mAcquireFence[u] \subseteq waited[u]
        /\ \A v \in Ancestors(edges, u) : mCategory[v] # "NONE" =>
            /\ mUserStatus[v] \cap Done # {}
            /\ pc[u] # "got" => "RELEASE" \in mUserStatus[v] \/ v \in waited[u]

IInv == TypeInv /\ BitsInv /\ PlaceInv /\ AheadInv /\ ErrorAsMarked /\ ContentIsProduced

-----------------------------------------------------------------------------
(* Counting by bits.                                                       *)

\* Two users of a map have two positions, all of them below the size of the map.
LEMMA IndicesDiffer ==
    ASSUME NEW m \in Maps
    PROVE  /\ \A u \in Map(m) : indexOfKey(m, u) \in 0 .. Cardinality(Map(m)) - 1
           /\ \A u, v \in Map(m) : u # v => indexOfKey(m, u) # indexOfKey(m, v)
<1> DEFINE Below(u) == {w \in Map(m) : w < u}
<1>1. IsFiniteSet(Map(m)) /\ \A u \in Map(m) : u \in Nat
  BY UsersAssumption, FS_Subset DEF Map
<1>2. \A S \in SUBSET Map(m) : IsFiniteSet(S) /\ Cardinality(S) \in Nat
  BY <1>1, FS_Subset, FS_CardinalityType
<1>3. ASSUME NEW S \in SUBSET Map(m), NEW T \in SUBSET S, S # T
      PROVE  Cardinality(T) < Cardinality(S)
  <2>1. Cardinality(T) <= Cardinality(S) /\ Cardinality(T) # Cardinality(S)
    BY <1>2, <1>3, FS_Subset
  <2>2. QED
    BY <1>2, <2>1
<1>4. ASSUME NEW u \in Map(m)
      PROVE  indexOfKey(m, u) \in 0 .. Cardinality(Map(m)) - 1
  <2>1. Below(u) \in SUBSET Map(m) /\ u \notin Below(u)
    BY <1>1
  <2>2. Cardinality(Below(u)) < Cardinality(Map(m))
    BY <1>3, <2>1
  <2>3. Cardinality(Below(u)) \in Nat /\ Cardinality(Map(m)) \in Nat
    BY <1>2, <2>1
  <2>4. QED
    BY <2>2, <2>3 DEF indexOfKey
<1>5. ASSUME NEW u \in Map(m), NEW v \in Map(m), u < v
      PROVE  indexOfKey(m, u) # indexOfKey(m, v)
  <2>1. Below(v) \in SUBSET Map(m) /\ Below(u) \in SUBSET Below(v)
    BY <1>1, <1>5
  <2>2. u \in Below(v) /\ u \notin Below(u)
    BY <1>1, <1>5
  <2>3. Cardinality(Below(u)) < Cardinality(Below(v))
    BY <1>3, <2>1, <2>2
  <2>4. Cardinality(Below(u)) \in Nat /\ Cardinality(Below(v)) \in Nat
    BY <1>2, <2>1
  <2>5. QED
    BY <2>3, <2>4 DEF indexOfKey
<1>6. \A u, v \in Map(m) : u # v => u < v \/ v < u
  BY <1>1
<1>7. QED
  BY <1>4, <1>5, <1>6

\* As many positions as users.
LEMMA IndicesCount ==
    ASSUME NEW m \in Maps, NEW T \in SUBSET Map(m)
    PROVE  Cardinality(Indices(m, T)) = Cardinality(T) /\ IsFiniteSet(T)
<1> DEFINE f == [u \in T |-> indexOfKey(m, u)]
<1>1. IsFiniteSet(T)
  BY UsersAssumption, FS_Subset DEF Map
<1>2. f \in Bijection(T, Indices(m, T))
  <2>1. f \in [T -> Indices(m, T)]
    BY DEF Indices
  <2>2. \A u, v \in T : f[u] = f[v] => u = v
    BY IndicesDiffer
  <2>3. \A i \in Indices(m, T) : \E u \in T : f[u] = i
    BY DEF Indices
  <2>4. f \in Injection(T, Indices(m, T))
    BY <2>1, <2>2 DEF Injection, IsInjective
  <2>5. f \in Surjection(T, Indices(m, T))
    BY <2>1, <2>3 DEF Surjection
  <2>6. QED
    BY <2>4, <2>5 DEF Bijection
<1>3. QED
  BY <1>1, <1>2, FS_Bijection DEF ExistsBijection

\* The counts of bits say whether all users of a map have one of the statuses.
LEMMA HaveAllRight ==
    ASSUME BitsInv, NEW m \in Maps, NEW statuses \in SUBSET Counted
    PROVE  HaveAll(m, statuses) <=> \A u \in Map(m) : mUserStatus[u] \cap statuses # {}
<1> DEFINE T == {v \in Map(m) : mUserStatus[v] \cap statuses # {}}
<1>1. UNION {bits[m][s] : s \in statuses} = Indices(m, T)
  <2>1. \A s \in statuses : bits[m][s] = Indices(m, With(m, s))
    BY DEF BitsInv
  <2>2. {bits[m][s] : s \in statuses} = {Indices(m, With(m, s)) : s \in statuses}
    BY <2>1
  <2>3. UNION {Indices(m, With(m, s)) : s \in statuses} = Indices(m, T)
    BY DEF Indices, With
  <2>4. QED
    BY <2>2, <2>3
<1>2. Cardinality(Indices(m, T)) = Cardinality(T) /\ IsFiniteSet(Map(m))
  BY IndicesCount
<1>3. Cardinality(Map(m)) = Cardinality(T) <=> T = Map(m)
  BY <1>2, FS_Subset
<1>4. QED
  BY <1>1, <1>2, <1>3 DEF HaveAll

LEMMA AllReleasedRight ==
    ASSUME TypeInv, BitsInv
    PROVE  haveAllUsersReleased <=>
              mUserInit /\ \A u \in User :
                    mCategory[u] # "NONE" => "RELEASE" \in mUserStatus[u]
<1>1. \A m \in Maps : HaveAll(m, {"RELEASE"}) <=>
            \A u \in Map(m) : "RELEASE" \in mUserStatus[u]
  BY HaveAllRight DEF Counted, Status
<1>2. \A u \in User : mCategory[u] # "NONE" <=> \E m \in Maps : u \in Map(m)
  BY DEF TypeInv, Category, Maps, Map
<1>3. \A m \in Maps : Map(m) \subseteq User
  BY DEF Map
<1>4. QED
  BY <1>1, <1>2, <1>3 DEF haveAllUsersReleased

\* AllUsersStatusRight
LEMMA StatusRight == TypeInv /\ BitsInv => AllUsersStatusRight
<1> SUFFICES ASSUME TypeInv, BitsInv PROVE AllUsersStatusRight
  OBVIOUS
<1> DEFINE users == {u \in User : mCategory[u] # "NONE"}
<1> DEFINE done(us, statuses) == mUserInit /\ \A u \in us : mUserStatus[u] \cap statuses # {}
<1>1. \A u \in User : mCategory[u] # "NONE" <=> \E m \in Maps : u \in Map(m)
  BY DEF TypeInv, Category, Maps, Map
<1>2. \A m \in Maps : Map(m) \subseteq User
  BY DEF Map
<1>3. haveAllUsersReleased <=> done(users, {"RELEASE"})
  BY AllReleasedRight
<1>4. haveAllUsersReleasedOrPreReleased <=> done(users, Done)
  <2>1. Done \in SUBSET Counted
    BY DEF Done, Counted, Status
  <2>2. \A m \in Maps : HaveAll(m, Done) <=> \A u \in Map(m) : mUserStatus[u] \cap Done # {}
    BY <2>1, HaveAllRight
  <2>3. QED
    BY <1>1, <1>2, <2>2 DEF haveAllUsersReleasedOrPreReleased, Done
<1>5. haveAllProducerUsersReleased <=> done(Map("PRODUCER"), {"RELEASE"})
  <2>1. HaveAll("PRODUCER", {"RELEASE"}) <=>
            \A u \in Map("PRODUCER") : mUserStatus[u] \cap {"RELEASE"} # {}
    BY HaveAllRight DEF Maps, Counted, Status
  <2>2. QED
    BY <2>1 DEF haveAllProducerUsersReleased
<1>6. done(users, {"RELEASE"}) => done(users, Done)
  BY DEF Done
<1>7. /\ getAllUsersStatus = {"RELEASE"} <=> done(users, {"RELEASE"})
      /\ getAllUsersStatus # {} <=> done(users, Done)
  BY <1>3, <1>4, <1>6 DEF getAllUsersStatus
<1>8. QED
  BY <1>5, <1>7 DEF AllUsersStatusRight, Done

-----------------------------------------------------------------------------
(* The steps.                                                              *)

LEMMA GraphsAcyclic == TypeInv => Acyclic(edges)
  BY UsersAssumption DEF TypeInv, Acyclic, Reach

\* The manager of a buffer nobody has marked.
LEMMA NothingMarked ==
    ASSUME \A u \in User : mUserStatus[u] = {}, bits = NoBits
    PROVE  BitsInv
<1>1. \A m \in Maps : \A s \in Counted : With(m, s) = {}
  BY DEF With, Map
<1>2. \A m \in Maps : \A s \in Counted : Indices(m, With(m, s)) = {}
  BY <1>1 DEF Indices
<1>3. QED
  BY <1>2 DEF BitsInv, NoBits

\* The variables of a manager that is not set up have their types.
LEMMA NewTypes ==
    /\ NoFence \in [User -> SUBSET (User \cup {App})]
    /\ [u \in User |-> "NONE"] \in [User -> Category]
    /\ [u \in User |-> {}] \in [User -> SUBSET Status]
    /\ [u \in User |-> "idle"] \in [User -> Places]
  BY DEF NoFence, Category, Places

LEMMA InvInit == Init => IInv
<1> SUFFICES ASSUME Init PROVE IInv
  OBVIOUS
<1>1. TypeInv
  <2>1. edges \in Graph \cup {{}} /\ mUserInit \in BOOLEAN /\ error \in BOOLEAN
    BY DEF Init
  <2>2. mCategory \in [User -> Category]
    BY NewTypes DEF Init
  <2>3. mUserStatus \in [User -> SUBSET Status]
    BY NewTypes DEF Init
  <2>4. /\ mAcquireFence \in [User -> SUBSET (User \cup {App})]
        /\ mReleaseFence \in [User -> SUBSET (User \cup {App})]
        /\ waited \in [User -> SUBSET (User \cup {App})]
        /\ pc \in [User -> Places]
    BY NewTypes DEF Init
  <2>5. lazy \in BOOLEAN /\ failed \subseteq User
    BY DEF Init
  <2>6. QED
    BY <2>1, <2>2, <2>3, <2>4, <2>5 DEF TypeInv
<1>2. BitsInv
  BY NothingMarked DEF Init
<1>3. PlaceInv /\ AheadInv /\ ErrorAsMarked /\ ContentIsProduced
  BY DEF Init, PlaceInv, AheadInv, ErrorAsMarked, ContentIsProduced, NoFence, Map,
         Over, Behind, Working
<1>4. QED
  BY <1>1, <1>2, <1>3 DEF IInv

\* While the manager is not set up every node is away from the buffer.
LEMMA NobodyThere == TypeInv /\ PlaceInv /\ ~mUserInit => \A u \in User : pc[u] = "idle"
  BY DEF PlaceInv, Valid

LEMMA InvSetup ==
    ASSUME IInv, NEW categories \in [User -> Category], NEW graph \in Graph,
           NEW fence \in {{}, {App}}, NEW ownManager \in BOOLEAN,
           Setup(categories, graph, fence, ownManager)
    PROVE  IInv'
<1>1. TypeInv /\ BitsInv /\ PlaceInv /\ ~mUserInit /\ ~error
  BY DEF IInv, Setup, PlaceInv
<1>2. \A u \in User : pc'[u] = "idle"
  BY <1>1, NobodyThere DEF Setup
<1>3. \A u \in User : mUserStatus[u] = {}
  BY <1>1 DEF PlaceInv
<1>4. \A u \in User : mUserStatus'[u] = {}
  BY DEF Setup
<1>5. TypeInv'
  BY <1>1 DEF Setup, TypeInv, NoFence
<1>6. BitsInv'
  <2>1. \A m \in Maps : \A s \in Counted :
            Indices(m, With(m, s)) = {} /\ Indices(m, With(m, s))' = {}
    BY <1>3, <1>4 DEF Indices, With, Map
  <2>2. bits = [m \in Maps |-> [s \in Counted |-> {}]]
    BY <1>1, <2>1 DEF BitsInv
  <2>3. QED
    BY <2>1, <2>2 DEF BitsInv, Setup
<1>7. failed = {} /\ failed' = {}
  BY <1>1 DEF Setup, PlaceInv, Map
<1>8. PlaceInv'
  BY <1>2, <1>4, <1>7 DEF Setup, PlaceInv, Over
<1>9. AheadInv' /\ ErrorAsMarked' /\ ContentIsProduced'
  BY <1>1, <1>2, <1>4, <1>7
     DEF Setup, AheadInv, ErrorAsMarked, ContentIsProduced, Map, Behind, Working
<1>10. QED
  BY <1>5, <1>6, <1>7, <1>8, <1>9 DEF IInv

LEMMA InvReset ==
    ASSUME IInv, ResetBuffer
    PROVE  IInv'
<1>1. TypeInv'
  BY NewTypes DEF ResetBuffer, clearStatus, IInv, TypeInv
<1>2. BitsInv'
  <2>1. (\A u \in User : mUserStatus[u] = {})' /\ (bits = NoBits)'
    BY DEF ResetBuffer, Clear
  <2>2. \A m \in Maps : \A s \in Counted : With(m, s)' = {}
    BY <2>1 DEF With, Map
  <2>3. \A m \in Maps : \A s \in Counted : Indices(m, With(m, s))' = {}
    BY <2>2 DEF Indices
  <2>4. QED
    BY <2>1, <2>3 DEF BitsInv, NoBits
<1>3. PlaceInv' /\ AheadInv' /\ ErrorAsMarked' /\ ContentIsProduced'
  BY DEF ResetBuffer, clearStatus, PlaceInv, AheadInv, ErrorAsMarked, ContentIsProduced,
         NoFence, Map, Over, Behind, Working
<1>4. QED
  BY <1>1, <1>2, <1>3 DEF IInv

\* The bits follow the statuses through every mark.
LEMMA BitsMarked ==
    ASSUME TypeInv, BitsInv, NEW u \in User, NEW mask \in SUBSET Status,
           NEW way, markUserStatus(u, mask, way)
    PROVE  BitsInv'
<1>1. \A m \in Maps : Map(m)' = Map(m) /\ \A v : indexOfKey(m, v)' = indexOfKey(m, v)
  BY DEF markUserStatus, Map, indexOfKey
<1>2. PICK c \in Maps : mCategory[u] = c
  BY DEF markUserStatus, Valid, TypeInv, Category, Maps
<1>3. \A m \in Maps : u \in Map(m) <=> m = c
  BY <1>2 DEF Map
<1>4. /\ \A v \in User \ {u} : mUserStatus'[v] = mUserStatus[v]
      /\ mUserStatus'[u] = mUserStatus[u] \cup mask
  BY DEF markUserStatus, TypeInv
<1>5. ASSUME NEW m \in Maps, NEW s \in Counted
      PROVE  Indices(m, With(m, s))' = IF m = c /\ s \in mask \ mUserStatus[u]
                                       THEN Indices(m, With(m, s)) \cup {indexOfKey(m, u)}
                                       ELSE Indices(m, With(m, s))
  <2>1. With(m, s)' = IF m = c /\ s \in mask \ mUserStatus[u]
                      THEN With(m, s) \cup {u} ELSE With(m, s)
    BY <1>1, <1>3, <1>4 DEF With, Map
  <2>2. Indices(m, With(m, s))' = {indexOfKey(m, v) : v \in With(m, s)'}
    BY <1>1 DEF Indices
  <2>3. QED
    BY <2>1, <2>2 DEF Indices
<1>6. ASSUME NEW m \in Maps, NEW s \in Counted
      PROVE  bits'[m][s] = Indices(m, With(m, s))'
  <2>1. bits[m][s] = Indices(m, With(m, s))
    BY DEF BitsInv
  <2>2. bits'[m][s] = IF m = c /\ s \in mask \ mUserStatus[u]
                      THEN bits[m][s] \cup {indexOfKey(m, u)} ELSE bits[m][s]
    BY <1>2 DEF markUserStatus, MarkBits, BitsInv
  <2>3. QED
    BY <1>5, <2>1, <2>2
<1>7. bits' = [m \in Maps |-> [s \in Counted |-> bits'[m][s]]]
  BY <1>2 DEF markUserStatus, MarkBits, BitsInv
<1>8. QED
  BY <1>6, <1>7 DEF BitsInv

\* Steps that touch no status.
LEMMA BitsSame ==
    ASSUME BitsInv, UNCHANGED <<mCategory, mUserStatus, bits>>
    PROVE  BitsInv'
  BY DEF BitsInv, Indices, With, Map, indexOfKey

\* A node that goes on without a mark, and does not begin to work, leaves what is said
\* of the content.
LEMMA ContentSame ==
    ASSUME IInv, NEW u \in User, NEW place \in Places \ Over, pc[u] \notin Over,
           Goto(u, place), place \in Working => pc[u] \in Working,
           UNCHANGED <<edges, mCategory, mUserStatus, lazy, error, failed>>
    PROVE  ErrorAsMarked' /\ ContentIsProduced'
<1>1. pc'[u] = place /\ \A v \in User \ {u} : pc'[v] = pc[v]
  BY DEF Goto, IInv, TypeInv
<1>2. \A m : Map(m)' = Map(m) /\ Map(m) \subseteq User
  BY DEF Map
<1>3. \A v \in User : pc'[v] = pc[v] \/ (pc[v] \notin Over /\ pc'[v] \notin Over)
  BY <1>1
<1>4. \A v \in User : pc'[v] \in Working => pc[v] \in Working
  BY <1>1
<1>5. ErrorAsMarked'
  BY <1>2, <1>3 DEF IInv, ErrorAsMarked, Over
<1>6. ContentIsProduced'
  BY <1>2, <1>3, <1>4 DEF IInv, ContentIsProduced, Over
<1>7. QED
  BY <1>5, <1>6

LEMMA InvGetBuffer ==
    ASSUME IInv, NEW u \in User, GetBuffer(u)
    PROVE  IInv'
<1>1. TypeInv' /\ BitsInv'
  BY BitsSame DEF GetBuffer, Goto, IInv, TypeInv, Places, manager
<1>2. PlaceInv'
  BY DEF GetBuffer, Goto, PriorUsersReleasedOrPreReleased, IInv, TypeInv, PlaceInv, Places,
         manager, Valid, Over, Map
<1>3. AheadInv'
  <2> SUFFICES ASSUME NEW w \in User, pc'[w] \in Behind
               PROVE  /\ pc'[w] # "got" => mAcquireFence'[w] \subseteq waited'[w]
                      /\ \A v \in Ancestors(edges', w) : mCategory'[v] # "NONE" =>
                            /\ mUserStatus'[v] \cap Done # {}
                            /\ pc'[w] # "got" => \/ "RELEASE" \in mUserStatus'[v]
                                                 \/ v \in waited'[w]
    BY DEF AheadInv
  <2>1. UNCHANGED <<edges, mCategory, mUserStatus, mAcquireFence, waited>>
    BY DEF GetBuffer, manager
  <2>2. CASE w # u
    BY <2>1, <2>2 DEF GetBuffer, Goto, IInv, AheadInv, TypeInv
  <2>3. CASE w = u
    <3>1. pc'[w] = "got"
      BY <2>3 DEF GetBuffer, Goto, IInv, TypeInv
    <3>2. Ancestors(edges, u) \subseteq PriorUsers(u) \ {u}
      BY SearchFinds, GraphsAcyclic DEF IInv, Reach, Ancestors
    <3>3. QED
      BY <2>1, <2>3, <3>1, <3>2
         DEF GetBuffer, PriorUsersReleasedOrPreReleased, Done
  <2>4. QED
    BY <2>2, <2>3
<1>4. ErrorAsMarked' /\ ContentIsProduced'
  BY ContentSame DEF GetBuffer, manager, Places, Over, Working
<1>5. QED
  BY <1>1, <1>2, <1>3, <1>4 DEF IInv

LEMMA InvWaitFence ==
    ASSUME IInv, NEW u \in User, WaitFence(u)
    PROVE  IInv'
<1>1. PriorUsers(u) = Reach(edges, u) /\ Reach(edges, u) \subseteq User
  BY SearchFinds, ReachLeast, GraphsAcyclic DEF IInv, Acyclic
<1>2. /\ mAcquireFence[u] \subseteq createAcquireFence(u)
      /\ \A v \in Ancestors(edges, u) : mReleaseFence[v] \subseteq createAcquireFence(u)
  BY <1>1 DEF createAcquireFence, Reach, Ancestors
<1>3. createAcquireFence(u) \subseteq User \cup {App}
  BY <1>1 DEF createAcquireFence, IInv, TypeInv
<1>4. TypeInv' /\ BitsInv'
  BY <1>3, BitsSame DEF WaitFence, Goto, IInv, TypeInv, Places, manager
<1>5. PlaceInv'
  BY DEF WaitFence, Goto, IInv, TypeInv, PlaceInv, Places, manager, Valid, Over, Map
<1>6. AheadInv'
  <2> SUFFICES ASSUME NEW w \in User, pc'[w] \in Behind
               PROVE  /\ pc'[w] # "got" => mAcquireFence'[w] \subseteq waited'[w]
                      /\ \A v \in Ancestors(edges', w) : mCategory'[v] # "NONE" =>
                            /\ mUserStatus'[v] \cap Done # {}
                            /\ pc'[w] # "got" => \/ "RELEASE" \in mUserStatus'[v]
                                                 \/ v \in waited'[w]
    BY DEF AheadInv
  <2>1. UNCHANGED <<edges, mCategory, mUserStatus, mAcquireFence>>
    BY DEF WaitFence, manager
  <2>2. CASE w # u
    BY <2>1, <2>2 DEF WaitFence, Goto, IInv, AheadInv, TypeInv
  <2>3. CASE w = u
    <3>1. waited'[u] = createAcquireFence(u) /\ pc[u] = "got"
      BY DEF WaitFence, IInv, TypeInv
    <3>2. ASSUME NEW v \in Ancestors(edges, u), mCategory[v] # "NONE"
          PROVE  /\ mUserStatus[v] \cap Done # {}
                 /\ "RELEASE" \in mUserStatus[v] \/ v \in waited'[u]
      <4>1. mUserStatus[v] \cap Done # {} /\ v \in User
        BY <3>1, <3>2 DEF IInv, AheadInv, Ancestors, Behind
      <4>2. "PRE_RELEASE" \in mUserStatus[v] => v \in mReleaseFence[v]
        BY <4>1 DEF IInv, PlaceInv
      <4>3. QED
        BY <1>2, <3>1, <4>1, <4>2 DEF Done
    <3>3. QED
      BY <1>2, <2>1, <2>3, <3>1, <3>2
  <2>4. QED
    BY <2>2, <2>3
<1>7. ErrorAsMarked' /\ ContentIsProduced'
  BY ContentSame DEF WaitFence, manager, Places, Over, Working
<1>8. QED
  BY <1>4, <1>5, <1>6, <1>7 DEF IInv

\* The one look at the status: without ERROR, whoever ahead has released has produced
\* the content, but for a lazy image released by the set.
LEMMA InvCheckStatus ==
    ASSUME IInv, NEW u \in User, CheckStatus(u)
    PROVE  IInv'
<1>1. PICK place \in {"refused", "using"} :
            Goto(u, place) /\ (place = "using" => ~error) /\ pc[u] = "acquired"
  BY DEF CheckStatus, hasStatusError
<1>2. pc'[u] = place /\ \A v \in User \ {u} : pc'[v] = pc[v]
  BY <1>1 DEF Goto, IInv, TypeInv
<1>3. UNCHANGED <<manager, error, waited, failed>>
  BY DEF CheckStatus
<1>4. TypeInv' /\ BitsInv'
  BY <1>1, <1>3, BitsSame DEF Goto, IInv, TypeInv, Places, manager
<1>5. PlaceInv'
  <2>1. Valid(u) /\ PlaceInv
    BY <1>1 DEF IInv, PlaceInv
  <2>2. QED
    BY <1>1, <1>2, <1>3, <2>1 DEF PlaceInv, manager, Valid, Over, Map
<1>6. AheadInv'
  BY <1>1, <1>2, <1>3 DEF IInv, AheadInv, manager, Behind
<1>7. CASE place = "refused"
  <2>1. ErrorAsMarked' /\ ContentIsProduced'
    BY <1>1, <1>3, <1>7, ContentSame DEF manager, Places, Over, Working
  <2>2. QED
    BY <1>4, <1>5, <1>6, <2>1 DEF IInv
<1>8. CASE place = "using"
  <2>1. \A m : Map(m)' = Map(m) /\ Map(m) \subseteq User
    BY <1>3 DEF Map, manager
  <2>2. ErrorAsMarked'
    BY <1>1, <1>2, <1>3, <2>1 DEF IInv, ErrorAsMarked, manager
  <2>3. ASSUME NEW v \in Ancestors(edges, u) \cap Map("PRODUCER")
        PROVE  \/ "PRE_RELEASE" \in mUserStatus[v]
               \/ v \notin failed /\ "USED" \in mUserStatus[v]
               \/ lazy /\ pc[v] = "releasedBySet"
    <3>1. v \in User /\ mCategory[v] = "PRODUCER" /\ v # u
      BY DEF Map, Ancestors
    <3>2. mUserStatus[v] \cap Done # {}
      BY <1>1, <3>1 DEF IInv, AheadInv, Behind
    <3>3. "RELEASE" \in mUserStatus[v] => pc[v] \in Over
      BY <3>1 DEF IInv, PlaceInv
    <3>4. v \notin failed /\ ~(/\ "RELEASE" \in mUserStatus[v] /\ "USED" \notin mUserStatus[v]
                               /\ lazy => pc[v] = "releasedByBuffer")
      BY <1>1, <1>8 DEF IInv, ErrorAsMarked
    <3>5. QED
      BY <3>2, <3>3, <3>4 DEF Done, Over
  <2>4. ContentIsProduced'
    <3> SUFFICES ASSUME NEW w \in User, pc'[w] \in Working,
                        NEW v \in Ancestors(edges, w) \cap Map("PRODUCER")
                 PROVE  \/ "PRE_RELEASE" \in mUserStatus[v]
                        \/ v \notin failed /\ "USED" \in mUserStatus[v]
                        \/ lazy /\ pc'[v] = "releasedBySet"
      BY <1>3, <2>1 DEF ContentIsProduced, manager
    <3>1. v \in User
      BY DEF Ancestors
    <3>2. pc[v] = "releasedBySet" => pc'[v] = "releasedBySet"
      BY <1>1, <1>2, <3>1
    <3>3. CASE w = u
      BY <2>3, <3>2, <3>3
    <3>4. CASE w # u
      BY <1>2, <3>2, <3>4 DEF IInv, ContentIsProduced
    <3>5. QED
      BY <3>3, <3>4
  <2>5. QED
    BY <1>4, <1>5, <1>6, <2>2, <2>4 DEF IInv
<1>9. QED
  BY <1>7, <1>8

LEMMA InvSetReleaseFence ==
    ASSUME IInv, NEW u \in User, SetReleaseFence(u)
    PROVE  IInv'
<1>1. TypeInv' /\ BitsInv'
  BY BitsSame DEF SetReleaseFence, Goto, IInv, TypeInv, Places
<1>2. mReleaseFence'[u] = {u} /\ \A v \in User \ {u} : mReleaseFence'[v] = mReleaseFence[v]
  BY DEF SetReleaseFence, IInv, TypeInv
<1>3. pc'[u] = "fenced" /\ pc[u] = "using" /\ \A v \in User \ {u} : pc'[v] = pc[v]
  BY DEF SetReleaseFence, Goto, IInv, TypeInv
<1>4. UNCHANGED <<mUserInit, edges, mCategory, mUserStatus, mAcquireFence, lazy, waited,
                  error, failed>>
  BY DEF SetReleaseFence
<1>5. PlaceInv'
  <2>1. PlaceInv /\ mUserInit
    BY <1>3 DEF IInv, PlaceInv, Valid
  <2>2. QED
    BY <1>2, <1>3, <1>4, <2>1 DEF PlaceInv, Valid, Over, Map
<1>6. AheadInv'
  BY <1>3, <1>4 DEF IInv, AheadInv, Behind
<1>7. ErrorAsMarked' /\ ContentIsProduced'
  BY <1>3, ContentSame DEF SetReleaseFence, Places, Over, Working
<1>8. QED
  BY <1>1, <1>5, <1>6, <1>7 DEF IInv

\* A producer that fails is at work: nobody behind it is, unless it has released early.
LEMMA InvWriteError ==
    ASSUME IInv, NEW u \in User, MarkWriteError(u)
    PROVE  IInv'
<1>1. UNCHANGED <<mUserInit, edges, mCategory, mUserStatus, bits, mAcquireFence,
                  mReleaseFence, lazy, pc, waited>>
  BY DEF MarkWriteError, manager
<1>2. u \in Map("PRODUCER") /\ pc[u] \in {"using", "prereleased"}
      /\ error' = TRUE /\ failed' = failed \cup {u}
  BY DEF MarkWriteError, Map
<1>3. \A m : Map(m)' = Map(m) /\ Map(m) \subseteq User
  BY <1>1 DEF Map
<1>4. TypeInv' /\ BitsInv'
  BY <1>1, <1>2, BitsSame DEF IInv, TypeInv
<1>5. PlaceInv'
  <2>1. Valid(u) /\ PlaceInv
    BY <1>2 DEF IInv, PlaceInv
  <2>2. mUserInit
    BY <2>1 DEF Valid
  <2>3. QED
    BY <1>1, <1>2, <1>3, <2>1, <2>2 DEF PlaceInv, Valid
<1>6. AheadInv'
  BY <1>1 DEF IInv, AheadInv
<1>7. ErrorAsMarked'
  BY <1>2, <1>3 DEF ErrorAsMarked
<1>8. ContentIsProduced'
  <2> SUFFICES ASSUME NEW w \in User, pc[w] \in Working,
                      NEW v \in Ancestors(edges, w) \cap Map("PRODUCER"),
                      "PRE_RELEASE" \notin mUserStatus[v]
               PROVE  \/ v \notin failed' /\ "USED" \in mUserStatus[v]
                      \/ lazy /\ pc[v] = "releasedBySet"
    BY <1>1, <1>3 DEF ContentIsProduced
  <2>1. v \in User /\ mCategory[v] = "PRODUCER"
    BY DEF Map
  <2>2. "RELEASE" \in mUserStatus[v]
    BY <2>1 DEF IInv, AheadInv, Behind, Working, Done
  <2>3. v # u
    BY <1>2, <2>1, <2>2 DEF IInv, PlaceInv, Over
  <2>4. QED
    BY <1>2, <2>3 DEF IInv, ContentIsProduced
<1>9. QED
  BY <1>4, <1>5, <1>6, <1>7, <1>8 DEF IInv

\* A mark leaves what others rely on, if it is one of those the nodes make.
LEMMA InvMark ==
    ASSUME IInv, NEW u \in User, NEW mask \in SUBSET Status,
           NEW place \in Over \cup {"acquired", "prereleased"}, NEW way \in {"set", "buffer"},
           markUserStatus(u, mask, way), Goto(u, place), UNCHANGED <<mReleaseFence, waited>>,
           pc[u] \notin Over,
           "RELEASE" \in mask <=> place \in Over,
           place \in Over => place = ReleasedBy(way),
           "PRE_RELEASE" \in mask => "USED" \in mask /\ pc[u] = "fenced",
           place = "acquired" => pc[u] = "waited",
           place = "prereleased" => pc[u] = "fenced" /\ "PRE_RELEASE" \in mask
    PROVE  IInv'
<1>1. /\ mUserStatus'[u] = mUserStatus[u] \cup mask
      /\ \A v \in User \ {u} : mUserStatus'[v] = mUserStatus[v]
      /\ pc'[u] = place /\ \A v \in User \ {u} : pc'[v] = pc[v]
  BY DEF markUserStatus, Goto, IInv, TypeInv
<1>2. UNCHANGED <<mUserInit, edges, mCategory, mAcquireFence, mReleaseFence, waited, lazy, failed>>
  BY DEF markUserStatus
<1>3. Valid(u) /\ error' = (error \/ (Judged(way) /\ Unproduced(u, mask)))
  BY DEF markUserStatus
<1>4. \A m : Map(m)' = Map(m) /\ Map(m) \subseteq User
  BY <1>2 DEF Map
<1>5. TypeInv'
  <2>1. error' \in BOOLEAN
    BY <1>3 DEF IInv, TypeInv
  <2>2. place \in Places
    BY DEF Places, Over
  <2>3. QED
    BY <1>2, <2>1, <2>2 DEF markUserStatus, Goto, IInv, TypeInv
<1>6. BitsInv'
  BY BitsMarked DEF IInv
<1>7. PlaceInv'
  BY <1>1, <1>2, <1>3, <1>4 DEF IInv, PlaceInv, Valid, Over
<1>8. AheadInv'
  <2>1. \A v \in User : mUserStatus[v] \subseteq mUserStatus'[v]
    BY <1>1
  <2>2. \A w : Ancestors(edges, w) \subseteq User
    BY DEF Ancestors
  <2>3. \A w \in User : pc'[w] \in Behind =>
            pc[w] \in Behind /\ (pc'[w] # "got" => pc[w] # "got")
    BY <1>1 DEF Behind, Over
  <2>4. QED
    BY <1>2, <2>1, <2>2, <2>3 DEF IInv, AheadInv
<1>9. ErrorAsMarked'
  <2>1. "RELEASE" \notin mUserStatus[u]
    BY DEF IInv, PlaceInv
  <2>2. Judged(way) /\ Unproduced(u, mask) <=>
            /\ u \in Map("PRODUCER")
            /\ "RELEASE" \in mUserStatus'[u] /\ "USED" \notin mUserStatus'[u]
            /\ lazy => pc'[u] = "releasedByBuffer"
    BY <1>1, <2>1 DEF Unproduced, Judged, Map, ReleasedBy, Over
  <2>3. \A v \in User \ {u} : mUserStatus'[v] = mUserStatus[v] /\ pc'[v] = pc[v]
    BY <1>1
  <2>4. QED
    BY <1>2, <1>3, <1>4, <2>1, <2>2, <2>3 DEF IInv, ErrorAsMarked
<1>10. ContentIsProduced'
  <2> SUFFICES ASSUME NEW w \in User, pc'[w] \in Working,
                      NEW v \in Ancestors(edges, w) \cap Map("PRODUCER")
               PROVE  \/ "PRE_RELEASE" \in mUserStatus'[v]
                      \/ v \notin failed /\ "USED" \in mUserStatus'[v]
                      \/ lazy /\ pc'[v] = "releasedBySet"
    BY <1>2, <1>4 DEF ContentIsProduced
  <2>1. pc[w] \in Working
    BY <1>1 DEF Working, Over
  <2>2. \/ "PRE_RELEASE" \in mUserStatus[v]
        \/ v \notin failed /\ "USED" \in mUserStatus[v]
        \/ lazy /\ pc[v] = "releasedBySet"
    BY <2>1 DEF IInv, ContentIsProduced
  <2>3. v \in User
    BY <1>4
  <2>4. mUserStatus[v] \subseteq mUserStatus'[v] /\ (pc[v] = "releasedBySet" => pc'[v] = pc[v])
    BY <1>1, <2>3 DEF Over
  <2>5. QED
    BY <2>2, <2>4
<1>11. QED
  BY <1>5, <1>6, <1>7, <1>8, <1>9, <1>10 DEF IInv

LEMMA InvNext == IInv /\ [Next]_vars => IInv'
<1> SUFFICES ASSUME IInv, [Next]_vars PROVE IInv'
  OBVIOUS
<1>1. ASSUME NEW categories \in [User -> Category], NEW graph \in Graph,
             NEW fence \in {{}, {App}}, NEW ownManager \in BOOLEAN,
             Setup(categories, graph, fence, ownManager)
      PROVE  IInv'
  BY <1>1, InvSetup
<1>2. CASE ResetBuffer
  BY <1>2, InvReset
<1>3. ASSUME NEW u \in User, GetBuffer(u) PROVE IInv'
  BY <1>3, InvGetBuffer
<1>4. ASSUME NEW u \in User, WaitFence(u) PROVE IInv'
  BY <1>4, InvWaitFence
<1>5. ASSUME NEW u \in User, MarkAcquired(u) PROVE IInv'
  BY <1>5, InvMark DEF MarkAcquired, Status, Over
<1>6. ASSUME NEW u \in User, CheckStatus(u) PROVE IInv'
  BY <1>6, InvCheckStatus
<1>7. ASSUME NEW u \in User, SetReleaseFence(u) PROVE IInv'
  BY <1>7, InvSetReleaseFence
<1>8. ASSUME NEW u \in User, PreRelease(u) PROVE IInv'
  BY <1>8, InvMark DEF PreRelease, Status, Over
<1>9. ASSUME NEW u \in User, MarkWriteError(u) PROVE IInv'
  BY <1>9, InvWriteError
<1>10. ASSUME NEW u \in User, NEW way \in {"set", "buffer"}, Release(u, way) PROVE IInv'
  BY <1>10, InvMark DEF Release, ReleasedBy, Status, Over
<1>11. ASSUME NEW u \in User, NEW way \in {"set", "buffer"}, ReleaseOnly(u, way)
       PROVE  IInv'
  BY <1>11, InvMark DEF ReleaseOnly, ReleasedBy, Status, Over
<1>12. CASE UNCHANGED vars
  BY <1>12, BitsSame DEF vars, manager, IInv, TypeInv, PlaceInv, AheadInv,
                         ErrorAsMarked, ContentIsProduced, Map, Valid
<1>13. QED
  BY <1>1, <1>2, <1>3, <1>4, <1>5, <1>6, <1>7, <1>8, <1>9, <1>10, <1>11, <1>12 DEF Next

-----------------------------------------------------------------------------
(* The theorems.                                                           *)

\* The parts of the invariant hold together in every reachable state: the counts
\* need the bits, the bits the statuses, the fences the places of the nodes.
THEOREM UsersInductive == Spec => []IInv
  BY InvInit, InvNext, PTL DEF Spec

\* The manager's state has its types: a bit set holds positions of users in its map
\* (markUserStatus), and a manager that is reset has no user, fence, status or bit.
THEOREM UsersTypeCorrect == Spec => []UsersTypeOK
<1>1. IInv => UsersTypeOK
  <2> SUFFICES ASSUME IInv PROVE UsersTypeOK
    OBVIOUS
  <2>1. \A m \in Maps, s \in Counted : bits[m][s] = Indices(m, With(m, s))
    BY DEF IInv, BitsInv
  <2>2. \A m \in Maps : DOMAIN bits[m] = Counted
    BY DEF IInv, BitsInv
  <2>3. \A m \in Maps, s \in Counted : bits[m][s] \subseteq 0 .. Cardinality(Map(m)) - 1
    BY <2>1, IndicesDiffer DEF Indices, With
  <2>4. ~mUserInit => bits = NoBits /\ mReleaseFence = NoFence /\ ~lazy /\ ~error
    <3>1. ~mUserInit => \A m \in Maps, s \in Counted : Indices(m, With(m, s)) = {}
      BY DEF IInv, PlaceInv, Indices, With, Map, Maps
    <3>2. QED
      BY <3>1 DEF IInv, PlaceInv, BitsInv, NoBits
  <2>5. QED
    BY <2>2, <2>3, <2>4 DEF UsersTypeOK, IInv, TypeInv, PlaceInv, Places
<1>2. QED
  BY UsersInductive, <1>1, PTL

\* getAllUsersStatus and haveAllProducerUsersReleased, which count bits, say what the
\* statuses of the users say, for any number of users and after any number of resets.
THEOREM StatusOfAllRight == Spec => []AllUsersStatusRight
<1>1. IInv => AllUsersStatusRight
  BY StatusRight DEF IInv
<1>2. QED
  BY UsersInductive, <1>1, PTL

\* A user that works on the buffer has waited for all the work on it of users ahead,
\* at any distance in any acyclic graph, that goes on after their release
\* (getBuffer and createAcquireFence).
THEOREM FencesCover == Spec => []AcquireFenceCoversPriorUse
<1>1. IInv => AcquireFenceCoversPriorUse
  <2> SUFFICES ASSUME IInv, NEW u \in User,
                      pc[u] \in {"waited", "acquired", "refused", "using", "fenced",
                                 "prereleased"}
               PROVE  /\ mAcquireFence[u] \subseteq waited[u]
                      /\ \A v \in Ancestors(edges, u) : mCategory[v] # "NONE" =>
                            \/ "RELEASE" \in mUserStatus[v]
                            \/ "PRE_RELEASE" \in mUserStatus[v] /\ v \in waited[u]
    BY DEF AcquireFenceCoversPriorUse
  <2>1. QED
    BY DEF IInv, AheadInv, Done, Behind
<1>2. QED
  BY UsersInductive, <1>1, PTL

\* The buffer has the status ERROR exactly when one of its producers has failed and
\* said so, or has released it unused by a mark that StreamBufferImp::markUserStatus has
\* seen, which is any mark unless the image is lazy.
THEOREM ErrorMeansMarked == Spec => []ErrorAsMarked
<1>1. IInv => ErrorAsMarked
  BY DEF IInv
<1>2. QED
  BY UsersInductive, <1>1, PTL

\* A node works only on content that was produced by each producer ahead of it that does
\* not work on after its early release, unless a lazy image was released unused by the
\* buffer set (ensureImageBufferAvailable_).
THEOREM WorkIsOnProducedContent == Spec => []ContentIsProduced
<1>1. IInv => ContentIsProduced
  BY DEF IInv
<1>2. QED
  BY UsersInductive, <1>1, PTL

\* Once u works on the content, only a producer that is not ahead of it, or has released
\* early, can change the status it has looked at.
LEMMA JudgementStep ==
    ASSUME IInv, [Next]_vars, error' # error, NEW u \in User, pc[u] \in Working
    PROVE  \E v \in Map("PRODUCER") :
                /\ v \notin Ancestors(edges, u) \/ "PRE_RELEASE" \in mUserStatus[v]
                /\ mUserStatus'[v] # mUserStatus[v] \/ v \in failed' \ failed
<1>1. mUserInit /\ mCategory[u] # "NONE" /\ "RELEASE" \notin mUserStatus[u]
  BY DEF IInv, PlaceInv, Valid, Working, Over
<1>2. ~ResetBuffer
  BY <1>1, AllReleasedRight DEF ResetBuffer, IInv
<1>3. ASSUME NEW v \in Map("PRODUCER"), pc[v] \notin Over
      PROVE  v \notin Ancestors(edges, u) \/ "PRE_RELEASE" \in mUserStatus[v]
  <2>1. v \in User /\ mCategory[v] = "PRODUCER"
    BY DEF Map
  <2>2. "RELEASE" \notin mUserStatus[v]
    BY <1>3, <2>1 DEF IInv, PlaceInv
  <2>3. QED
    BY <2>1, <2>2 DEF IInv, AheadInv, Behind, Working, Done
<1>4. ASSUME NEW v \in User, NEW mask \in SUBSET Status, NEW way, markUserStatus(v, mask, way),
             pc[v] \notin Over
      PROVE  /\ v \in Map("PRODUCER") /\ mUserStatus'[v] # mUserStatus[v]
             /\ v \notin Ancestors(edges, u) \/ "PRE_RELEASE" \in mUserStatus[v]
  <2>1. Unproduced(v, mask)
    BY <1>4 DEF markUserStatus, IInv, TypeInv
  <2>2. "RELEASE" \notin mUserStatus[v] /\ mUserStatus'[v] = mUserStatus[v] \cup mask
    BY <1>4 DEF markUserStatus, IInv, TypeInv, PlaceInv
  <2>3. v \in Map("PRODUCER")
    BY <2>1 DEF Unproduced, Map
  <2>4. QED
    BY <1>3, <1>4, <2>1, <2>2, <2>3 DEF Unproduced
<1>5. ASSUME NEW v \in User, NEW way,
             MarkAcquired(v) \/ PreRelease(v) \/ Release(v, way) \/ ReleaseOnly(v, way)
      PROVE  /\ v \in Map("PRODUCER") /\ mUserStatus'[v] # mUserStatus[v]
             /\ v \notin Ancestors(edges, u) \/ "PRE_RELEASE" \in mUserStatus[v]
  <2>1. pc[v] \notin Over
    BY <1>5 DEF MarkAcquired, PreRelease, Release, ReleaseOnly, Over
  <2>2. \E mask \in SUBSET Status : \E w : markUserStatus(v, mask, w)
    BY <1>5 DEF MarkAcquired, PreRelease, Release, ReleaseOnly, Status
  <2>3. QED
    BY <1>4, <2>1, <2>2
<1>6. ASSUME NEW v \in User, MarkWriteError(v)
      PROVE  /\ v \in Map("PRODUCER") /\ v \in failed' \ failed
             /\ v \notin Ancestors(edges, u) \/ "PRE_RELEASE" \in mUserStatus[v]
  <2>1. v \in Map("PRODUCER") /\ pc[v] \notin Over /\ error' = TRUE /\ v \in failed'
    BY <1>6 DEF MarkWriteError, Map, Over
  <2>2. v \notin failed
    BY <2>1 DEF IInv, ErrorAsMarked, TypeInv
  <2>3. QED
    BY <1>3, <2>1, <2>2
<1>7. \E v \in User :
            \/ MarkWriteError(v)
            \/ \E way : MarkAcquired(v) \/ PreRelease(v) \/ Release(v, way) \/ ReleaseOnly(v, way)
  BY <1>1, <1>2 DEF Next, vars, Setup, GetBuffer, WaitFence, CheckStatus, SetReleaseFence
<1>8. QED
  BY <1>5, <1>6, <1>7

\* While a node works on the content of the buffer, the status it judged it by changes
\* only by a producer that is not ahead of it, or has released early and works on.
THEOREM JudgementKept == Spec => JudgementStands
<1>1. IInv /\ [Next]_vars =>
        [error' # error =>
            \A u \in User : pc[u] \in Working =>
                \E v \in Map("PRODUCER") :
                    /\ v \notin Ancestors(edges, u) \/ "PRE_RELEASE" \in mUserStatus[v]
                    /\ mUserStatus'[v] # mUserStatus[v] \/ v \in failed' \ failed]_vars
  BY JudgementStep
<1>2. QED
  BY UsersInductive, <1>1, PTL DEF Spec, JudgementStands
=============================================================================
