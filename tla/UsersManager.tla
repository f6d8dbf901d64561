---------------------------- MODULE UsersManager ----------------------------
(***************************************************************************)
(* The users of one stream buffer: UsersManager, which keeps their graph,  *)
(* status and fences, the stream buffer in front of it, which keeps the    *)
(* ERROR status of its content, and what a node does with them, from       *)
(* getting the buffer to releasing it.                                     *)
(*                                                                         *)
(* A node marks by the buffer set, which asks the users manager of the     *)
(* item, or by the buffer itself.  They are one object, but for a Hal      *)
(* image that is acquired lazily: its item has a plain users manager,      *)
(* which the buffer, once it is there, shares.                             *)
(*                                                                         *)
(* A fence is the set of the events it waits for: the work of users and    *)
(* that of the application (App).  An invalid fence waits for nothing.     *)
(* Each call runs under the mutex of the manager and is one step; what a   *)
(* node does in several calls takes several.                               *)
(***************************************************************************)
EXTENDS Integers, FiniteSets

CONSTANTS
    User,           \* the ids of the nodes of the pipeline
    Graph,          \* the edge sets requests come with
    PreReleases     \* users that release the buffer ahead of their last access

Status == {"ACQUIRE", "PRE_RELEASE", "USED", "RELEASE"}
Category == {"PRODUCER", "CONSUMER", "NONE"}
Maps == {"PRODUCER", "CONSUMER"}
App == 0    \* the application, among the events of fences
Counted == Status \ {"ACQUIRE"}     \* the statuses the maps have a bit set for

\* Reference definition: the users from which the edges lead to u.
Ancestors(edges, u) ==
    {v \in User \ {u} :
        \A S \in SUBSET User :
            u \in S /\ (\A e \in edges : e[2] \in S => e[1] \in S) => v \in S}

ASSUME UsersAssumption ==
    /\ User \subseteq Nat \ {0} /\ IsFiniteSet(User)
    /\ Graph \subseteq SUBSET (User \X User)
    /\ \A edges \in Graph : \A e \in edges : e[2] \notin Ancestors(edges, e[1]) \cup {e[1]}
    /\ PreReleases \subseteq User

VARIABLES
    mUserInit,      \* the users are set up
    edges,          \* the user graph
    mCategory,      \* mCategory[u]
    mUserStatus,    \* mUserStatus[u]
    bits,           \* bits[m][s]: the indices set in the bit set of map m, status s
    mAcquireFence,  \* mAcquireFence[u]
    mReleaseFence,  \* mReleaseFence[u]
    lazy,           \* the item of the buffer has a users manager of its own
    error,          \* the stream buffer has the status ERROR
    pc,             \* pc[u]: where node u is with the buffer
    waited,         \* waited[u]: the events u has waited for
    failed          \* the users that have said that their content is in error

manager == <<mUserInit, edges, mCategory, mUserStatus, bits, mAcquireFence,
             mReleaseFence, lazy>>
vars == <<manager, error, pc, waited, failed>>

NoBits == [m \in Maps |-> [s \in Counted |-> {}]]
NoFence == [u \in User |-> {}]

Init ==
    /\ mUserInit = FALSE
    /\ edges = {}
    /\ mCategory = [u \in User |-> "NONE"]
    /\ mUserStatus = [u \in User |-> {}]
    /\ bits = NoBits
    /\ mAcquireFence = NoFence /\ mReleaseFence = NoFence
    /\ lazy = FALSE /\ error = FALSE
    /\ pc = [u \in User |-> "idle"]
    /\ waited = NoFence
    /\ failed = {}

-----------------------------------------------------------------------------
(* The two maps of users, sorted by id, and the questions about them.      *)

Map(m) == {u \in User : mCategory[u] = m}

\* Mutant: the position from one on.
indexOfKey_FromOne(m, u) == Cardinality({v \in Map(m) : v <= u})
indexOfKey(m, u) == Cardinality({v \in Map(m) : v < u})
Valid(u) == mUserInit /\ mCategory[u] # "NONE"

HaveAll(m, statuses) ==
    Cardinality(Map(m)) = Cardinality(UNION {bits[m][s] : s \in statuses})

haveAllUsersReleased ==
    mUserInit /\ \A m \in Maps : HaveAll(m, {"RELEASE"})
haveAllUsersReleasedOrPreReleased ==
    mUserInit /\ \A m \in Maps : HaveAll(m, {"RELEASE", "PRE_RELEASE"})
haveAllProducerUsersReleased == mUserInit /\ HaveAll("PRODUCER", {"RELEASE"})

getAllUsersStatus ==
    IF haveAllUsersReleased THEN {"RELEASE"}
    ELSE IF haveAllUsersReleasedOrPreReleased THEN {"PRE_RELEASE"}
    ELSE {}

\* Depth first against the edges: u and all that is found from the users right
\* ahead of it.  What is asked of the users found, and the fence they make, does
\* not depend on their order, nor on how often one is found.
DFS[u \in User] == {u} \cup UNION {DFS[e[1]] : e \in {f \in edges : f[2] = u}}

PriorUsers(u) == DFS[u]

PriorUsersReleasedOrPreReleased(u) ==
    /\ Valid(u)
    /\ \A v \in PriorUsers(u) \ {u} :
        mCategory[v] # "NONE" => mUserStatus[v] \cap {"RELEASE", "PRE_RELEASE"} # {}

\* Mutant: the fences of the users right ahead of u, without those further ahead.
createAcquireFence_Neighbours(u) ==
    mAcquireFence[u] \cup UNION {mReleaseFence[e[1]] : e \in {f \in edges : f[2] = u}}

\* The release fences of the users ahead of u and the acquire fence of u, merged.
createAcquireFence(u) ==
    mAcquireFence[u] \cup UNION {mReleaseFence[v] : v \in PriorUsers(u) \ {u}}

-----------------------------------------------------------------------------
(* The life of the manager.                                                *)

\* The frame control makes every node of the request a user, enqueues the graph
\* and finishes the setup; an application's image has an acquire fence, which
\* each of its users gets, and is never lazy.
Setup(categories, graph, fence, ownManager) ==
    /\ ~mUserInit
    /\ ownManager => fence = {}
    /\ mUserInit' = TRUE
    /\ edges' = graph
    /\ mCategory' = categories
    /\ mUserStatus' = [u \in User |-> {}]
    /\ mAcquireFence' = [u \in User |-> IF categories[u] = "NONE" THEN {} ELSE fence]
    /\ mReleaseFence' = NoFence
    /\ lazy' = ownManager
    /\ UNCHANGED <<bits, error, pc, waited, failed>>

\* Mutant: the bit sets of the maps are not cleared.
Clear_KeepsBits == UNCHANGED bits
Clear == bits' = NoBits

\* Mutant: the status of the buffer stays from frame to frame.
clearStatus_Keeps == UNCHANGED error
clearStatus == error' = FALSE

\* The buffer goes back to its pool: the manager is reset, the status cleared.
ResetBuffer ==
    /\ haveAllUsersReleased
    /\ mUserInit' = FALSE
    /\ edges' = {}
    /\ mCategory' = [u \in User |-> "NONE"]
    /\ Clear
    /\ mUserStatus' = [u \in User |-> {}]
    /\ mAcquireFence' = NoFence /\ mReleaseFence' = NoFence
    /\ lazy' = FALSE
    /\ clearStatus
    /\ pc' = [u \in User |-> "idle"]
    /\ waited' = NoFence
    /\ failed' = {}

-----------------------------------------------------------------------------
(* The calls of a node.                                                    *)

MarkBits(u, mask) ==
    bits' = [bits EXCEPT ![mCategory[u]] = [s \in Counted |->
        IF s \in mask THEN @[s] \cup {indexOfKey(mCategory[u], u)} ELSE @[s]]]

\* Mutant: a consumer that has not used the content is blamed for it.
Unproduced_AnyUser(u, mask) ==
    LET result == mUserStatus[u] \cup mask
    IN  "RELEASE" \in result /\ "USED" \notin result
Unproduced(u, mask) ==
    LET result == mUserStatus[u] \cup mask
    IN  /\ mCategory[u] = "PRODUCER"
        /\ "RELEASE" \in result /\ "USED" \notin result

\* The users manager has only its part of the mark; the stream buffer judges the
\* content as well.
Judged(way) == way = "buffer" \/ ~lazy

markUserStatus(u, mask, way) ==
    /\ Valid(u)
    /\ mUserStatus' = [mUserStatus EXCEPT ![u] = @ \cup mask]
    /\ MarkBits(u, mask \ mUserStatus[u])
    /\ error' = (error \/ (Judged(way) /\ Unproduced(u, mask)))
    /\ UNCHANGED <<mUserInit, edges, mCategory, mAcquireFence, lazy, failed>>

Goto(u, place) == pc' = [pc EXCEPT ![u] = place]

\* getMetaBuffer and getImageBuffer.
GetBuffer(u) ==
    /\ pc[u] = "idle"
    /\ ~haveAllUsersReleased /\ PriorUsersReleasedOrPreReleased(u)
    /\ Goto(u, "got")
    /\ UNCHANGED <<manager, error, waited, failed>>

\* ensureMetaBufferAvailable_ and ensureImageBufferAvailable_ wait for the fence,
\* mark the buffer as acquired, by the set, and then look at its status.
WaitFence(u) ==
    /\ pc[u] = "got"
    /\ waited' = [waited EXCEPT ![u] = createAcquireFence(u)]
    /\ Goto(u, "waited")
    /\ UNCHANGED <<manager, error, failed>>

MarkAcquired(u) ==
    /\ pc[u] = "waited"
    /\ markUserStatus(u, {"ACQUIRE"}, "set")
    /\ Goto(u, "acquired")
    /\ UNCHANGED <<mReleaseFence, waited>>

\* Mutant: the status of the buffer is not looked at.
hasStatusError_Never == FALSE
hasStatusError == error

CheckStatus(u) ==
    /\ pc[u] = "acquired"
    /\ Goto(u, IF hasStatusError THEN "refused" ELSE "using")
    /\ UNCHANGED <<manager, error, waited, failed>>

\* A node that works on after its release sets the fence of that work first.
SetReleaseFence(u) ==
    /\ pc[u] = "using" /\ u \in PreReleases
    /\ mReleaseFence' = [mReleaseFence EXCEPT ![u] = {u}]
    /\ Goto(u, "fenced")
    /\ UNCHANGED <<mUserInit, edges, mCategory, mUserStatus, bits, mAcquireFence,
                   lazy, error, waited, failed>>

PreRelease(u) ==
    /\ pc[u] = "fenced"
    /\ markUserStatus(u, {"USED", "PRE_RELEASE"}, "set")
    /\ Goto(u, "prereleased")
    /\ UNCHANGED <<mReleaseFence, waited>>

\* A producer whose work has failed says so before it marks its release, and also
\* P1 and P2 of a buffer they have not used.
MarkWriteError(u) ==
    /\ pc[u] \in {"using", "prereleased"}
    /\ mCategory[u] = "PRODUCER"
    /\ error' = TRUE
    /\ failed' = failed \cup {u}
    /\ UNCHANGED <<manager, pc, waited>>

\* Most nodes mark by the set, BufferReceiveNode and flush(frame) by the buffer.
ReleasedBy(way) == IF way = "set" THEN "releasedBySet" ELSE "releasedByBuffer"

Release(u, way) ==
    /\ pc[u] \in {"using", "prereleased"}
    /\ markUserStatus(u, {"USED", "RELEASE"}, way)
    /\ Goto(u, ReleasedBy(way))
    /\ UNCHANGED <<mReleaseFence, waited>>

\* In flush, or for a content not touched.  By the set it takes no buffer: FDNode
\* releases what it could not get or was refused that way, DummyNode all.
ReleaseOnly(u, way) ==
    /\ pc[u] \in {"got", "using"} \cup (IF way = "set" THEN {"idle", "refused"} ELSE {})
    /\ markUserStatus(u, {"RELEASE"}, way)
    /\ Goto(u, ReleasedBy(way))
    /\ UNCHANGED <<mReleaseFence, waited>>

Next ==
    \/ \E categories \in [User -> Category], graph \in Graph, fence \in {{}, {App}},
          ownManager \in BOOLEAN : Setup(categories, graph, fence, ownManager)
    \/ ResetBuffer
    \/ \E u \in User :
        \/ GetBuffer(u) \/ WaitFence(u) \/ MarkAcquired(u) \/ CheckStatus(u)
        \/ SetReleaseFence(u) \/ PreRelease(u) \/ MarkWriteError(u)
        \/ \E way \in {"set", "buffer"} : Release(u, way) \/ ReleaseOnly(u, way)

Spec == Init /\ [][Next]_vars
-----------------------------------------------------------------------------
(* Properties.                                                             *)

\* The manager's state has its types: a bit set holds positions of users in its
\* map, users without a category have no status, and the buffer of a manager not
\* set up has no users, no fences and no ERROR (reset, MyUserMap::clear).
UsersTypeOK ==
    /\ mUserInit \in BOOLEAN /\ lazy \in BOOLEAN /\ error \in BOOLEAN
    /\ edges \in Graph \cup {{}}
    /\ mCategory \in [User -> Category]
    /\ mUserStatus \in [User -> SUBSET Status]
    /\ \A m \in Maps : DOMAIN bits[m] = Counted
    /\ \A m \in Maps, s \in Counted : bits[m][s] \subseteq 0 .. Cardinality(Map(m)) - 1
    /\ \A f \in {mAcquireFence, mReleaseFence, waited} :
        f \in [User -> SUBSET (User \cup {App})]
    /\ pc \in [User -> {"idle", "got", "waited", "acquired", "refused", "using", "fenced",
                        "prereleased", "releasedBySet", "releasedByBuffer"}]
    /\ failed \subseteq Map("PRODUCER")
    /\ \A u \in User : mCategory[u] = "NONE" => mUserStatus[u] = {} /\ mAcquireFence[u] = {}
    /\ ~mUserInit => bits = NoBits /\ mReleaseFence = NoFence /\ ~lazy /\ ~error

\* What the status of all users means in UsersManager.h: RELEASE once each user
\* has released, PRE_RELEASE once each has released or pre-released, and the
\* producers' question likewise.  The code answers with counts of bit sets that
\* are indexed by position in two maps and outlive the users they were set for.
AllUsersStatusRight ==
    LET users == {u \in User : mCategory[u] # "NONE"}
        done(us, statuses) ==
            mUserInit /\ \A u \in us : mUserStatus[u] \cap statuses # {}
    IN  /\ getAllUsersStatus = {"RELEASE"} <=> done(users, {"RELEASE"})
        /\ getAllUsersStatus # {} <=> done(users, {"RELEASE", "PRE_RELEASE"})
        /\ haveAllProducerUsersReleased <=> done(Map("PRODUCER"), {"RELEASE"})

\* A user that works on the buffer has waited for the application and for all
\* the work of the users ahead of it, at any distance, that is not over when they
\* let it have the buffer: the gate of getBuffer and the fence made after it,
\* each with its own look at the users ahead, leave no gap.
AcquireFenceCoversPriorUse ==
    \A u \in User :
      pc[u] \in {"waited", "acquired", "refused", "using", "fenced", "prereleased"} =>
        /\ mAcquireFence[u] \subseteq waited[u]
        /\ \A v \in Ancestors(edges, u) : mCategory[v] # "NONE" =>
            \/ "RELEASE" \in mUserStatus[v]
            \/ "PRE_RELEASE" \in mUserStatus[v] /\ v \in waited[u]

\* The buffer has the status ERROR exactly when one of its producers has failed and
\* said so, or has released it unused by a mark that the stream buffer has seen:
\* for a lazy image, one made by the buffer itself.  Nothing of an earlier frame,
\* of a consumer or of a producer that did its work is in it
\* (StreamBufferImp::markUserStatus, findSubjectUsersLocked, resetBuffer).
ErrorAsMarked ==
    error <=> \E u \in Map("PRODUCER") :
        \/ u \in failed
        \/ /\ "RELEASE" \in mUserStatus[u] /\ "USED" \notin mUserStatus[u]
           /\ lazy => pc[u] = "releasedByBuffer"

Working == {"using", "fenced", "prereleased"}

\* A node works only on content that each producer ahead of it has produced, or still
\* works on after its early release: the one look at the status after the wait
\* (ensureImageBufferAvailable_) keeps away all that has failed.  What gets past it
\* is a lazy image that was released unused by the set, though StreamBuffers.cpp:321
\* says that "its content must be ERROR".
ContentIsProduced ==
    \A u \in User : pc[u] \in Working =>
        \A v \in Ancestors(edges, u) \cap Map("PRODUCER") :
            \/ "PRE_RELEASE" \in mUserStatus[v]
            \/ v \notin failed /\ "USED" \in mUserStatus[v]
            \/ lazy /\ pc[v] = "releasedBySet"

\* While a node works on the content it has judged, only a producer that is not ahead
\* of it, or one ahead that still works on after its early release, can change the
\* status, its own release included: the look need not be repeated for the others.
JudgementStands ==
    [][error' # error =>
        \A u \in User : pc[u] \in Working =>
            \E v \in Map("PRODUCER") :
                /\ v \notin Ancestors(edges, u) \/ "PRE_RELEASE" \in mUserStatus[v]
                /\ mUserStatus'[v] # mUserStatus[v] \/ v \in failed' \ failed]_vars
=============================================================================
