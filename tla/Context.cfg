SPECIFICATION FairSpec
CONSTANTS
    P1 = P1
    RAW16 = RAW16
    Jpeg = Jpeg
    user = user
    app = app
    None = None
    Node = {P1, RAW16, Jpeg}
    Root = P1
    Edge <- ForkEdge
    Toposort <- ForkOrder
    Frame = {1, 2}
    NodesOf <- ForkFrames
    Caller = {user, app}
    May <- TwoCallers
    NodeTargets = {Jpeg}
    OutNode = {P1, RAW16, Jpeg}
    Staged = {Jpeg}
    Unawaited = {P1}
    Signalling = {RAW16}
    Dropping = {RAW16}
INVARIANTS
    ContextTypeOK
    EachFrameOncePerNode
    NodeListsCoverFrames
    QuietAfterBeginFlush
PROPERTIES
    ImplementsDrainContract
    EveryCallReturns
