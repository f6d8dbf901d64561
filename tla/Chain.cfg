SPECIFICATION FairSpec
CONSTANTS
    p1 = p1
    p2 = p2
    p3 = p3
    img = img
    hal = hal
    app1 = app1
    app2 = app2
    pic = pic
    Node <- MCNode
    Stream <- MCStream
    Kind <- MCKind
    In <- ChainIn
    Out <- ChainOut
    Edge <- ChainEdge
    Lazy = {img}
    Recycled = {img}
    NullMarkers = {p2, p3}
    Staged = {p1}
    Flushable = TRUE
CHECK_DEADLOCK FALSE
INVARIANTS
    NoEmptySlotUsed
PROPERTIES
    FrameEventuallyReleased
    HalBuffersEventuallyReturned
