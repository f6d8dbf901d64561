SPECIFICATION Spec
CONSTANTS
    p1 = p1
    p2 = p2
    p3 = p3
    img = img
    hal = hal
    app1 = app1
    app2 = app2
    pic = pic
    Node <- MCNode
    Stream <- MCStream
    Kind <- MCKind
    In <- ForkIn
    Out <- ForkOut
    Edge <- ForkEdge
    Lazy = {img}
    Recycled = {img}
    NullMarkers = {}
    Staged = {p1, p2}
    Flushable = TRUE
CHECK_DEADLOCK FALSE
PROPERTIES
    NothingAfterLastPartial
