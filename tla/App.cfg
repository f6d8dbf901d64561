SPECIFICATION FairSpec
CONSTANTS
    P1 = P1
    P2 = P2
    Jpeg = Jpeg
    FD = FD
    preview = preview
    jpeg = jpeg
    yuv = yuv
    oldPipeline = oldPipeline
    newPipeline = newPipeline
    None = None
    Frame = {1, 2}
    Node = {P1, P2, Jpeg}
    Edge <- StillEdge
    NodesOf <- StillNodes
    Pipeline <- TwoPipelines
    Image = {preview, jpeg, yuv}
    Meta = {11, 12, 14}
    OutImages <- StillOut
    InImages <- StillIn
    Users <- StillUsers
    Producer <- StillProducer
    MayFail = {jpeg, preview, 12}
    Timestamped = {11}
    AtMost = 4
INVARIANTS
    AppTypeOK
    ImagesReturnedOnce
    SettledFrameHasItsMetadata
    ErrorsAreReal
    FinalsInOrder
PROPERTIES
    EveryFrameSettles
    FlushReturns
