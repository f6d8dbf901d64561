SPECIFICATION Spec
CONSTANTS
    P1 = P1
    P2 = P2
    Jpeg = Jpeg
    FD = FD
    preview = preview
    jpeg = jpeg
    yuv = yuv
    oldPipeline = oldPipeline
    newPipeline = newPipeline
    None = None
    Frame = {1, 2}
    Node = {P1, P2, Jpeg, FD}
    Edge <- FaceEdge
    NodesOf <- FaceNodes
    Pipeline <- OnePipeline
    Image = {preview, jpeg, yuv}
    Meta = {11, 12, 13, 14}
    OutImages <- FaceOut
    InImages <- FaceIn
    Users <- FaceUsers
    Producer <- FaceProducer
    MayFail = {}
    Timestamped = {11}
    AtMost = 4
INVARIANT SettledFrameHasItsMetadata
