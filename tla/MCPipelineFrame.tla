--------------------------- MODULE MCPipelineFrame ---------------------------
(***************************************************************************)
(* Small instances of PipelineFrame for TLC.                               *)
(***************************************************************************)
EXTENDS PipelineFrame

CONSTANTS
    p1, p2, p3,
    img,                    \* an image buffer of a pool
    hal,                    \* Hal metadata
    app1, app2,             \* result metadata
    pic                     \* the application's image

MCNode == {p1, p2, p3}
MCStream == {img, hal, app1, app2, pic}
MCKind == [s \in MCStream |->
    CASE s = img -> "HalImage" [] s = hal -> "HalMeta"
      [] s = pic -> "AppImage" [] OTHER -> "AppMeta"]

\* Two nodes read the image the first one writes and produce result metadata:
\* P2 -> Jpeg, P2 -> FD.
ForkEdge == {<<p1, p2>>, <<p1, p3>>}
ForkOut == [n \in MCNode |->
    CASE n = p1 -> {img, hal} [] n = p2 -> {app1, pic} [] n = p3 -> {app2}]
ForkIn == [n \in MCNode |->
    CASE n = p1 -> {} [] n = p2 -> {img, hal} [] n = p3 -> {img}]

\* One node after the other, each reading what the one before wrote:
\* P1 -> P2 -> FD.
ChainEdge == {<<p1, p2>>, <<p2, p3>>}
ChainOut == [n \in MCNode |->
    CASE n = p1 -> {img, app1} [] n = p2 -> {hal, pic} [] n = p3 -> {app2}]
ChainIn == [n \in MCNode |->
    CASE n = p1 -> {} [] n = p2 -> {img} [] n = p3 -> {hal, pic}]
=============================================================================
