--------------------------- MODULE MCAppStreamMgr ---------------------------
(* Instances of AppStreamMgr for TLC. *)
EXTENDS AppStreamMgr, TLC

CONSTANTS P1, P2, Jpeg, FD, preview, jpeg, yuv, oldPipeline, newPipeline

\* A still picture, on a pipeline that is being replaced, and a preview frame on
\* the new one, which may be done first.
TwoPipelines == 1 :> oldPipeline @@ 2 :> newPipeline
StillEdge == {<<P1, P2>>, <<P2, Jpeg>>}
StillNodes == 1 :> {P1, P2, Jpeg} @@ 2 :> {P1, P2}
StillOut == 1 :> {jpeg} @@ 2 :> {preview}
StillIn == 1 :> {yuv} @@ 2 :> {}
StillUsers == preview :> {P2} @@ jpeg :> {Jpeg} @@ yuv :> {P1, P2}
                @@ 11 :> {P1} @@ 12 :> {P2} @@ 14 :> {Jpeg}
StillProducer == preview :> P2 @@ jpeg :> Jpeg @@ yuv :> P2
                @@ 11 :> P1 @@ 12 :> P2 @@ 14 :> Jpeg

\* A preview frame and a still picture on one pipeline, where faces are detected
\* next to the encoder.
OnePipeline == 1 :> newPipeline @@ 2 :> newPipeline
FaceEdge == StillEdge \cup {<<P2, FD>>}
FaceNodes == 1 :> {P1, P2} @@ 2 :> {P1, P2, Jpeg, FD}
FaceOut == 1 :> {preview} @@ 2 :> {jpeg}
FaceIn == 1 :> {} @@ 2 :> {}
FaceUsers == StillUsers @@ 13 :> {FD}
FaceProducer == StillProducer @@ 13 :> FD
=============================================================================
