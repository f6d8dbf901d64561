-------------------------- MODULE MCPipelineContext --------------------------
(* Instances of PipelineContext for TLC. *)
EXTENDS PipelineContext, TLC

CONSTANTS P1, RAW16, Jpeg, user, app

\* One node ahead of two others; each frame leaves one of these out.
ForkEdge == {<<P1, RAW16>>, <<P1, Jpeg>>}
ForkOrder == <<P1, RAW16, Jpeg>>
ForkFrames == 1 :> {P1, RAW16} @@ 2 :> {P1, Jpeg}

\* One thread queues, and waits for and flushes a node; another flushes the
\* context and waits for it.
TwoCallers == user :> {"queue", "node"} @@ app :> {"flush", "wait"}
=============================================================================
