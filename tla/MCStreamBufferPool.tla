------------------------- MODULE MCStreamBufferPool -------------------------
(***************************************************************************)
(* Small instances of StreamBufferPool for TLC.                            *)
(***************************************************************************)
EXTENDS StreamBufferPool

CONSTANTS c1, c2, c3

MCCaller == {c1, c2, c3}
=============================================================================
