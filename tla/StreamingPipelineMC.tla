-------------------------- MODULE StreamingPipelineMC --------------------------
(* Small instances of the streaming pipeline for TLC.                       *)
EXTENDS StreamingPipeline

CONSTANTS e1, e2, e3, e4

=============================================================================
