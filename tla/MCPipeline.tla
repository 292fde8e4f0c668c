----------------------------- MODULE MCPipeline -----------------------------
(* Files longer and shorter than the queue, one that fills it exactly, one   *)
(* of a single chunk and an empty one.                                       *)
EXTENDS Pipeline

MCFileChunks == <<6, 0, 1, 3, 5>>
=============================================================================
