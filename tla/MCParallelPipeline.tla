------------------------- MODULE MCParallelPipeline -------------------------
(***************************************************************************)
(* Small parallel pipelines for TLC. A cfg chooses the frames; Kinds says  *)
(* what they are.                                                          *)
(***************************************************************************)
EXTENDS ParallelPipeline

CONSTANTS s, e, c, i, d, f, o

Kinds == [x \in Frame |->
  CASE x = s -> "start" [] x = e -> "end" [] x = c -> "cancel"
    [] x = i -> "interruption" [] x = d -> "data" [] x = f -> "flush"]
=============================================================================
