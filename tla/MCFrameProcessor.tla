-------------------------- MODULE MCFrameProcessor --------------------------
(***************************************************************************)
(* Small processors for TLC. A cfg chooses the frames that neighbours may  *)
(* queue, in any order and at any moment; Kinds says what they are.        *)
(***************************************************************************)
EXTENDS FrameProcessor, TLC

CONSTANTS s, d, m, n, i, c, p, r, x, y

Kinds == [f \in Frame |->
  CASE f = s -> "start" [] f = d -> "data" [] f \in {m, n} -> "must"
    [] f = i -> "interruption" [] f = c -> "cancel" [] f = x -> "system"
    [] f = p -> "pause" [] f = r -> "resume" [] f = y -> "pauseUrgent"]
=============================================================================
