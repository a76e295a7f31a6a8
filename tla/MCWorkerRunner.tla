--------------------------- MODULE MCWorkerRunner ---------------------------
(* A bot with a helper worker of its own, and another root worker.         *)
EXTENDS WorkerRunner

CONSTANTS bot, helper, child, grandchild

Family == [w \in Workers |-> CASE w = child      -> bot
                               [] w = grandchild -> child
                               [] OTHER          -> None]
=============================================================================
