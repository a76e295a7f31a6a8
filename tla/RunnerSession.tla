---------------------------- MODULE RunnerSession ----------------------------
(***************************************************************************)
(* What WorkerRunner.run() promises, with the bus, the messages and the    *)
(* family of the workers left out: workers come and go, at some point the  *)
(* session closes, and it is over when everyone who was there has left.    *)
(***************************************************************************)
CONSTANT Workers

VARIABLES
  stage,  \* "open", "closing" or "over"
  live,   \* the workers whose task runs
  waited  \* the workers that were there when the session closed

vars == <<stage, live, waited>>

Init == stage = "open" /\ live = {} /\ waited = {}

Join(w) == /\ w \notin live
           /\ live' = live \cup {w} /\ UNCHANGED <<stage, waited>>

Leave(w) == /\ w \in live
            /\ live' = live \ {w} /\ UNCHANGED <<stage, waited>>

Close == /\ stage = "open" /\ stage' = "closing"
         /\ waited' = live /\ UNCHANGED live

Over == /\ stage = "closing" /\ waited \cap live = {}
        /\ stage' = "over" /\ UNCHANGED <<live, waited>>

Next == \/ \E w \in Workers : Join(w) \/ Leave(w)
        \/ Close \/ Over

\* Who is waited for leaves, and then the session is over.
Spec == /\ Init /\ [][Next]_vars
        /\ \A w \in Workers : WF_vars(stage = "closing" /\ w \in waited /\ Leave(w))
        /\ WF_vars(Over)
=============================================================================
