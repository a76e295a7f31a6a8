---------------------------- MODULE FrameDelivery ----------------------------
(***************************************************************************)
(* What a frame processor promises its neighbours, with its queues, tasks, *)
(* gates and pauses left out                                               *)
(* (src/src/pipecat/processors/frame_processor.py): every frame it is      *)
(* given is taken once, in order of arrival among those of its tier, one   *)
(* system frame and one other at a time, and the StartFrame before all     *)
(* others. What is lost is lost to an interruption, which reaches only     *)
(* frames that came before it and may be interrupted, or because the       *)
(* processor stops.                                                        *)
(***************************************************************************)
EXTENDS Naturals

CONSTANTS
  Frame,       \* the frames that may be given
  Rank,        \* the priority of each, lowest first
  Starts,      \* the StartFrames
  System,      \* the system frames
  Must,        \* the uninterruptible frames
  Interrupts,  \* the InterruptionFrames
  Broadcasts   \* whether the processor itself may broadcast an interruption

VARIABLES
  count,     \* how many frames have been given
  number,    \* the position of each frame in the order of arrival, 0 before
  status,    \* what has become of each frame
  stopping   \* the processor has been cancelled or is being torn down

vars == <<count, number, status, stopping>>

Status == {"new", "waiting", "taken", "handled", "lost"}

Init ==
  /\ count = 0 /\ number = [f \in Frame |-> 0]
  /\ status = [f \in Frame |-> "new"]
  /\ stopping = FALSE

Give(f) ==
  /\ status[f] = "new"
  /\ count' = count + 1 /\ number' = [number EXCEPT ![f] = count + 1]
  /\ status' = [status EXCEPT ![f] = "waiting"]
  /\ UNCHANGED stopping

SameTask(f, g) == f \in System <=> g \in System

Take(f) ==
  /\ status[f] = "waiting"
  /\ \A g \in Frame : SameTask(f, g) => status[g] # "taken"
  /\ \A g \in Frame : Rank[g] = Rank[f] /\ number[g] < number[f] => status[g] # "waiting"
  /\ f \in Starts \/ \E s \in Starts : status[s] = "handled"
  /\ status' = [status EXCEPT ![f] = "taken"]
  /\ UNCHANGED <<count, number, stopping>>

Finish(f) ==
  /\ status[f] = "taken"
  /\ status' = [status EXCEPT ![f] = "handled"]
  /\ UNCHANGED <<count, number, stopping>>

Pending == {f \in Frame : status[f] \in {"waiting", "taken"}}

\* Some of the frames are lost, and nothing else becomes of any.
LoseSome(frames) ==
  /\ status' \in [Frame -> Status]
  /\ \A f \in Frame : status'[f] = status[f] \/ (f \in frames /\ status'[f] = "lost")

\* The frames that an interruption may reach: no system frame that has still to be handled
\* came before them.
Reached == {f \in Pending \ (System \cup Must) :
              \A g \in Pending \cap System : number[f] < number[g]}

Interrupt(i) ==
  /\ status[i] = "taken"
  /\ UNCHANGED <<count, number, stopping>>
  /\ LoseSome(Reached)

\* What the processor has in hand, it keeps.
Queued == {f \in Reached : status[f] = "waiting"}

Broadcast ==
  /\ Broadcasts
  /\ UNCHANGED <<count, number, stopping>>
  /\ LoseSome(Queued)

\* From now on, any frame may be lost.
Stop ==
  /\ stopping' = TRUE
  /\ UNCHANGED <<count, number>>
  /\ LoseSome(Pending)

Next ==
  \/ \E f \in Frame : Give(f) \/ Take(f) \/ Finish(f)
  \/ \E i \in Interrupts : Interrupt(i)
  \/ Broadcast \/ Stop

Spec == Init /\ [][Next]_vars
==============================================================================
