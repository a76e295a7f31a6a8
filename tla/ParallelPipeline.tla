-------------------------- MODULE ParallelPipeline --------------------------
(***************************************************************************)
(* A ParallelPipeline (src/src/pipecat/pipeline/parallel_pipeline.py): it  *)
(* copies every frame it is given to all of its branches, lets the first   *)
(* copy of each out, and holds everything back while a StartFrame, an      *)
(* EndFrame or a CancelFrame is on its way through the branches.           *)
(*                                                                         *)
(* It is a frame processor: its two queues and its two tasks are those of  *)
(* module FrameProcessor, reduced to what matters here. A frame taken from *)
(* a queue is handled in one step, for nothing on the way into the         *)
(* branches or out of them gives the event loop a chance to run another    *)
(* task, unless the application adds handlers to the ParallelPipeline's    *)
(* own on_before/after_push_frame events.                                  *)
(*                                                                         *)
(* What runs inside a branch is external. A branch keeps the order of data *)
(* and control frames, lets system frames pass them, may drop a data frame *)
(* and may push frames of its own, both ways, once it has been started and *)
(* until it has ended.                                                     *)
(*                                                                         *)
(* The worker's part in a flush (src/src/pipecat/pipeline/worker.py) is    *)
(* here because the probe comes through the same ParallelPipeline more     *)
(* than once: down, then up again from the sink.                           *)
(***************************************************************************)
EXTENDS Naturals, FiniteSets, Sequences, SequencesExt

CONSTANTS
  Branch,  \* the branches
  Frame,   \* the frames that neighbours may queue, each at most once
  KindOf,  \* the class of each of them
  Own      \* the frames that branches may push of their own, each at most once

Kind == {"start", "end", "cancel", "interruption", "data", "flush"}

ASSUME BranchAssumption ==
  /\ IsFiniteSet(Branch) /\ Branch # {}
  /\ KindOf \in [Frame -> Kind]
  /\ Own \cap Frame = {}

\* (mutant) an EndFrame is not waited for
SynchronizedNotEnd == {f \in Frame : KindOf[f] \in {"start", "cancel"}}

\* The frames that are let out only when every branch has handled them.
Synchronized == {f \in Frame : KindOf[f] \in {"start", "end", "cancel"}}

Is(k)     == {f \in Frame : KindOf[f] = k}
System    == Is("start") \cup Is("cancel") \cup Is("interruption")
Data      == Is("data") \cup Own

VARIABLES
  queued,    \* the frames that neighbours have queued
  sysQueue,  \* system frames in its input queue
  queue,     \* the other frames in its input and process queues, with their direction
  tasks,     \* "none", then "both" its input and process task run, or "input" only
  cancelling,   \* _cancelling
  noSystem, noFrames,  \* system frames and other frames are paused
  counter,   \* _frame_counter
  synchronizing, buffered,  \* _synchronizing, _buffered_frames
  down, up,  \* the frames in each branch, on their way to its sink and to its source
  gone,      \* the synchronized frames that have left each branch
  own,       \* the frames that branches have pushed of their own
  left,      \* _seen_ids, in the order they were added
  out,       \* history: what was pushed out, with its direction
  probe      \* the direction in which the worker last sent the flush probe

gates  == <<noSystem, noFrames>>
inside == <<down, up, gone, own>>
sync   == <<counter, synchronizing, buffered, left, out>>
vars   == <<queued, sysQueue, queue, tasks, cancelling, gates, inside, sync, probe>>

Pushed == (Frame \cup Own) \X {"down", "up"}

TypeOK ==
  /\ queued \subseteq Frame
  /\ sysQueue \in Seq(System) /\ queue \in Seq((Frame \ System) \X {"down", "up"})
  /\ tasks \in {"none", "both", "input"} /\ cancelling \in BOOLEAN
  /\ noSystem \in BOOLEAN /\ noFrames \in BOOLEAN /\ synchronizing \in BOOLEAN
  /\ counter \in [Frame -> 0 .. Cardinality(Branch)]
  /\ buffered \in Seq(Pushed) /\ out \in Seq(Pushed)
  /\ down \in [Branch -> Seq(Frame \cup Own)] /\ up \in [Branch -> Seq(Frame \cup Own)]
  /\ gone \in [Branch -> SUBSET Frame]
  /\ own \subseteq Own /\ left \in Seq(Frame \cup Own)
  /\ probe \in {"none", "down", "up"}

Init ==
  /\ queued = {} /\ sysQueue = <<>> /\ queue = <<>>
  /\ tasks = "none" /\ cancelling = FALSE
  /\ noSystem = FALSE /\ noFrames = FALSE
  /\ counter = [f \in Frame |-> 0] /\ synchronizing = FALSE /\ buffered = <<>>
  /\ down = [b \in Branch |-> <<>>] /\ up = [b \in Branch |-> <<>>]
  /\ gone = [b \in Branch |-> {}] /\ own = {}
  /\ left = <<>> /\ out = <<>> /\ probe = "none"
-----------------------------------------------------------------------------
(***************************************************************************)
(* Into the branches                                                       *)
(***************************************************************************)
\* A neighbour queues a frame: the StartFrame first, and only system frames behind an
\* EndFrame. The flush probe comes from the worker.
QueueFrame(f) ==
  /\ f \notin queued /\ ~cancelling
  /\ queued = {} => f \in Is("start")
  /\ queued \cap Is("end") # {} => f \in System
  /\ queued' = queued \cup {f}
  /\ IF f \in System THEN sysQueue' = Append(sysQueue, f) /\ UNCHANGED queue
                     ELSE queue' = Append(queue, <<f, "down">>) /\ UNCHANGED sysQueue
  /\ probe' = IF f \in Is("flush") THEN "down" ELSE probe
  /\ UNCHANGED <<tasks, cancelling, gates, inside, sync>>

\* process_frame: a synchronized frame pauses the ParallelPipeline ...
Begin(f) ==
  IF f \in Synchronized
  THEN /\ counter' = [counter EXCEPT ![f] = Cardinality(Branch)]
       /\ synchronizing' = TRUE /\ noSystem' = TRUE /\ noFrames' = TRUE
  ELSE UNCHANGED <<counter, synchronizing, gates>>

\* ... and every frame goes to every branch.
FanOut(f, dir) ==
  IF dir = "down"
  THEN down' = [b \in Branch |-> Append(down[b], f)] /\ UNCHANGED up
  ELSE up' = [b \in Branch |-> Append(up[b], f)] /\ UNCHANGED down

\* What a StartFrame, a CancelFrame or an InterruptionFrame does to the tasks of any
\* processor. (A frame that an interruption drops while it waits here might as well not
\* have been queued.)
HandleAsProcessor(f) ==
  /\ tasks' = IF f \in Is("cancel") THEN "input" ELSE "both"
  /\ cancelling' = (cancelling \/ f \in Is("cancel"))

TakeSystem ==
  /\ sysQueue # <<>> /\ ~noSystem
  /\ sysQueue' = Tail(sysQueue)
  /\ HandleAsProcessor(Head(sysQueue))
  /\ Begin(Head(sysQueue)) /\ FanOut(Head(sysQueue), "down")
  /\ UNCHANGED <<queued, queue, gone, own, buffered, left, out, probe>>

TakeFrame ==
  /\ queue # <<>> /\ ~noFrames /\ tasks = "both"
  /\ queue' = Tail(queue)
  /\ Begin(Head(queue)[1]) /\ FanOut(Head(queue)[1], Head(queue)[2])
  /\ UNCHANGED <<queued, sysQueue, tasks, cancelling, gone, own, buffered, left, out, probe>>
-----------------------------------------------------------------------------
(***************************************************************************)
(* Out of the branches                                                     *)
(***************************************************************************)
Seen(f) == Contains(left, f)

\* _parallel_push_frame
ParallelPush(f, dir) ==
  IF Seen(f) THEN UNCHANGED <<left, buffered, out>>
  ELSE /\ left' = Append(left, f)
       /\ IF synchronizing
          THEN buffered' = Append(buffered, <<f, dir>>) /\ UNCHANGED out
          ELSE out' = Append(out, <<f, dir>>) /\ UNCHANGED buffered

\* (mutant) the buffered frames are let out from the last to the first
FlushedBackwards == Reverse(buffered)

\* _flush_buffered_frames
Flushed == buffered

\* (mutant) what was buffered goes before the StartFrame, too
ReleasedLast(f) == LET it == IF Seen(f) THEN <<>> ELSE << <<f, "down">> >>
                   IN Flushed \o it

\* Once every branch has handled the frame: a StartFrame before what was buffered, an
\* EndFrame or a CancelFrame after it.
Released(f) == LET it == IF Seen(f) THEN <<>> ELSE << <<f, "down">> >>
               IN IF f \in Is("start") THEN it \o Flushed ELSE Flushed \o it

\* (mutant) system frames stay paused
ResumeFrames == noFrames' = FALSE /\ UNCHANGED noSystem

Resume == noSystem' = FALSE /\ noFrames' = FALSE

\* (mutant) a copy less is waited for
Counted(f) == IF counter[f] > 1 THEN counter[f] - 2 ELSE 0

Decremented(f) == IF counter[f] > 0 THEN counter[f] - 1 ELSE 0

\* _pipeline_sink_push_frame
Sink(f) ==
  IF f \notin Synchronized
  THEN ParallelPush(f, "down") /\ UNCHANGED <<counter, synchronizing, gates>>
  ELSE /\ counter' = [counter EXCEPT ![f] = Decremented(f)]
       /\ IF Decremented(f) = 0
          THEN /\ synchronizing' = FALSE
               /\ out' = out \o Released(f) /\ buffered' = <<>>
               /\ left' = IF Seen(f) THEN left ELSE Append(left, f)
               /\ Resume
          ELSE UNCHANGED <<synchronizing, left, out, buffered, gates>>

\* A frame reaches the end of a branch. System frames pass the others, except a
\* StartFrame, without which no processor handles anything.
BranchOut(b) ==
  \E i \in DOMAIN down[b] :
    /\ i = 1 \/ (down[b][i] \in System
                 /\ \A j \in 1 .. i - 1 : down[b][j] \notin System)
    /\ down' = [down EXCEPT ![b] = RemoveAt(@, i)]
    /\ gone' = [gone EXCEPT ![b] = @ \cup ({down[b][i]} \cap Synchronized)]
    /\ Sink(down[b][i])
    /\ UNCHANGED <<queued, sysQueue, queue, tasks, cancelling, up, own, probe>>

\* A frame reaches the source of a branch.
BranchUp(b) ==
  /\ up[b] # <<>>
  /\ up' = [up EXCEPT ![b] = Tail(@)]
  /\ ParallelPush(Head(up[b]), "up")
  /\ UNCHANGED <<queued, sysQueue, queue, tasks, cancelling, gates, down, gone, own, counter,
                 synchronizing, probe>>

\* A processor of the branch keeps a data frame to itself.
BranchKeeps(b) ==
  \E i \in DOMAIN down[b] :
    /\ down[b][i] \in Data
    /\ down' = [down EXCEPT ![b] = RemoveAt(@, i)]
    /\ UNCHANGED <<queued, sysQueue, queue, tasks, cancelling, gates, up, gone, own, sync,
                   probe>>

\* A processor of the branch that has been started, and has not ended, pushes a frame:
\* behind the StartFrame, ahead of the EndFrame.
BranchPushes(b, f) ==
  /\ tasks # "none" /\ f \notin own
  /\ gone[b] \cap (Is("end") \cup Is("cancel")) = {}
  /\ own' = own \cup {f}
  /\ \/ /\ \E i \in 0 .. Len(down[b]) :
             /\ \A j \in 1 .. i : down[b][j] \notin Is("end")
             /\ \A j \in i + 1 .. Len(down[b]) : down[b][j] \notin Is("start")
             /\ down' = [down EXCEPT ![b] = InsertAt(@, i + 1, f)]
        /\ UNCHANGED up
     \/ /\ up' = [up EXCEPT ![b] = Append(@, f)]
        /\ UNCHANGED down
  /\ UNCHANGED <<queued, sysQueue, queue, tasks, cancelling, gates, gone, sync, probe>>
-----------------------------------------------------------------------------
(***************************************************************************)
(* The worker's side of a flush: _advance_flush_probe                      *)
(***************************************************************************)
CameOut(dir) == \E f \in Is("flush") : Contains(out, <<f, dir>>)

\* The sink bounces the probe upstream.
ProbeBounces ==
  \E f \in Is("flush") :
    /\ probe = "down" /\ CameOut("down") /\ ~cancelling
    /\ probe' = "up"
    /\ queue' = Append(queue, <<f, "up">>)
    /\ UNCHANGED <<queued, sysQueue, tasks, cancelling, gates, inside, sync>>
-----------------------------------------------------------------------------
BranchStep(b) == BranchOut(b) \/ BranchUp(b)

Next ==
  \/ \E f \in Frame : QueueFrame(f)
  \/ TakeSystem \/ TakeFrame
  \/ \E b \in Branch : BranchStep(b) \/ BranchKeeps(b) \/ (\E f \in Own : BranchPushes(b, f))
  \/ ProbeBounces

\* The loop runs every task that can run, and every branch lets through in the end what
\* it does not keep.
Fairness ==
  /\ WF_vars(TakeSystem) /\ WF_vars(TakeFrame)
  /\ \A b \in Branch : WF_vars(BranchOut(b)) /\ WF_vars(BranchUp(b))
  /\ WF_vars(ProbeBounces)

Spec == Init /\ [][Next]_vars /\ Fairness
-----------------------------------------------------------------------------
(***************************************************************************)
(* What the ParallelPipeline promises                                      *)
(***************************************************************************)
\* "StartFrame should always go before any other frame", whichever branch is faster and
\* whatever the branches push of their own, up or down, while others still start.
StartGoesFirst == out # <<>> => out[1][1] \in Is("start")

\* "If EndFrame escapes from a fast branch, downstream processors begin shutting down
\* while other branches still have frames to flush": none has any when it comes out.
EndGoesLast ==
  (\E f \in Is("end") : Contains(out, <<f, "down">>))
    => \A b \in Branch : \A f \in Data : ~Contains(down[b], f)

\* "The task considers cancellation complete prematurely": no StartFrame, EndFrame or
\* CancelFrame is let out while a branch has yet to handle it.
AllBranchesFirst ==
  \A i \in DOMAIN out : out[i][1] \in Synchronized => \A b \in Branch : out[i][1] \in gone[b]

\* Whatever the branches' speed, a frame is let out once however many branches let it
\* through, and buffering reorders nothing and loses nothing: what came out, and then what is
\* buffered, is what the branches let through, in that order, but for the frames that open
\* and close the pipeline.
Passed == [i \in DOMAIN (out \o buffered) |-> (out \o buffered)[i][1]]

OrderKept ==
  LET Ordered == (Frame \cup Own) \ (Is("start") \cup Is("end") \cup Is("cancel"))
  IN /\ IsInjective(Passed) /\ IsInjective(left)
     /\ \A i \in DOMAIN Passed : Contains(left, Passed[i])
     /\ \A f \in Ordered : Contains(left, f) => Contains(Passed, f)
     /\ \A i, j \in DOMAIN Passed :
          i < j /\ Passed[i] \in Ordered /\ Passed[j] \in Ordered
            => \E k, l \in DOMAIN left : k < l /\ left[k] = Passed[i] /\ left[l] = Passed[j]

\* A pause ends, so nothing stays buffered and no frame is kept out for good.
PauseEnds == noSystem \/ noFrames \/ buffered # <<>> ~> ~noSystem /\ ~noFrames /\ buffered = <<>>

\* "The sink bounces it back upstream, the source turns it around": the probe comes back
\* to the source, which flush_pipeline waits for.
FlushComesBack == probe = "up" ~> CameOut("up") \/ cancelling
=============================================================================
