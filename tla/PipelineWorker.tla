--------------------------- MODULE PipelineWorker ---------------------------
(***************************************************************************)
(* The life of a pipeline (src/src/pipecat/pipeline/worker.py): run() sets *)
(* the processors up and waits, the PUSH task feeds frames to the head of  *)
(* the pipeline, and the sink tells it through two events what came out.   *)
(*                                                                         *)
(* The processors between source and sink are external: they deliver what  *)
(* they are given, in order, a CancelFrame ahead of data and control       *)
(* frames, and may block for ever on the kinds in MayBlock. A blocked      *)
(* StartFrame or CancelFrame lets nothing pass; behind another blocked     *)
(* frame only a CancelFrame passes.                                        *)
(*                                                                         *)
(* A frame is its kind: "start", "data", "end", "stop" or "cancel".        *)
(***************************************************************************)
EXTENDS Naturals, Sequences, SequencesExt

CONSTANTS
  MaxQueued,  \* how many frames are queued, besides cancel()'s own
  MayBlock,   \* the kinds of frame that a processor may never let go
  MayCancelRun  \* whether the task that runs the worker may be cancelled

Queueable == {"data", "end", "stop", "cancel"}
Terminal  == {"end", "stop", "cancel"}

ASSUME WorkerAssumption ==
  /\ MaxQueued \in Nat
  /\ MayBlock \subseteq Queueable \cup {"start"}
  /\ MayCancelRun \in BOOLEAN

VARIABLES
  run,        \* how far run() is
  push,       \* how far _process_push_task is
  hand,       \* the last frame the push task pushed
  pushQueue,  \* _push_queue
  queued,     \* how many frames were queued
  pipe,       \* the frames in the pipeline, in the order they entered
  blocked,    \* the kind of the frame a processor blocks on, or "no"
  startEvent, endEvent, finishedEvent,  \* _pipeline_start_event, ...
  cancelled,  \* _cancelled
  stopping,   \* the on_pipeline_finished handler task, which calls stop(), is pending
  cleaned,    \* the processors were cleaned up
  started,    \* history: the StartFrame reached the sink
  reports,    \* history: how often on_pipeline_finished was called
  outside     \* history: what run() was doing when its task was cancelled

events == <<startEvent, endEvent, finishedEvent>>
flow   == <<pushQueue, queued, pipe, blocked>>
past   == <<started, reports, outside>>
vars   == <<run, push, hand, flow, events, cancelled, stopping, cleaned, past>>

PlacesOK ==
  /\ run \in {"new", "setup", "waiting", "joining", "done"}
  /\ push \in {"none", "starting", "pushing", "ending", "cancelling", "cleanup",
               "cleaning", "done", "killed"}
  /\ hand \in Queueable \cup {"start", "none"}
  /\ pushQueue \in Seq(Queueable) /\ queued \in 0 .. MaxQueued
  /\ pipe \in Seq(Queueable \cup {"start"})
  /\ blocked \in MayBlock \cup {"no"}
  /\ reports \in Nat
  /\ outside \in {"never", "setup", "waiting", "joining"}

FlagsOK ==
  /\ startEvent \in BOOLEAN /\ endEvent \in BOOLEAN /\ finishedEvent \in BOOLEAN
  /\ cancelled \in BOOLEAN /\ stopping \in BOOLEAN /\ cleaned \in BOOLEAN
  /\ started \in BOOLEAN

TypeOK == PlacesOK /\ FlagsOK

Init ==
  /\ run = "new" /\ push = "none" /\ hand = "none"
  /\ pushQueue = <<>> /\ queued = 0 /\ pipe = <<>> /\ blocked = "no"
  /\ startEvent = FALSE /\ endEvent = FALSE /\ finishedEvent = FALSE
  /\ cancelled = FALSE /\ stopping = FALSE /\ cleaned = FALSE
  /\ started = FALSE /\ reports = 0 /\ outside = "never"
-----------------------------------------------------------------------------
\* (mutant) cancelling lets a push task that waits for an EndFrame go
CancelFreesEnd ==
  IF cancelled
  THEN UNCHANGED <<cancelled, startEvent, endEvent, pushQueue>>
  ELSE /\ cancelled' = TRUE /\ startEvent' = TRUE /\ endEvent' = TRUE
       /\ pushQueue' = Append(pushQueue, "cancel")

\* _cancel: once; a push task that waits for the StartFrame is let go, and the
\* CancelFrame goes behind what is already in the push queue.
CancelOnce ==
  /\ IF cancelled
     THEN UNCHANGED <<cancelled, startEvent, pushQueue>>
     ELSE /\ cancelled' = TRUE /\ startEvent' = TRUE
          /\ pushQueue' = Append(pushQueue, "cancel")
  /\ UNCHANGED endEvent

\* cancel(): by the application, the idle monitor, the bus or a fatal ErrorFrame.
Cancel ==
  /\ run # "done"
  /\ CancelOnce
  /\ UNCHANGED <<run, push, hand, queued, pipe, blocked, finishedEvent, stopping, cleaned,
                 past>>

\* queue_frame and stop_when_done, or a processor that pushes an EndWorkerFrame,
\* StopWorkerFrame or CancelWorkerFrame upstream: the source queues the frame.
QueueFrame(k) ==
  /\ queued < MaxQueued
  /\ queued' = queued + 1
  /\ pushQueue' = Append(pushQueue, k)
  /\ UNCHANGED <<run, push, hand, pipe, blocked, events, cancelled, stopping, cleaned, past>>
-----------------------------------------------------------------------------
(***************************************************************************)
(* run()                                                                   *)
(***************************************************************************)
Run == /\ run = "new" /\ run' = "setup"
       /\ UNCHANGED <<push, hand, flow, events, cancelled, stopping, cleaned, past>>

\* The push task starts by sending the StartFrame into the pipeline.
SetupDone ==
  /\ run = "setup" /\ run' = "waiting"
  /\ push' = "starting" /\ hand' = "start" /\ pipe' = <<"start">>
  /\ UNCHANGED <<pushQueue, queued, blocked, events, cancelled, stopping, cleaned, past>>

\* A processor never finished its setup: clean up what there is, and give up.
SetupTimesOut ==
  /\ run = "setup" /\ run' = "done"
  /\ finishedEvent' = TRUE /\ cleaned' = TRUE
  /\ UNCHANGED <<push, hand, flow, startEvent, endEvent, cancelled, stopping, past>>

\* (mutant) run() does not wait for the push task
FinishAtOnce ==
  /\ run = "waiting" /\ finishedEvent /\ run' = "done"
  /\ UNCHANGED <<push, hand, flow, events, cancelled, stopping, cleaned, past>>

\* _wait_for_pipeline_finished: the event first, then the push task.
Finishing ==
  /\ run = "waiting" /\ finishedEvent /\ run' = "joining"
  /\ UNCHANGED <<push, hand, flow, events, cancelled, stopping, cleaned, past>>

Finished ==
  /\ run = "joining" /\ push = "done" /\ run' = "done"
  /\ UNCHANGED <<push, hand, flow, events, cancelled, stopping, cleaned, past>>

\* The task running the worker is cancelled. While it sets up, nothing is cleaned up;
\* while it waits, it cancels the pipeline and waits again; while it awaits the push
\* task, the push task is cancelled with it, wherever it is.
RunCancelled ==
  /\ MayCancelRun /\ outside = "never"
  /\ run \in {"setup", "waiting", "joining"}
  /\ outside' = run
  /\ \/ /\ run = "setup" /\ run' = "done"
        /\ UNCHANGED <<push, cancelled, startEvent, endEvent, pushQueue>>
     \/ /\ run = "waiting"
        /\ CancelOnce /\ UNCHANGED <<run, push>>
     \/ /\ run = "joining" /\ run' = "done"
        /\ push' = IF push = "done" THEN "done" ELSE "killed"
        /\ CancelOnce
  /\ UNCHANGED <<hand, queued, pipe, blocked, finishedEvent, stopping, cleaned, started,
                 reports>>
-----------------------------------------------------------------------------
(***************************************************************************)
(* The push task                                                           *)
(***************************************************************************)
\* (mutant) frames are pushed without waiting for the StartFrame
PushAtOnce ==
  /\ push = "starting" /\ push' = "pushing"
  /\ UNCHANGED <<run, hand, flow, events, cancelled, stopping, cleaned, past>>

Started ==
  /\ push = "starting" /\ startEvent
  /\ push' = "pushing" /\ startEvent' = FALSE
  /\ UNCHANGED <<run, hand, flow, endEvent, finishedEvent, cancelled, stopping, cleaned,
                 past>>

StartTimesOut ==
  /\ push = "starting" /\ ~startEvent
  /\ push' = "cleanup"
  /\ UNCHANGED <<run, hand, flow, events, cancelled, stopping, cleaned, past>>

PushFrame ==
  /\ push = "pushing" /\ pushQueue # <<>>
  /\ hand' = Head(pushQueue) /\ pushQueue' = Tail(pushQueue)
  /\ pipe' = Append(pipe, Head(pushQueue))
  /\ push' = CASE Head(pushQueue) = "cancel"          -> "cancelling"
               [] Head(pushQueue) \in {"end", "stop"} -> "ending"
               [] OTHER                               -> "pushing"
  /\ UNCHANGED <<run, queued, blocked, events, cancelled, stopping, cleaned, past>>

\* An EndFrame or StopFrame is waited for as long as it takes.
Ended ==
  /\ push = "ending" /\ endEvent
  /\ push' = "cleanup" /\ endEvent' = FALSE /\ finishedEvent' = TRUE
  /\ UNCHANGED <<run, hand, flow, startEvent, cancelled, stopping, cleaned, past>>

\* (mutant) there is no timeout
CancelWaits ==
  /\ push = "cancelling" /\ endEvent
  /\ push' = "cleanup" /\ endEvent' = FALSE /\ finishedEvent' = TRUE
  /\ reports' = reports + 1 /\ stopping' = TRUE
  /\ UNCHANGED <<run, hand, flow, startEvent, cancelled, cleaned, started, outside>>

\* A CancelFrame is waited for until it comes or the timeout elapses.
CancelledOrTimedOut ==
  /\ push = "cancelling"
  /\ push' = "cleanup" /\ endEvent' = FALSE /\ finishedEvent' = TRUE
  /\ reports' = reports + 1 /\ stopping' = TRUE
  /\ UNCHANGED <<run, hand, flow, startEvent, cancelled, cleaned, started, outside>>

\* _cleanup, first the worker: it waits for its event handlers and stops ...
CleanupWorker ==
  /\ push = "cleanup" /\ ~stopping
  /\ push' = "cleaning" /\ finishedEvent' = TRUE
  /\ UNCHANGED <<run, hand, flow, startEvent, endEvent, cancelled, stopping, cleaned, past>>

\* ... then the processors, which a StopFrame leaves as they are.
CleanupPipeline ==
  /\ push = "cleaning" /\ push' = "done"
  /\ cleaned' = (hand # "stop")
  /\ UNCHANGED <<run, hand, flow, events, cancelled, stopping, past>>
-----------------------------------------------------------------------------
(***************************************************************************)
(* The pipeline and its sink                                               *)
(***************************************************************************)
\* A frame comes through unless it, or one that it cannot pass, is blocked.
Passes(i) ==
  /\ i \in 1 .. Len(pipe)
  /\ i = 1 \/ (pipe[i] = "cancel" /\ pipe[1] # "start")
  /\ blocked = "no" \/ (pipe[i] = "cancel" /\ blocked \notin {"start", "cancel"})

\* (mutant) a CancelFrame is reported by the sink, as an EndFrame is
ReportTerminal(k) ==
  /\ endEvent' = (endEvent \/ k \in Terminal)
  /\ reports' = IF k \in Terminal THEN reports + 1 ELSE reports
  /\ stopping' = (stopping \/ k \in Terminal)

\* (mutant) a StopFrame does not set the event
ReportNoStop(k) ==
  /\ endEvent' = (endEvent \/ k \in {"end", "cancel"})
  /\ reports' = IF k \in {"end", "stop"} THEN reports + 1 ELSE reports
  /\ stopping' = (stopping \/ k \in {"end", "stop"})

\* The sink sees the frame that ends the pipeline.
ReportEnd(k) ==
  /\ endEvent' = (endEvent \/ k \in Terminal)
  /\ reports' = IF k \in {"end", "stop"} THEN reports + 1 ELSE reports
  /\ stopping' = (stopping \/ k \in {"end", "stop"})

\* _sink_push_frame
SinkReceives ==
  \E i \in DOMAIN pipe :
    /\ Passes(i) /\ ~cleaned
    /\ pipe' = RemoveAt(pipe, i)
    /\ ReportEnd(pipe[i])
    /\ startEvent' = (startEvent \/ pipe[i] = "start")
    /\ started' = (started \/ pipe[i] = "start")
    /\ UNCHANGED <<run, push, hand, pushQueue, queued, blocked, finishedEvent, cancelled,
                   cleaned, outside>>

\* A processor blocks on a frame that was on its way to the sink.
Block ==
  \E i \in DOMAIN pipe :
    /\ blocked = "no" /\ pipe[i] \in MayBlock /\ Passes(i) /\ ~cleaned
    /\ blocked' = pipe[i]
    /\ UNCHANGED <<run, push, hand, pushQueue, queued, pipe, events, cancelled, stopping,
                   cleaned, past>>

\* The on_pipeline_finished handler: BaseWorker.stop.
Stop ==
  /\ stopping
  /\ stopping' = FALSE /\ finishedEvent' = TRUE
  /\ UNCHANGED <<run, push, hand, flow, startEvent, endEvent, cancelled, cleaned, past>>
-----------------------------------------------------------------------------
RunStep  == Run \/ SetupDone \/ SetupTimesOut \/ Finishing \/ Finished
PushStep == \/ Started \/ StartTimesOut \/ PushFrame \/ Ended \/ CancelledOrTimedOut
            \/ CleanupWorker \/ CleanupPipeline

Next ==
  \/ Cancel
  \/ \E k \in Queueable : QueueFrame(k)
  \/ RunStep \/ RunCancelled
  \/ PushStep
  \/ SinkReceives \/ Block \/ Stop

\* The loop runs every task that can run, timeouts elapse, and the pipeline delivers
\* what no processor blocks.
Fairness ==
  /\ WF_vars(RunStep) /\ WF_vars(PushStep) /\ WF_vars(Stop)
  /\ WF_vars(SinkReceives)

Spec == Init /\ [][Next]_vars /\ Fairness
-----------------------------------------------------------------------------
(***************************************************************************)
(* What the worker promises                                                *)
(***************************************************************************)
Ending == {"cleanup", "cleaning", "done"}

\* "Ending flushes what is queued": whoever cancels meanwhile, the worker does not tear
\* the pipeline down before the EndFrame it pushed has come out, and with it everything
\* that was ahead of it.
EndFlushes == hand = "end" /\ push \in Ending => ~Contains(pipe, "end")

\* "Wait for the pipeline to be started before pushing any other frame": only a cancel
\* lets data into a pipeline whose StartFrame has not come out.
StartedFirst == Contains(pipe, "data") => started \/ cancelled

\* on_pipeline_finished is called once for the frame that ended the pipeline, whether the
\* sink or a timeout reports it, and however many were queued.
ReportedOnce == hand \in Terminal /\ push \in Ending => reports = 1

\* When run() returns, the processors are cleaned up (unless a StopFrame keeps them), no
\* push task is left and wait() resolves; except when its task was cancelled at a moment
\* that RunCancelled names.
RunLeavesClean ==
  run = "done" /\ outside \notin {"setup", "joining"}
    => finishedEvent /\ push \in {"none", "done"} /\ (cleaned \/ hand = "stop")

\* What the push task waits for comes or is given up: a pipeline whose StartFrame a
\* processor blocks is torn down, and an EndFrame or StopFrame ends one that blocks nothing.
WaitsEnd ==
  /\ push = "starting" ~> started \/ cancelled \/ run = "done"
  /\ push = "ending" ~> run = "done" \/ blocked # "no"

\* cancel() ends the pipeline, even if a processor blocks the StartFrame or the
\* CancelFrame, as long as no EndFrame or StopFrame is ahead of its CancelFrame.
CancelFinishes ==
  cancelled /\ push # "ending" /\ ~Contains(pushQueue, "end") /\ ~Contains(pushQueue, "stop")
    ~> run = "done"

\* "This time we have really cancelled, so it should really finish."
CancelAlwaysFinishes == cancelled ~> run = "done"
=============================================================================
