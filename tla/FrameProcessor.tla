--------------------------- MODULE FrameProcessor ---------------------------
(***************************************************************************)
(* One frame processor of a Pipecat pipeline                               *)
(* (src/src/pipecat/processors/frame_processor.py), at the granularity of  *)
(* the event loop: a step runs from one point where a coroutine can be     *)
(* suspended to the next.                                                  *)
(*                                                                         *)
(* Four actors share the processor's fields:                               *)
(*   - its neighbours, and any task that holds it, call queue_frame;       *)
(*   - the INPUT task takes frames from the priority queue, handles system *)
(*     frames itself and hands the others to the process queue;            *)
(*   - the PROCESS task handles the frames of the process queue;           *)
(*   - user code (a subclass, an event handler, another processor) pauses, *)
(*     resumes, broadcasts an interruption, or tears the processor down.   *)
(*                                                                         *)
(* A queue is the set of the frames in it, ordered by the number each      *)
(* frame got when it was put there. FrameQueue.reset() takes every item    *)
(* out and puts the uninterruptible ones back in the same order, so it is  *)
(* an intersection here.                                                   *)
(*                                                                         *)
(* An asyncio.Event is its flag plus, for the one task that can wait on    *)
(* it, whether that task's wait has been resolved ("woken"): set() then    *)
(* clear() does not take a wake-up back. __reset_process_task() replaces   *)
(* the process event by a new one, and a task still waiting on the old one *)
(* is "stale": nothing can reach that event any more.                      *)
(***************************************************************************)
EXTENDS Naturals

CONSTANTS
  Frame,      \* the frames that may be queued, each at most once
  KindOf,     \* the class of each frame, one of Kind
  NoFrame,    \* Python's None for __process_current_frame
  Ops         \* what user code does beyond handling frames, a subset of Op

Kind == {"start", "interruption", "cancel", "resume", "pauseUrgent", "system",
         "pause", "data", "must"}
Op   == {"pause", "pauseUntil", "pauseAgain", "pauseInSetup", "broadcast", "cleanup"}

ASSUME FrameAssumption ==
  /\ KindOf \in [Frame -> Kind]
  /\ NoFrame \notin Frame
  /\ Ops \subseteq Op

\* SystemFrame subclasses; the rest are data and control frames.
SystemKind == {"start", "interruption", "cancel", "resume", "pauseUrgent", "system"}
System == {f \in Frame : KindOf[f] \in SystemKind}
\* The UninterruptibleFrame mixin (EndFrame, FunctionCallResultFrame, ...).
Must   == {f \in Frame : KindOf[f] = "must"}

VARIABLES
  \* frames and where they are
  inq,          \* __input_queue
  arrived,      \* the queue's __counter when the frame was put, 0 if it never was
  pq,           \* __process_queue
  place,        \* the frame's position in the order of puts to __process_queue
  inCount, prCount,  \* the last numbers given out
  done,         \* history: frames handled to the end of process_frame
  \* the two tasks
  inTask, inFrame,   \* __input_frame_task and the frame it has in hand
  prTask, cur,       \* __process_frame_task and __process_current_frame
  \* pausing
  blockSystem, inEvent, inWoken,            \* __should_block_system_frames, __input_event
  blockFrames, prEvent, prWoken, prStale,   \* __should_block_frames, __process_event
  watcher,      \* __pause_watcher_task
  until,        \* the task suspended in pause_processing_all_frames_until, if any
  late,         \* history: a watcher was started after cleanup() had begun
  \* shutting down
  cancelling,   \* _cancelling
  teardown      \* progress of cleanup()

queues == <<inq, arrived, pq, place, inCount, prCount>>
tasks  == <<inTask, inFrame, prTask, cur>>
inGate == <<blockSystem, inEvent, inWoken>>
prGate == <<blockFrames, prEvent, prWoken, prStale>>
watch  == <<watcher, until, late>>
ending == <<cancelling, teardown>>
vars   == <<queues, done, tasks, inGate, prGate, watch, ending>>

InTask == {"none", "idle", "held", "entered", "cancelling", "user", "dying", "dead"}
PrTask == {"none", "new", "idle", "held", "entered", "user", "dying", "dead"}
Event  == {"none", "clear", "set"}
\* Whose code calls a method: one of the two tasks', or that of any other task.
Callers == {"input", "process", "outside"}
\* A process task that holds a frame and has not been told to stop.
Working == {"held", "entered", "user"}

QueuesOK ==
  /\ inq \subseteq Frame /\ pq \subseteq Frame /\ done \subseteq Frame
  /\ arrived \in [Frame -> Nat] /\ place \in [Frame -> Nat]
  /\ inCount \in Nat /\ prCount \in Nat

TasksOK ==
  /\ inTask \in InTask /\ inFrame \in Frame \cup {NoFrame}
  /\ prTask \in PrTask /\ cur \in Frame \cup {NoFrame}
  /\ watcher \in {"none", "watching", "expired"}
  /\ until \in {"idle"} \cup Callers
  /\ teardown \in {"no", "watcher", "input", "process", "done"}

GatesOK ==
  /\ blockSystem \in BOOLEAN /\ inEvent \in Event /\ inWoken \in BOOLEAN
  /\ blockFrames \in BOOLEAN /\ prEvent \in Event
  /\ prWoken \in BOOLEAN /\ prStale \in BOOLEAN
  /\ cancelling \in BOOLEAN /\ late \in BOOLEAN

TypeOK == QueuesOK /\ TasksOK /\ GatesOK

Init ==
  /\ inq = {} /\ pq = {} /\ done = {}
  /\ arrived = [f \in Frame |-> 0] /\ place = [f \in Frame |-> 0]
  /\ inCount = 0 /\ prCount = 0
  /\ inTask = "none" /\ inFrame = NoFrame
  /\ prTask = "none" /\ cur = NoFrame
  /\ blockSystem = FALSE /\ inEvent = "none" /\ inWoken = FALSE
  /\ blockFrames = FALSE /\ prEvent = "none" /\ prWoken = FALSE /\ prStale = FALSE
  /\ watcher = "none" /\ until = "idle" /\ late = FALSE
  /\ cancelling = FALSE /\ teardown = "no"
-----------------------------------------------------------------------------
(***************************************************************************)
(* The two queues and the two gates                                        *)
(***************************************************************************)
\* (mutant) the StartFrame is a system frame like the others
TierNoStart(f) == IF f \in System THEN 10 ELSE 20

\* FrameProcessorQueue.put: START_PRIORITY, SYSTEM_PRIORITY, DEFAULT_PRIORITY.
Tier(f) == IF KindOf[f] = "start" THEN 1 ELSE IF f \in System THEN 10 ELSE 20

\* (mutant) frames of a tier are not ordered
BeforeByTier(f, g) == Tier(f) <= Tier(g)

\* The (priority, counter) order of the heap.
Before(f, g) == \/ Tier(f) < Tier(g)
                \/ Tier(f) = Tier(g) /\ arrived[f] < arrived[g]

InputHead(f)   == f \in inq /\ \A g \in inq \ {f} : Before(f, g)
ProcessHead(f) == f \in pq  /\ \A g \in pq \ {f} : place[f] < place[g]

\* (mutant) reset() drains everything
KeptNothing(q) == {}

\* FrameQueue.reset
Kept(q) == q \cap Must

PauseSystem == /\ blockSystem' = TRUE
               /\ inEvent' = IF inEvent = "none" THEN "none" ELSE "clear"
               /\ UNCHANGED inWoken

PauseFrames == /\ blockFrames' = TRUE
               /\ prEvent' = IF prEvent = "none" THEN "none" ELSE "clear"
               /\ UNCHANGED <<prWoken, prStale>>

ResumeSystem == /\ inEvent' = IF inEvent = "none" THEN "none" ELSE "set"
                /\ inWoken' = (inWoken \/ inTask = "held")
                /\ UNCHANGED blockSystem

ResumeFrames == /\ prEvent' = IF prEvent = "none" THEN "none" ELSE "set"
                /\ prWoken' = (prWoken \/ (prTask = "held" /\ ~prStale))
                /\ UNCHANGED <<blockFrames, prStale>>

\* __resume_processing_all_frames
Lift == ResumeSystem /\ ResumeFrames

\* A pause lifted and taken again without letting go of the loop: the events end up
\* clear, but the tasks that were waiting on them are woken all the same.
Repause ==
  /\ blockSystem' = TRUE /\ blockFrames' = TRUE
  /\ inEvent' = IF inEvent = "none" THEN "none" ELSE "clear"
  /\ prEvent' = IF prEvent = "none" THEN "none" ELSE "clear"
  /\ inWoken' = (inWoken \/ inTask = "held")
  /\ prWoken' = (prWoken \/ (prTask = "held" /\ ~prStale))
  /\ UNCHANGED prStale

\* __reset_process_task. The new event leaves a waiting task on the old one.
ResetProcess == /\ blockFrames' = FALSE
                /\ prEvent' = "clear"
                /\ prStale' = (prTask = "held")
                /\ prWoken' = (prWoken /\ prTask = "held")
                /\ pq' = Kept(pq)

\* cancel_task(process task): the cancellation is delivered, the caller waits.
StopProcess == prTask' = IF prTask = "dead" THEN "dead" ELSE "dying"
-----------------------------------------------------------------------------
(***************************************************************************)
(* queue_frame                                                             *)
(***************************************************************************)
\* A cancelling processor refuses the frame; the StartFrame starts the input task.
QueueFrame(f) ==
  /\ arrived[f] = 0
  /\ KindOf[f] = "start" => teardown = "no"
  /\ ~cancelling
  /\ inCount' = inCount + 1
  /\ arrived' = [arrived EXCEPT ![f] = inCount + 1]
  /\ inq' = inq \cup {f}
  /\ IF KindOf[f] = "start" /\ inTask = "none"
     THEN inTask' = "idle" /\ inEvent' = "clear"
     ELSE UNCHANGED <<inTask, inEvent>>
  /\ UNCHANGED <<pq, place, prCount, done, inFrame, prTask, cur, blockSystem, inWoken,
                 prGate, watch, ending>>
-----------------------------------------------------------------------------
(***************************************************************************)
(* The input task                                                          *)
(***************************************************************************)
\* What follows the gate: a system frame is handled here, another is passed on.
Dispatch(f) ==
  IF f \in System
  THEN /\ inTask' = "entered" /\ inFrame' = f
       /\ UNCHANGED <<pq, place, prCount>>
  ELSE /\ inTask' = "idle" /\ inFrame' = NoFrame
       /\ pq' = pq \cup {f}
       /\ prCount' = prCount + 1
       /\ place' = [place EXCEPT ![f] = prCount + 1]

\* Take the best frame. A paused input task keeps the frame in hand and waits,
\* unless a resume has already set the event.
InputGet ==
  \E f \in Frame :
    /\ inTask = "idle" /\ InputHead(f)
    /\ inq' = inq \ {f}
    /\ IF blockSystem /\ inEvent = "clear"
       THEN /\ inTask' = "held" /\ inFrame' = f /\ inWoken' = FALSE
            /\ UNCHANGED <<pq, place, prCount, blockSystem, inEvent>>
       ELSE /\ Dispatch(f)
            /\ inEvent' = IF blockSystem THEN "clear" ELSE inEvent
            /\ blockSystem' = FALSE
            /\ UNCHANGED inWoken
    /\ UNCHANGED <<arrived, inCount, done, prTask, cur, prGate, watch, ending>>

\* The wait returns: the event is cleared and the flag dropped, whatever has
\* happened to them since the event was set.
InputWake ==
  /\ inTask = "held" /\ inWoken
  /\ Dispatch(inFrame)
  /\ inEvent' = "clear" /\ blockSystem' = FALSE /\ inWoken' = FALSE
  /\ UNCHANGED <<inq, arrived, inCount, done, prTask, cur, prGate, watch, ending>>

\* process_frame(StartFrame) -> __start -> __create_process_task
HandleStart ==
  /\ inTask = "entered" /\ KindOf[inFrame] = "start"
  /\ inTask' = "user"
  /\ IF prTask = "none" THEN prTask' = "new" /\ ResetProcess
                        ELSE UNCHANGED <<prTask, pq, prGate>>
  /\ UNCHANGED <<inq, arrived, place, inCount, prCount, done, inFrame, cur, inGate, watch,
                 ending>>

\* (mutant) an uninterruptible frame in the queue spares the current one, too
CurrentOrQueued == cur \in Must \/ pq \cap Must # {}

CurrentIsUninterruptible == cur \in Must

\* (mutant) the interruption empties the input queue as well
HandleInterruptionDrains ==
  /\ inTask = "entered" /\ KindOf[inFrame] = "interruption"
  /\ inq' = inq \cap (Must \cup System)
  /\ \/ /\ CurrentIsUninterruptible
        /\ inTask' = "user" /\ pq' = Kept(pq)
        /\ UNCHANGED <<prTask, prGate>>
     \/ /\ ~CurrentIsUninterruptible /\ prTask # "none"
        /\ inTask' = "cancelling" /\ StopProcess
        /\ UNCHANGED <<pq, prGate>>
     \/ /\ ~CurrentIsUninterruptible /\ prTask = "none"
        /\ inTask' = "user" /\ prTask' = "new" /\ ResetProcess
  /\ UNCHANGED <<arrived, place, inCount, prCount, done, inFrame, cur, inGate, watch, ending>>

\* process_frame(InterruptionFrame) -> _start_interruption
HandleInterruption ==
  /\ inTask = "entered" /\ KindOf[inFrame] = "interruption"
  /\ \/ /\ CurrentIsUninterruptible
        /\ inTask' = "user" /\ pq' = Kept(pq)
        /\ UNCHANGED <<prTask, prGate>>
     \/ /\ ~CurrentIsUninterruptible /\ prTask # "none"
        /\ inTask' = "cancelling" /\ StopProcess
        /\ UNCHANGED <<pq, prGate>>
     \/ /\ ~CurrentIsUninterruptible /\ prTask = "none"
        /\ inTask' = "user" /\ prTask' = "new" /\ ResetProcess
  /\ UNCHANGED <<inq, arrived, place, inCount, prCount, done, inFrame, cur, inGate, watch,
                 ending>>

\* process_frame(CancelFrame) -> __cancel
HandleCancel ==
  /\ inTask = "entered" /\ KindOf[inFrame] = "cancel"
  /\ cancelling' = TRUE
  /\ IF prTask # "none" THEN inTask' = "cancelling" /\ StopProcess
                        ELSE inTask' = "user" /\ UNCHANGED prTask
  /\ UNCHANGED <<queues, done, inFrame, cur, inGate, prGate, watch, teardown>>

\* The cancelled process task has finished; an interruption starts a new one.
ProcessStopped ==
  /\ inTask = "cancelling" /\ prTask = "dead"
  /\ inTask' = "user"
  /\ IF KindOf[inFrame] = "interruption"
     THEN prTask' = "new" /\ ResetProcess
     ELSE prTask' = "none" /\ UNCHANGED <<pq, prGate>>
  /\ UNCHANGED <<inq, arrived, place, inCount, prCount, done, inFrame, cur, inGate, watch,
                 ending>>

\* The other system frames: FrameProcessorPauseUrgentFrame and
\* FrameProcessorResumeFrame act on this processor, the rest on nothing here.
HandleOtherSystem ==
  /\ inTask = "entered" /\ KindOf[inFrame] \in {"pauseUrgent", "resume", "system"}
  /\ inTask' = "user"
  /\ IF KindOf[inFrame] = "pauseUrgent" THEN PauseFrames
     ELSE IF KindOf[inFrame] = "resume" THEN ResumeFrames
     ELSE UNCHANGED prGate
  /\ UNCHANGED <<queues, done, inFrame, prTask, cur, inGate, watch, ending>>

\* The subclass has finished with the frame (or its error has been reported).
InputDone ==
  /\ inTask = "user" /\ until # "input"
  /\ inTask' = "idle" /\ inFrame' = NoFrame
  /\ done' = done \cup {inFrame}
  /\ UNCHANGED <<queues, prTask, cur, inGate, prGate, watch, ending>>
-----------------------------------------------------------------------------
(***************************************************************************)
(* The process task                                                        *)
(***************************************************************************)
\* The new task reaches its first line, which forgets the last frame.
ProcessStart ==
  /\ prTask = "new"
  /\ prTask' = "idle" /\ cur' = NoFrame
  /\ UNCHANGED <<queues, done, inTask, inFrame, inGate, prGate, watch, ending>>

ProcessGet ==
  \E f \in Frame :
    /\ prTask = "idle" /\ ProcessHead(f)
    /\ pq' = pq \ {f} /\ cur' = f
    /\ IF blockFrames /\ prEvent = "clear"
       THEN /\ prTask' = "held" /\ prWoken' = FALSE /\ prStale' = FALSE
            /\ UNCHANGED <<blockFrames, prEvent>>
       ELSE /\ prTask' = "entered"
            /\ prEvent' = IF blockFrames THEN "clear" ELSE prEvent
            /\ blockFrames' = FALSE
            /\ UNCHANGED <<prWoken, prStale>>
    /\ UNCHANGED <<inq, arrived, place, inCount, prCount, done, inTask, inFrame, inGate,
                   watch, ending>>

\* The wait returns. The event cleared is the current one, even if the task was
\* waiting on an earlier one.
ProcessWake ==
  /\ prTask = "held" /\ prWoken
  /\ prTask' = "entered"
  /\ prEvent' = "clear" /\ blockFrames' = FALSE /\ prWoken' = FALSE /\ prStale' = FALSE
  /\ UNCHANGED <<queues, done, inTask, inFrame, cur, inGate, watch, ending>>

\* process_frame: FrameProcessorPauseFrame pauses, the rest go to the subclass.
ProcessHandle ==
  /\ prTask = "entered"
  /\ prTask' = "user"
  /\ IF KindOf[cur] = "pause" THEN PauseFrames ELSE UNCHANGED prGate
  /\ UNCHANGED <<queues, done, inTask, inFrame, cur, inGate, watch, ending>>

ProcessDone ==
  /\ prTask = "user" /\ until # "process"
  /\ prTask' = "idle" /\ cur' = NoFrame
  /\ done' = done \cup {cur}
  /\ UNCHANGED <<queues, inTask, inFrame, inGate, prGate, watch, ending>>

\* A call that a cancelled task was suspended in ends with it: a pause that was being
\* replaced stays as it is, and nobody watches it.
Abandon(caller) == /\ until' = IF until = caller THEN "idle" ELSE until
                   /\ UNCHANGED <<watcher, late>>

\* The cancellation has unwound the task. It never ran past its await, so what it
\* had in hand is neither handled nor forgotten by __process_current_frame.
ProcessDies ==
  /\ prTask = "dying"
  /\ prTask' = "dead"
  /\ Abandon("process")
  /\ UNCHANGED <<queues, done, inTask, inFrame, cur, inGate, prGate, ending>>
-----------------------------------------------------------------------------
(***************************************************************************)
(* User code                                                               *)
(***************************************************************************)
\* The processor is set up and not yet torn down. Bound: user code pauses, resumes and
\* broadcasts only then; later these calls start no task, and act on tasks that end.
Running == inTask # "none" /\ teardown = "no"

\* While cleanup() waits for one task, the others go on and may start a timed pause.
MayPause == inTask # "none" \/ prTask # "none"

UserPause  == /\ "pause" \in Ops /\ Running
              /\ PauseFrames
              /\ UNCHANGED <<queues, done, tasks, inGate, watch, ending>>

UserResume == /\ "pause" \in Ops /\ Running
              /\ ResumeFrames
              /\ UNCHANGED <<queues, done, tasks, inGate, watch, ending>>

\* broadcast_interruption: this processor's own queue and gate are reset here, the
\* InterruptionFrame goes to its neighbours only, never to itself.
Broadcast ==
  /\ "broadcast" \in Ops /\ Running
  /\ ResetProcess
  /\ UNCHANGED <<inq, arrived, place, inCount, prCount, done, tasks, inGate, watch, ending>>

\* pause_processing_all_frames_until. Bound: no two calls of it overlap.
MayPauseUntil == /\ until = "idle"
                 /\ \/ "pauseUntil" \in Ops /\ MayPause
                    \/ "pauseInSetup" \in Ops /\ inTask = "none" /\ teardown = "no"
                 /\ watcher # "none" => "pauseAgain" \in Ops

\* The new watcher is started, whether or not cleanup() has already seen to watchers.
Watch == watcher' = "watching" /\ late' = (late \/ teardown # "no")

PauseUntil ==
  /\ MayPauseUntil /\ watcher # "watching"
  /\ IF watcher = "expired" THEN Repause ELSE PauseSystem /\ PauseFrames
  /\ Watch /\ UNCHANGED until
  /\ UNCHANGED <<queues, done, tasks, ending>>

\* A task runs the code that a frame or another task has led to.
Executes(caller) == /\ caller = "input" => inTask = "user"
                    /\ caller = "process" => prTask = "user"

\* Replacing a live watcher: the call takes it out of the field and waits for its end.
PauseUntilAgain ==
  \E caller \in Callers :
    /\ MayPauseUntil /\ watcher = "watching" /\ Executes(caller)
    /\ watcher' = "none" /\ until' = caller
    /\ UNCHANGED <<queues, done, tasks, inGate, prGate, late, ending>>

\* The call goes on, unless the task it is part of is being cancelled.
PauseUntilReplace ==
  /\ until # "idle" /\ Executes(until)
  /\ until' = "idle" /\ Watch
  /\ Repause
  /\ UNCHANGED <<queues, done, tasks, ending>>

\* (mutant) only the system frames are resumed
WatcherForgetsFrames ==
  /\ watcher = "watching"
  /\ watcher' = "expired" /\ UNCHANGED <<until, late>>
  /\ ResumeSystem
  /\ UNCHANGED <<queues, done, tasks, prGate, ending>>

\* __pause_watcher_handler: the condition holds, or the timeout elapses.
WatcherFires ==
  /\ watcher = "watching"
  /\ watcher' = "expired" /\ UNCHANGED <<until, late>>
  /\ Lift
  /\ UNCHANGED <<queues, done, tasks, ending>>
-----------------------------------------------------------------------------
(***************************************************************************)
(* cleanup: the watcher, then the input task, then the process task        *)
(***************************************************************************)
\* (mutant) an input task that waits for the process task is left alone
StopInputUnlessWaiting ==
  inTask' = IF inTask \in {"none", "dead", "cancelling"} THEN inTask ELSE "dying"

StopInput == inTask' = IF inTask \in {"none", "dead"} THEN inTask ELSE "dying"

\* A call that is replacing the watcher has taken it away: cleanup() finds none.
Cleanup ==
  /\ "cleanup" \in Ops /\ Running
  /\ watcher' = "none"
  /\ IF watcher = "watching"
     THEN teardown' = "watcher" /\ UNCHANGED <<inTask, inGate, prGate>>
     ELSE /\ teardown' = "input" /\ StopInput
          /\ IF watcher = "expired" THEN Lift ELSE UNCHANGED <<inGate, prGate>>
  /\ UNCHANGED <<queues, done, inFrame, prTask, cur, until, late, cancelling>>

\* The pause the watcher was going to lift is lifted, then the input task cancelled.
CleanupWatcher ==
  /\ teardown = "watcher"
  /\ teardown' = "input" /\ StopInput
  /\ Lift
  /\ UNCHANGED <<queues, done, inFrame, prTask, cur, watch, cancelling>>

InputDies ==
  /\ inTask = "dying"
  /\ inTask' = "dead"
  /\ Abandon("input")
  /\ UNCHANGED <<queues, done, inFrame, prTask, cur, inGate, prGate, ending>>

\* (mutant) a process task that an interruption is cancelling is not waited for
CleanupInputNoWait ==
  /\ teardown = "input" /\ inTask \in {"none", "dead"}
  /\ inTask' = "none"
  /\ IF prTask \in {"none", "dying"} THEN teardown' = "done" /\ UNCHANGED prTask
                                     ELSE teardown' = "process" /\ StopProcess
  /\ UNCHANGED <<queues, done, inFrame, cur, inGate, prGate, watch, cancelling>>

CleanupInput ==
  /\ teardown = "input" /\ inTask \in {"none", "dead"}
  /\ inTask' = "none"
  /\ IF prTask = "none" THEN teardown' = "done" /\ UNCHANGED prTask
                        ELSE teardown' = "process" /\ StopProcess
  /\ UNCHANGED <<queues, done, inFrame, cur, inGate, prGate, watch, cancelling>>

CleanupProcess ==
  /\ teardown = "process" /\ prTask = "dead"
  /\ prTask' = "none" /\ teardown' = "done"
  /\ UNCHANGED <<queues, done, inTask, inFrame, cur, inGate, prGate, watch, cancelling>>
-----------------------------------------------------------------------------
InputTaskStep ==
  \/ InputGet \/ InputWake \/ HandleStart \/ HandleInterruption \/ HandleCancel
  \/ HandleOtherSystem \/ ProcessStopped \/ InputDone \/ InputDies

ProcessTaskStep ==
  \/ ProcessStart \/ ProcessGet \/ ProcessWake \/ ProcessHandle \/ ProcessDone
  \/ ProcessDies

CleanupStep == CleanupWatcher \/ CleanupInput \/ CleanupProcess

UserStep ==
  \/ UserPause \/ UserResume \/ Broadcast
  \/ PauseUntil \/ PauseUntilAgain \/ Cleanup

Next ==
  \/ \E f \in Frame : QueueFrame(f)
  \/ InputTaskStep \/ ProcessTaskStep \/ CleanupStep \/ UserStep
  \/ PauseUntilReplace \/ WatcherFires

\* The loop runs every task that can run, the code under process_frame returns (however
\* often it pauses anew, hence SF), and the watcher's timeout elapses. Nobody has to queue
\* a frame or call a method.
Fairness ==
  /\ WF_vars(InputTaskStep) /\ SF_vars(InputDone)
  /\ WF_vars(ProcessTaskStep) /\ SF_vars(ProcessDone)
  /\ WF_vars(CleanupStep)
  /\ WF_vars(PauseUntilReplace)
  /\ WF_vars(WatcherFires)

Spec == Init /\ [][Next]_vars /\ Fairness
-----------------------------------------------------------------------------
(***************************************************************************)
(* What the processor promises                                             *)
(***************************************************************************)
Stopping == cancelling \/ teardown # "no"

InputHas(f)   == f = inFrame /\ inTask # "idle"
ProcessHas(f) == f = cur /\ prTask \in Working

\* "They remain in internal queues and any task processing them will not be
\* cancelled": an uninterruptible frame that was queued is, until the processor is
\* cancelled or torn down, in a queue, in a task's hand or handled. The threats are
\* interruptions, resets by broadcast_interruption and cancelled process tasks.
MustNotLost ==
  ~Stopping => \A f \in Must :
    arrived[f] > 0 => f \in inq \/ InputHas(f) \/ f \in pq \/ ProcessHas(f) \/ f \in done

\* "A processor never acts on a frame before it has been started": whatever is queued
\* first, no task takes another frame until the StartFrame is in the subclass's hands.
StartFirst ==
  \A f \in Frame :
    KindOf[f] # "start" /\ (f \in done \/ InputHas(f) \/ f \in pq \/ ProcessHas(f))
      => \E s \in Frame : KindOf[s] = "start" /\ (s \in done \/ s = inFrame)

\* When _start_interruption is over nothing interruptible is left in the process queue
\* or in a live process task, even if an uninterruptible frame is queued or running.
InterruptionSettles ==
  inTask = "user" /\ KindOf[inFrame] = "interruption"
    => pq \subseteq Must /\ (prTask \in Working => cur \in Must)

\* cleanup() leaves neither of the two tasks running, whatever it interrupted: a task that
\* was waiting for another, a pause, a replacement of the process task. It leaves a watcher
\* only if a call of pause_processing_all_frames_until, from a task that cleanup() does not
\* cancel or has not cancelled yet, started it when cleanup() had dealt with the watcher.
CleanupStopsTasks ==
  teardown = "done" =>
    inTask = "none" /\ prTask = "none" /\ (watcher # "none" => late)

\* "Frames of the same tier keep their arrival order", through both queues and across
\* interruptions and pauses: a task that takes a frame leaves none of its tier that
\* came earlier in a queue or in the other task's hand.
Waits(f) == f \in inq \/ f \in pq \/ (f = inFrame /\ f \notin System)
ArrivalOrder ==
  [][\A f \in Frame :
       (f = cur' /\ f # cur) \/ (f = inFrame' /\ f # inFrame /\ f \in System)
         => \A g \in Frame \ {f} :
              Tier(g) = Tier(f) /\ arrived[g] \in 1 .. arrived[f] => ~Waits(g)]_vars

\* FrameDelivery says what all of this is for. A frame is taken from the moment a task has
\* it in hand, even if a pause holds it there; a data frame that the input task holds has
\* still to go through the other queue.
Taken(f) ==
  \/ f = inFrame /\ f \in System /\ inTask \in {"held", "entered", "cancelling", "user"}
  \/ ProcessHas(f)
Waiting(f) ==
  f \in inq \/ f \in pq \/ (f = inFrame /\ f \notin System /\ inTask = "held")

Fate(f) ==
  IF arrived[f] = 0 THEN "new"
  ELSE IF f \in done THEN "handled"
  ELSE IF Taken(f) THEN "taken"
  ELSE IF Waiting(f) THEN "waiting"
  ELSE "lost"

Starts     == {f \in Frame : KindOf[f] = "start"}
Interrupts == {f \in Frame : KindOf[f] = "interruption"}
Rank       == [f \in Frame |-> Tier(f)]

Delivery == INSTANCE FrameDelivery
  WITH Broadcasts <- "broadcast" \in Ops,
       count      <- inCount,
       number     <- arrived,
       status     <- [f \in Frame |-> Fate(f)],
       stopping   <- Stopping

\* Whatever the two tasks, the pauses and the interruptions do to each other, a frame is
\* taken once and in order, and lost only to an interruption that came after it.
ImplementsDelivery == Delivery!Spec

\* The two ways in which a task stays held for good: broadcast_interruption replaces the
\* event that the process task waits on (prStale); and the task that was replacing the
\* watcher of a pause is cancelled in between, so that nobody watches the pause.
Unwatched ==
  /\ (inTask = "held" /\ ~inWoken) \/ (prTask = "held" /\ ~prWoken)
  /\ watcher = "none" /\ until = "idle" /\ teardown = "no"
Latched == (prTask = "held" /\ prStale) \/ Unwatched

\* "This ensures the frame is always delivered and processed to completion": after the
\* StartFrame, whatever interrupts, unless the processor is cancelled or torn down, or a
\* timed pause is latched.
MustHandled ==
  \A f \in Must, s \in Frame :
    arrived[f] > 0 /\ KindOf[s] = "start" /\ arrived[s] > 0
      ~> f \in done \/ Stopping \/ Latched

\* "The pause is therefore always lifted: when ready resolves, when timeout elapses,
\* or at teardown": a task held by a pause does not stay held, unless in one of the two
\* ways above. The second is open to the input task, too.
PauseAlwaysLifted ==
  /\ inTask = "held" ~> inTask # "held" \/ Unwatched
  /\ prTask = "held" ~> prTask # "held" \/ Latched

\* The same as the comment words it, without exception.
LiftedAsPromised ==
  /\ inTask = "held" ~> inTask # "held"
  /\ prTask = "held" ~> prTask # "held"

\* cleanup() ends, also when it finds the input task waiting for the process task, and so
\* does in time a watcher that was started behind its back.
CleanupEnds ==
  teardown # "no" ~> teardown = "done" /\ until = "idle" /\ watcher # "watching"

\* "If we are cancelling we don't want to process any other frame."
NothingAfterCancel ==
  [][cancelling => \A f \in Frame \ System : f \in done' => f \in done]_vars
=============================================================================
