------------------------ MODULE FrameProcessorProofs ------------------------
(***************************************************************************)
(* Proofs about FrameProcessor, for any set of frames of any kinds and any *)
(* set of user operations. Inv is inductive: Hands makes the types so,     *)
(* StartKnown is what StartFirst rests on, CleanupOrder what               *)
(* CleanupStopsTasks rests on, and Ordered what ArrivalOrder rests on;     *)
(* MustNotLost and InterruptionSettles need the types only. The last part  *)
(* proves, step by step, that the processor implements FrameDelivery; the  *)
(* invariant it needs on top of Inv is Steady: where a frame can be, which *)
(* frames came before which, and that a process task is there.             *)
(***************************************************************************)
EXTENDS FrameProcessor, TLAPS

\* A task that handles a frame has one in hand; an input task that waits for the queue
\* has none.
Hands ==
  /\ inTask \in {"held", "entered", "cancelling", "user"} => inFrame \in Frame
  /\ prTask \in Working => cur \in Frame
  /\ inTask = "idle" => inFrame = NoFrame
  /\ inTask = "none" /\ teardown = "no" => inFrame = NoFrame

Typed == QueuesOK /\ TasksOK /\ Hands

\* An input task exists only because a StartFrame was queued, and the frame is still
\* ahead of the others, in hand or handled.
StartKnown ==
  inTask # "none" =>
    \E s \in Frame : KindOf[s] = "start" /\ (s \in inq \/ s = inFrame \/ s \in done)

\* Each stage of cleanup() leaves behind it what the next one relies on.
CleanupOrder ==
  /\ teardown # "no" /\ watcher # "none" => late
  /\ teardown = "input" => inTask \in {"none", "dying", "dead"}
  /\ teardown \in {"process", "done"} => inTask = "none"
  /\ teardown = "done" => prTask = "none"

\* The numbers given out are distinct and not ahead of their counters; the process queue
\* is in order of arrival, and ahead of every frame that has still to join it.
Numbered ==
  /\ \A f \in Frame : arrived[f] <= inCount /\ place[f] <= prCount
  /\ \A f \in Frame : f \in inq \/ f \in pq \/ f = inFrame => arrived[f] > 0
  /\ \A f, g \in Frame : arrived[f] = arrived[g] /\ arrived[f] > 0 => f = g
Ordered ==
  /\ \A f \in pq : f \notin System
  /\ \A f, g \in pq : arrived[f] < arrived[g] => place[f] < place[g]
  /\ \A f \in pq, g \in Frame \ System :
       g \in inq \/ g = inFrame => arrived[f] < arrived[g]
  /\ \A f \in Frame, g \in inq :
       f = inFrame /\ Tier(f) = Tier(g) => arrived[f] < arrived[g]

Inv == /\ Typed /\ GatesOK
       /\ MustNotLost
       /\ StartKnown /\ StartFirst
       /\ InterruptionSettles
       /\ CleanupOrder
       /\ Numbered /\ Ordered
-----------------------------------------------------------------------------
\* System frames, the StartFrame ahead of them, are ahead of the others.
LEMMA SystemTier ==
  \A f \in Frame : /\ f \in System <=> Tier(f) # 20
                   /\ KindOf[f] = "start" <=> Tier(f) = 1
                   /\ Tier(f) \in {1, 10, 20}
BY DEF System, SystemKind, Tier

\* The gates are flags and events at the start.
LEMMA GatesInit == Init => GatesOK
BY DEF Init, GatesOK, Event

\* The flags and events of the two gates stay flags and events.
LEMMA GatesStep == GatesOK /\ [Next]_vars => GatesOK'
<1> USE DEF GatesOK, Event, vars, inGate, prGate, watch, ending,
            PauseSystem, PauseFrames, ResumeSystem, ResumeFrames, Lift, Repause, ResetProcess
<1> SUFFICES ASSUME GatesOK, [Next]_vars PROVE GatesOK'
  OBVIOUS
<1>1. ASSUME NEW f \in Frame, QueueFrame(f) PROVE GatesOK'
  BY <1>1 DEF QueueFrame
<1>2. CASE InputTaskStep
  <2>1. CASE InputGet
    <3>1. PICK f \in Frame :
            /\ IF blockSystem /\ inEvent = "clear"
               THEN inWoken' = FALSE /\ UNCHANGED <<blockSystem, inEvent>>
               ELSE /\ inEvent' = IF blockSystem THEN "clear" ELSE inEvent
                    /\ blockSystem' = FALSE /\ UNCHANGED inWoken
            /\ UNCHANGED <<prGate, watch, ending>>
      BY <2>1 DEF InputGet
    <3> QED
      BY <3>1
  <2>2. CASE InputWake
    BY <2>2 DEF InputWake
  <2>3. CASE HandleStart
    BY <2>3 DEF HandleStart
  <2>4. CASE HandleInterruption
    BY <2>4 DEF HandleInterruption
  <2>5. CASE HandleCancel \/ HandleOtherSystem \/ ProcessStopped
    BY <2>5 DEF HandleCancel, HandleOtherSystem, ProcessStopped
  <2>6. CASE InputDone \/ InputDies
    BY <2>6 DEF InputDone, InputDies, Abandon
  <2> QED
    BY <1>2, <2>1, <2>2, <2>3, <2>4, <2>5, <2>6 DEF InputTaskStep
<1>3. CASE ProcessTaskStep
  BY <1>3 DEF ProcessTaskStep, ProcessStart, ProcessGet, ProcessWake, ProcessHandle, ProcessDone,
     ProcessDies, Abandon
<1>4. CASE CleanupStep
  BY <1>4 DEF CleanupStep, CleanupWatcher, CleanupInput, CleanupProcess
<1>5. CASE UserStep
  <2>1. CASE UserPause \/ UserResume \/ Broadcast
    BY <2>1 DEF UserPause, UserResume, Broadcast
  <2>2. CASE PauseUntil
    BY <2>2 DEF PauseUntil, Watch
  <2>3. CASE PauseUntilAgain
    BY <2>3 DEF PauseUntilAgain
  <2>4. CASE Cleanup
    <3>1. late' = late /\ cancelling' = cancelling
      BY <2>4 DEF Cleanup
    <3>2. Lift \/ UNCHANGED <<inGate, prGate>>
      BY <2>4 DEF Cleanup
    <3>3. CASE Lift
      BY <3>1, <3>3
    <3>4. CASE UNCHANGED <<inGate, prGate>>
      BY <3>1, <3>4
    <3> QED
      BY <3>2, <3>3, <3>4
  <2> QED
    BY <1>5, <2>1, <2>2, <2>3, <2>4 DEF UserStep
<1>6. CASE PauseUntilReplace \/ WatcherFires \/ UNCHANGED vars
  BY <1>6 DEF PauseUntilReplace, Watch, WatcherFires
<1> QED
  BY <1>1, <1>2, <1>3, <1>4, <1>5, <1>6 DEF Next
-----------------------------------------------------------------------------
\* The frames are frames at the start.
LEMMA TypedInit == Init => Typed
BY FrameAssumption DEF Init, Typed, QueuesOK, TasksOK, Hands, InTask, PrTask, Working

\* Frames stay frames, and the tasks hold what they should.
LEMMA TypedStep ==
  Typed /\ [Next]_vars => Typed'
<1> SUFFICES ASSUME Typed, [Next]_vars PROVE Typed'
  OBVIOUS
<1> USE FrameAssumption DEF Typed, QueuesOK, TasksOK, Hands, InTask, PrTask, Working,
        vars, queues, tasks, inGate, prGate, watch, ending, Must, Kept
<1>1. ASSUME NEW f \in Frame, QueueFrame(f) PROVE Typed'
  BY <1>1 DEF QueueFrame
<1>2. CASE InputGet
  BY <1>2 DEF InputGet, Dispatch, InputHead
<1>3. CASE InputWake
  BY <1>3 DEF InputWake, Dispatch
<1>4. CASE HandleStart
  BY <1>4 DEF HandleStart, ResetProcess
<1>5. CASE HandleInterruption
  BY <1>5 DEF HandleInterruption, ResetProcess, StopProcess, CurrentIsUninterruptible
<1>6. CASE HandleCancel
  BY <1>6 DEF HandleCancel, StopProcess
<1>7. CASE ProcessStopped
  BY <1>7 DEF ProcessStopped, ResetProcess
<1>8. CASE HandleOtherSystem
  BY <1>8 DEF HandleOtherSystem
<1>9. CASE InputDone
  BY <1>9 DEF InputDone
<1>10. CASE ProcessStart
  BY <1>10 DEF ProcessStart
<1>11. CASE ProcessGet
  BY <1>11 DEF ProcessGet, ProcessHead
<1>12. CASE ProcessWake
  BY <1>12 DEF ProcessWake
<1>13. CASE ProcessHandle
  BY <1>13 DEF ProcessHandle
<1>14. CASE ProcessDone
  BY <1>14 DEF ProcessDone
<1>15. CASE ProcessDies
  BY <1>15 DEF ProcessDies, Abandon
<1>16. CASE Broadcast
  BY <1>16 DEF Broadcast, ResetProcess
<1>17. CASE Cleanup
  BY <1>17 DEF Cleanup, StopInput, Running
<1>18. CASE CleanupWatcher
  BY <1>18 DEF CleanupWatcher, StopInput
<1>19. CASE CleanupInput
  BY <1>19 DEF CleanupInput, StopProcess
<1>20. CASE UserPause \/ UserResume \/ PauseUntil \/ PauseUntilAgain \/ PauseUntilReplace
  BY <1>20 DEF UserPause, UserResume, PauseUntil, PauseUntilAgain, PauseUntilReplace, Watch
<1>21. CASE WatcherFires \/ InputDies \/ CleanupProcess \/ UNCHANGED vars
  BY <1>21 DEF WatcherFires, InputDies, Abandon, CleanupProcess
<1> QED
  BY <1>1, <1>2, <1>3, <1>4, <1>5, <1>6, <1>7, <1>8, <1>9, <1>10, <1>11, <1>12, <1>13,
     <1>14, <1>15, <1>16, <1>17, <1>18, <1>19, <1>20, <1>21
  DEF Next, InputTaskStep, ProcessTaskStep, CleanupStep, UserStep

\* No uninterruptible frame is lost: each step only moves it on.
LEMMA MustNotLostStep ==
  Typed /\ MustNotLost /\ [Next]_vars => MustNotLost'
<1> SUFFICES ASSUME Typed, MustNotLost, [Next]_vars PROVE MustNotLost'
  OBVIOUS
<1> USE FrameAssumption DEF Typed, QueuesOK, TasksOK, Hands, InTask, PrTask, Working,
        vars, queues, tasks, inGate, prGate, watch, ending, Must, System, SystemKind, Kept,
        MustNotLost, Stopping, InputHas, ProcessHas
<1>1. ASSUME NEW f \in Frame, QueueFrame(f) PROVE MustNotLost'
  BY <1>1 DEF QueueFrame
<1>2. CASE InputGet
  BY <1>2 DEF InputGet, Dispatch, InputHead
<1>3. CASE InputWake
  BY <1>3 DEF InputWake, Dispatch
<1>4. CASE HandleStart
  BY <1>4 DEF HandleStart, ResetProcess
<1>5. CASE HandleInterruption
  BY <1>5 DEF HandleInterruption, ResetProcess, StopProcess, CurrentIsUninterruptible
<1>6. CASE HandleCancel
  BY <1>6 DEF HandleCancel, StopProcess
<1>7. CASE ProcessStopped
  BY <1>7 DEF ProcessStopped, ResetProcess
<1>8. CASE HandleOtherSystem
  BY <1>8 DEF HandleOtherSystem
<1>9. CASE InputDone
  BY <1>9 DEF InputDone
<1>10. CASE ProcessStart
  BY <1>10 DEF ProcessStart
<1>11. CASE ProcessGet
  BY <1>11 DEF ProcessGet, ProcessHead
<1>12. CASE ProcessWake
  BY <1>12 DEF ProcessWake
<1>13. CASE ProcessHandle
  BY <1>13 DEF ProcessHandle
<1>14. CASE ProcessDone
  BY <1>14 DEF ProcessDone
<1>15. CASE ProcessDies
  BY <1>15 DEF ProcessDies, Abandon
<1>16. CASE Broadcast
  BY <1>16 DEF Broadcast, ResetProcess
<1>17. CASE Cleanup
  BY <1>17 DEF Cleanup, StopInput, Running
<1>18. CASE CleanupWatcher
  BY <1>18 DEF CleanupWatcher, StopInput
<1>19. CASE CleanupInput
  BY <1>19 DEF CleanupInput, StopProcess
<1>20. CASE UserPause \/ UserResume \/ PauseUntil \/ PauseUntilAgain \/ PauseUntilReplace
  BY <1>20 DEF UserPause, UserResume, PauseUntil, PauseUntilAgain, PauseUntilReplace, Watch
<1>21. CASE WatcherFires \/ InputDies \/ CleanupProcess \/ UNCHANGED vars
  BY <1>21 DEF WatcherFires, InputDies, Abandon, CleanupProcess
<1> QED
  BY <1>1, <1>2, <1>3, <1>4, <1>5, <1>6, <1>7, <1>8, <1>9, <1>10, <1>11, <1>12, <1>13,
     <1>14, <1>15, <1>16, <1>17, <1>18, <1>19, <1>20, <1>21
  DEF Next, InputTaskStep, ProcessTaskStep, CleanupStep, UserStep

\* While the input task is past _start_interruption nothing joins the process queue.
LEMMA InterruptionSettlesStep ==
  Typed /\ InterruptionSettles /\ [Next]_vars => InterruptionSettles'
<1> SUFFICES ASSUME Typed, InterruptionSettles, [Next]_vars PROVE InterruptionSettles'
  OBVIOUS
<1> USE FrameAssumption DEF Typed, QueuesOK, TasksOK, Hands, InTask, PrTask, Working,
        vars, queues, tasks, inGate, prGate, watch, ending, Must, System, SystemKind, Kept,
        InterruptionSettles
<1>1. ASSUME NEW f \in Frame, QueueFrame(f) PROVE InterruptionSettles'
  BY <1>1 DEF QueueFrame
<1>2. CASE InputGet
  BY <1>2 DEF InputGet, Dispatch, InputHead
<1>3. CASE InputWake
  BY <1>3 DEF InputWake, Dispatch
<1>4. CASE HandleStart
  BY <1>4 DEF HandleStart, ResetProcess
<1>5. CASE HandleInterruption
  BY <1>5 DEF HandleInterruption, ResetProcess, StopProcess, CurrentIsUninterruptible
<1>6. CASE HandleCancel
  BY <1>6 DEF HandleCancel, StopProcess
<1>7. CASE ProcessStopped
  BY <1>7 DEF ProcessStopped, ResetProcess
<1>8. CASE HandleOtherSystem
  BY <1>8 DEF HandleOtherSystem
<1>9. CASE InputDone
  BY <1>9 DEF InputDone
<1>10. CASE ProcessStart
  BY <1>10 DEF ProcessStart
<1>11. CASE ProcessGet
  BY <1>11 DEF ProcessGet, ProcessHead
<1>12. CASE ProcessWake
  BY <1>12 DEF ProcessWake
<1>13. CASE ProcessHandle
  BY <1>13 DEF ProcessHandle
<1>14. CASE ProcessDone
  BY <1>14 DEF ProcessDone
<1>15. CASE ProcessDies
  BY <1>15 DEF ProcessDies, Abandon
<1>16. CASE Broadcast
  BY <1>16 DEF Broadcast, ResetProcess
<1>17. CASE Cleanup
  BY <1>17 DEF Cleanup, StopInput, Running
<1>18. CASE CleanupWatcher
  BY <1>18 DEF CleanupWatcher, StopInput
<1>19. CASE CleanupInput
  BY <1>19 DEF CleanupInput, StopProcess
<1>20. CASE UserPause \/ UserResume \/ PauseUntil \/ PauseUntilAgain \/ PauseUntilReplace
  BY <1>20 DEF UserPause, UserResume, PauseUntil, PauseUntilAgain, PauseUntilReplace, Watch
<1>21. CASE WatcherFires \/ InputDies \/ CleanupProcess \/ UNCHANGED vars
  BY <1>21 DEF WatcherFires, InputDies, Abandon, CleanupProcess
<1> QED
  BY <1>1, <1>2, <1>3, <1>4, <1>5, <1>6, <1>7, <1>8, <1>9, <1>10, <1>11, <1>12, <1>13,
     <1>14, <1>15, <1>16, <1>17, <1>18, <1>19, <1>20, <1>21
  DEF Next, InputTaskStep, ProcessTaskStep, CleanupStep, UserStep

\* Nothing restarts what cleanup() has stopped.
LEMMA CleanupOrderStep ==
  Typed /\ CleanupOrder /\ [Next]_vars => CleanupOrder'
<1> SUFFICES ASSUME Typed, CleanupOrder, [Next]_vars PROVE CleanupOrder'
  OBVIOUS
<1> USE FrameAssumption DEF Typed, QueuesOK, TasksOK, Hands, InTask, PrTask, Working,
        vars, queues, tasks, inGate, prGate, watch, ending, CleanupOrder, Running
<1>1. ASSUME NEW f \in Frame, QueueFrame(f) PROVE CleanupOrder'
  BY <1>1 DEF QueueFrame
<1>2. CASE InputGet
  BY <1>2 DEF InputGet, Dispatch, InputHead
<1>3. CASE InputWake
  BY <1>3 DEF InputWake, Dispatch
<1>4. CASE HandleStart
  BY <1>4 DEF HandleStart, ResetProcess
<1>5. CASE HandleInterruption
  BY <1>5 DEF HandleInterruption, ResetProcess, StopProcess, CurrentIsUninterruptible
<1>6. CASE HandleCancel
  BY <1>6 DEF HandleCancel, StopProcess
<1>7. CASE ProcessStopped
  BY <1>7 DEF ProcessStopped, ResetProcess
<1>8. CASE HandleOtherSystem
  BY <1>8 DEF HandleOtherSystem
<1>9. CASE InputDone
  BY <1>9 DEF InputDone
<1>10. CASE ProcessStart
  BY <1>10 DEF ProcessStart
<1>11. CASE ProcessGet
  BY <1>11 DEF ProcessGet, ProcessHead
<1>12. CASE ProcessWake
  BY <1>12 DEF ProcessWake
<1>13. CASE ProcessHandle
  BY <1>13 DEF ProcessHandle
<1>14. CASE ProcessDone
  BY <1>14 DEF ProcessDone
<1>15. CASE ProcessDies
  BY <1>15 DEF ProcessDies, Abandon
<1>16. CASE Broadcast
  BY <1>16 DEF Broadcast, ResetProcess
<1>17. CASE Cleanup
  BY <1>17 DEF Cleanup, StopInput, Running
<1>18. CASE CleanupWatcher
  BY <1>18 DEF CleanupWatcher, StopInput
<1>19. CASE CleanupInput
  BY <1>19 DEF CleanupInput, StopProcess
<1>20. CASE UserPause \/ UserResume \/ PauseUntil \/ PauseUntilAgain \/ PauseUntilReplace
  BY <1>20 DEF UserPause, UserResume, PauseUntil, PauseUntilAgain, PauseUntilReplace, Watch
<1>21. CASE WatcherFires \/ InputDies \/ CleanupProcess \/ UNCHANGED vars
  BY <1>21 DEF WatcherFires, InputDies, Abandon, CleanupProcess
<1> QED
  BY <1>1, <1>2, <1>3, <1>4, <1>5, <1>6, <1>7, <1>8, <1>9, <1>10, <1>11, <1>12, <1>13,
     <1>14, <1>15, <1>16, <1>17, <1>18, <1>19, <1>20, <1>21
  DEF Next, InputTaskStep, ProcessTaskStep, CleanupStep, UserStep

\* The StartFrame is never forgotten.
LEMMA StartKnownStep ==
  Typed /\ StartKnown /\ [Next]_vars => StartKnown'
<1> SUFFICES ASSUME Typed, StartKnown, [Next]_vars PROVE StartKnown'
  OBVIOUS
<1> USE FrameAssumption DEF Typed, QueuesOK, TasksOK, Hands, InTask, PrTask, Working,
        vars, queues, tasks, inGate, prGate, watch, ending, StartKnown, System, SystemKind
<1>1. ASSUME NEW f \in Frame, QueueFrame(f) PROVE StartKnown'
  BY <1>1 DEF QueueFrame
<1>2. CASE InputGet
  BY <1>2 DEF InputGet, Dispatch, InputHead
<1>3. CASE InputWake
  BY <1>3 DEF InputWake, Dispatch
<1>4. CASE HandleStart
  BY <1>4 DEF HandleStart, ResetProcess
<1>5. CASE HandleInterruption
  BY <1>5 DEF HandleInterruption, ResetProcess, StopProcess, CurrentIsUninterruptible
<1>6. CASE HandleCancel
  BY <1>6 DEF HandleCancel, StopProcess
<1>7. CASE ProcessStopped
  BY <1>7 DEF ProcessStopped, ResetProcess
<1>8. CASE HandleOtherSystem
  BY <1>8 DEF HandleOtherSystem
<1>9. CASE InputDone
  BY <1>9 DEF InputDone
<1>10. CASE ProcessStart
  BY <1>10 DEF ProcessStart
<1>11. CASE ProcessGet
  BY <1>11 DEF ProcessGet, ProcessHead
<1>12. CASE ProcessWake
  BY <1>12 DEF ProcessWake
<1>13. CASE ProcessHandle
  BY <1>13 DEF ProcessHandle
<1>14. CASE ProcessDone
  BY <1>14 DEF ProcessDone
<1>15. CASE ProcessDies
  BY <1>15 DEF ProcessDies, Abandon
<1>16. CASE Broadcast
  BY <1>16 DEF Broadcast, ResetProcess
<1>17. CASE Cleanup
  BY <1>17 DEF Cleanup, StopInput, Running
<1>18. CASE CleanupWatcher
  BY <1>18 DEF CleanupWatcher, StopInput
<1>19. CASE CleanupInput
  BY <1>19 DEF CleanupInput, StopProcess
<1>20. CASE UserPause \/ UserResume \/ PauseUntil \/ PauseUntilAgain \/ PauseUntilReplace
  BY <1>20 DEF UserPause, UserResume, PauseUntil, PauseUntilAgain, PauseUntilReplace, Watch
<1>21. CASE WatcherFires \/ InputDies \/ CleanupProcess \/ UNCHANGED vars
  BY <1>21 DEF WatcherFires, InputDies, Abandon, CleanupProcess
<1> QED
  BY <1>1, <1>2, <1>3, <1>4, <1>5, <1>6, <1>7, <1>8, <1>9, <1>10, <1>11, <1>12, <1>13,
     <1>14, <1>15, <1>16, <1>17, <1>18, <1>19, <1>20, <1>21
  DEF Next, InputTaskStep, ProcessTaskStep, CleanupStep, UserStep

\* No frame gets ahead of the StartFrame.
LEMMA StartFirstStep ==
  Typed /\ StartKnown /\ StartFirst /\ [Next]_vars => StartFirst'
<1> SUFFICES ASSUME Typed, StartKnown, StartFirst, [Next]_vars PROVE StartFirst'
  OBVIOUS
<1> USE FrameAssumption, SystemTier DEF Typed, QueuesOK, TasksOK, Hands, InTask, PrTask, Working,
        vars, queues, tasks, inGate, prGate, watch, ending, StartKnown, StartFirst, InputHas, ProcessHas, Kept, Before
<1>1. ASSUME NEW f \in Frame, QueueFrame(f) PROVE StartFirst'
  BY <1>1 DEF QueueFrame
<1>2. CASE InputGet
  BY <1>2 DEF InputGet, Dispatch, InputHead
<1>3. CASE InputWake
  BY <1>3 DEF InputWake, Dispatch
<1>4. CASE HandleStart
  BY <1>4 DEF HandleStart, ResetProcess
<1>5. CASE HandleInterruption
  BY <1>5 DEF HandleInterruption, ResetProcess, StopProcess, CurrentIsUninterruptible
<1>6. CASE HandleCancel
  BY <1>6 DEF HandleCancel, StopProcess
<1>7. CASE ProcessStopped
  BY <1>7 DEF ProcessStopped, ResetProcess
<1>8. CASE HandleOtherSystem
  BY <1>8 DEF HandleOtherSystem
<1>9. CASE InputDone
  BY <1>9 DEF InputDone
<1>10. CASE ProcessStart
  BY <1>10 DEF ProcessStart
<1>11. CASE ProcessGet
  BY <1>11 DEF ProcessGet, ProcessHead
<1>12. CASE ProcessWake
  BY <1>12 DEF ProcessWake
<1>13. CASE ProcessHandle
  BY <1>13 DEF ProcessHandle
<1>14. CASE ProcessDone
  BY <1>14 DEF ProcessDone
<1>15. CASE ProcessDies
  BY <1>15 DEF ProcessDies, Abandon
<1>16. CASE Broadcast
  BY <1>16 DEF Broadcast, ResetProcess
<1>17. CASE Cleanup
  BY <1>17 DEF Cleanup, StopInput, Running
<1>18. CASE CleanupWatcher
  BY <1>18 DEF CleanupWatcher, StopInput
<1>19. CASE CleanupInput
  BY <1>19 DEF CleanupInput, StopProcess
<1>20. CASE UserPause \/ UserResume \/ PauseUntil \/ PauseUntilAgain \/ PauseUntilReplace
  BY <1>20 DEF UserPause, UserResume, PauseUntil, PauseUntilAgain, PauseUntilReplace, Watch
<1>21. CASE WatcherFires \/ InputDies \/ CleanupProcess \/ UNCHANGED vars
  BY <1>21 DEF WatcherFires, InputDies, Abandon, CleanupProcess
<1> QED
  BY <1>1, <1>2, <1>3, <1>4, <1>5, <1>6, <1>7, <1>8, <1>9, <1>10, <1>11, <1>12, <1>13,
     <1>14, <1>15, <1>16, <1>17, <1>18, <1>19, <1>20, <1>21
  DEF Next, InputTaskStep, ProcessTaskStep, CleanupStep, UserStep

\* Each frame gets a number of its own.
LEMMA NumberedStep ==
  Typed /\ Numbered /\ [Next]_vars => Numbered'
<1> SUFFICES ASSUME Typed, Numbered, [Next]_vars PROVE Numbered'
  OBVIOUS
<1> USE FrameAssumption DEF Typed, QueuesOK, TasksOK, Hands, InTask, PrTask, Working,
        vars, queues, tasks, inGate, prGate, watch, ending, Numbered, Kept
<1>1. ASSUME NEW f \in Frame, QueueFrame(f) PROVE Numbered'
  BY <1>1 DEF QueueFrame
<1>2. CASE InputGet
  BY <1>2 DEF InputGet, Dispatch, InputHead
<1>3. CASE InputWake
  BY <1>3 DEF InputWake, Dispatch
<1>4. CASE HandleStart
  BY <1>4 DEF HandleStart, ResetProcess
<1>5. CASE HandleInterruption
  BY <1>5 DEF HandleInterruption, ResetProcess, StopProcess, CurrentIsUninterruptible
<1>6. CASE HandleCancel
  BY <1>6 DEF HandleCancel, StopProcess
<1>7. CASE ProcessStopped
  BY <1>7 DEF ProcessStopped, ResetProcess
<1>8. CASE HandleOtherSystem
  BY <1>8 DEF HandleOtherSystem
<1>9. CASE InputDone
  BY <1>9 DEF InputDone
<1>10. CASE ProcessStart
  BY <1>10 DEF ProcessStart
<1>11. CASE ProcessGet
  BY <1>11 DEF ProcessGet, ProcessHead
<1>12. CASE ProcessWake
  BY <1>12 DEF ProcessWake
<1>13. CASE ProcessHandle
  BY <1>13 DEF ProcessHandle
<1>14. CASE ProcessDone
  BY <1>14 DEF ProcessDone
<1>15. CASE ProcessDies
  BY <1>15 DEF ProcessDies, Abandon
<1>16. CASE Broadcast
  BY <1>16 DEF Broadcast, ResetProcess
<1>17. CASE Cleanup
  BY <1>17 DEF Cleanup, StopInput, Running
<1>18. CASE CleanupWatcher
  BY <1>18 DEF CleanupWatcher, StopInput
<1>19. CASE CleanupInput
  BY <1>19 DEF CleanupInput, StopProcess
<1>20. CASE UserPause \/ UserResume \/ PauseUntil \/ PauseUntilAgain \/ PauseUntilReplace
  BY <1>20 DEF UserPause, UserResume, PauseUntil, PauseUntilAgain, PauseUntilReplace, Watch
<1>21. CASE WatcherFires \/ InputDies \/ CleanupProcess \/ UNCHANGED vars
  BY <1>21 DEF WatcherFires, InputDies, Abandon, CleanupProcess
<1> QED
  BY <1>1, <1>2, <1>3, <1>4, <1>5, <1>6, <1>7, <1>8, <1>9, <1>10, <1>11, <1>12, <1>13,
     <1>14, <1>15, <1>16, <1>17, <1>18, <1>19, <1>20, <1>21
  DEF Next, InputTaskStep, ProcessTaskStep, CleanupStep, UserStep

\* The process queue is filled in order of arrival.
LEMMA OrderedStep ==
  Typed /\ Numbered /\ Ordered /\ [Next]_vars => Ordered'
<1> SUFFICES ASSUME Typed, Numbered, Ordered, [Next]_vars PROVE Ordered'
  OBVIOUS
<1> USE FrameAssumption, SystemTier DEF Typed, QueuesOK, TasksOK, Hands, InTask, PrTask, Working,
        vars, queues, tasks, inGate, prGate, watch, ending, Numbered, Ordered, Kept, Before
<1>1. ASSUME NEW f \in Frame, QueueFrame(f) PROVE Ordered'
  BY <1>1 DEF QueueFrame
<1>2. CASE InputGet
  BY <1>2 DEF InputGet, Dispatch, InputHead
<1>3. CASE InputWake
  BY <1>3 DEF InputWake, Dispatch
<1>4. CASE HandleStart
  BY <1>4 DEF HandleStart, ResetProcess
<1>5. CASE HandleInterruption
  BY <1>5 DEF HandleInterruption, ResetProcess, StopProcess, CurrentIsUninterruptible
<1>6. CASE HandleCancel
  BY <1>6 DEF HandleCancel, StopProcess
<1>7. CASE ProcessStopped
  BY <1>7 DEF ProcessStopped, ResetProcess
<1>8. CASE HandleOtherSystem
  BY <1>8 DEF HandleOtherSystem
<1>9. CASE InputDone
  BY <1>9 DEF InputDone
<1>10. CASE ProcessStart
  BY <1>10 DEF ProcessStart
<1>11. CASE ProcessGet
  BY <1>11 DEF ProcessGet, ProcessHead
<1>12. CASE ProcessWake
  BY <1>12 DEF ProcessWake
<1>13. CASE ProcessHandle
  BY <1>13 DEF ProcessHandle
<1>14. CASE ProcessDone
  BY <1>14 DEF ProcessDone
<1>15. CASE ProcessDies
  BY <1>15 DEF ProcessDies, Abandon
<1>16. CASE Broadcast
  BY <1>16 DEF Broadcast, ResetProcess
<1>17. CASE Cleanup
  BY <1>17 DEF Cleanup, StopInput, Running
<1>18. CASE CleanupWatcher
  BY <1>18 DEF CleanupWatcher, StopInput
<1>19. CASE CleanupInput
  BY <1>19 DEF CleanupInput, StopProcess
<1>20. CASE UserPause \/ UserResume \/ PauseUntil \/ PauseUntilAgain \/ PauseUntilReplace
  BY <1>20 DEF UserPause, UserResume, PauseUntil, PauseUntilAgain, PauseUntilReplace, Watch
<1>21. CASE WatcherFires \/ InputDies \/ CleanupProcess \/ UNCHANGED vars
  BY <1>21 DEF WatcherFires, InputDies, Abandon, CleanupProcess
<1> QED
  BY <1>1, <1>2, <1>3, <1>4, <1>5, <1>6, <1>7, <1>8, <1>9, <1>10, <1>11, <1>12, <1>13,
     <1>14, <1>15, <1>16, <1>17, <1>18, <1>19, <1>20, <1>21
  DEF Next, InputTaskStep, ProcessTaskStep, CleanupStep, UserStep

\* A step that takes a frame takes the first of its tier.
LEMMA ArrivalOrderStep ==
  Typed /\ Numbered /\ Ordered /\ [Next]_vars =>
    \A f \in Frame :
      (f = cur' /\ f # cur) \/ (f = inFrame' /\ f # inFrame /\ f \in System)
        => \A g \in Frame \ {f} :
             Tier(g) = Tier(f) /\ arrived[g] \in 1 .. arrived[f] => ~Waits(g)
<1> SUFFICES ASSUME Typed, Numbered, Ordered, [Next]_vars,
                    NEW f \in Frame, NEW g \in Frame \ {f},
                    \/ f = cur' /\ f # cur
                    \/ f = inFrame' /\ f # inFrame /\ f \in System,
                    Tier(g) = Tier(f), arrived[g] \in 1 .. arrived[f]
             PROVE  ~Waits(g)
  OBVIOUS
<1> USE FrameAssumption, SystemTier DEF Typed, QueuesOK, TasksOK, Hands
<1>1. arrived[f] \in Nat /\ arrived[g] \in Nat /\ arrived[g] > 0 /\ arrived[g] <= arrived[f]
  OBVIOUS
<1>2. arrived[g] < arrived[f]
  BY <1>1 DEF Numbered
<1>3. CASE f = cur' /\ f # cur
  <2>1. PICK h \in Frame : prTask = "idle" /\ ProcessHead(h) /\ cur' = h
    BY <1>3 DEF Next, InputTaskStep, ProcessTaskStep, CleanupStep, UserStep, QueueFrame,
       InputGet, InputWake, HandleStart, HandleInterruption, HandleCancel, ProcessStopped,
       HandleOtherSystem, InputDone, ProcessStart, ProcessGet, ProcessWake, ProcessHandle,
       ProcessDone, ProcessDies, Abandon, UserPause, UserResume, Broadcast, PauseUntil,
       PauseUntilAgain, PauseUntilReplace, Watch, WatcherFires, Cleanup, CleanupWatcher, InputDies,
       CleanupInput, CleanupProcess, vars, queues, tasks
  <2>2. f \in pq /\ \A k \in pq \ {f} : place[f] < place[k]
    BY <1>3, <2>1 DEF ProcessHead
  <2>3. g \notin System
    BY <2>2 DEF Ordered
  <2>4. g \notin pq
    BY <1>2, <2>2 DEF Ordered
  <2> QED
    BY <1>2, <2>2, <2>3, <2>4 DEF Ordered, Waits
<1>4. CASE f = inFrame' /\ f # inFrame /\ f \in System
  <2>1. inTask = "idle" /\ InputHead(f)
    BY <1>4 DEF Next, InputTaskStep, ProcessTaskStep, CleanupStep, UserStep, QueueFrame,
       InputGet, InputWake, Dispatch, HandleStart, HandleInterruption, HandleCancel,
       ProcessStopped, HandleOtherSystem, InputDone, ProcessStart, ProcessGet, ProcessWake,
       ProcessHandle, ProcessDone, ProcessDies, Abandon, UserPause, UserResume, Broadcast, PauseUntil,
       PauseUntilAgain, PauseUntilReplace, Watch, WatcherFires, Cleanup, CleanupWatcher, InputDies,
       CleanupInput, CleanupProcess, vars, queues, tasks
  <2>2. g \notin inq
    BY <1>2, <2>1 DEF InputHead, Before
  <2>3. g \in System
    BY <1>4
  <2> QED
    BY <2>1, <2>2, <2>3 DEF Ordered, Waits
<1> QED
  BY <1>3, <1>4
-----------------------------------------------------------------------------
\* The invariant holds at the start.
LEMMA InvInit == Init => Inv
<1> SUFFICES ASSUME Init PROVE Inv
  OBVIOUS
<1>1. Typed /\ GatesOK
  BY TypedInit, GatesInit
<1>2. MustNotLost /\ StartKnown /\ StartFirst
  BY FrameAssumption
  DEF Init, MustNotLost, StartKnown, StartFirst, InputHas, ProcessHas, Working, Must
<1>3. InterruptionSettles /\ CleanupOrder
  BY DEF Init, InterruptionSettles, CleanupOrder
<1>4. Numbered /\ Ordered
  BY FrameAssumption DEF Init, Numbered, Ordered
<1> QED
  BY <1>1, <1>2, <1>3, <1>4 DEF Inv

\* Every step preserves the invariant.
LEMMA InvStep == Inv /\ [Next]_vars => Inv'
BY TypedStep, GatesStep, MustNotLostStep, StartKnownStep, StartFirstStep,
   InterruptionSettlesStep, CleanupOrderStep, NumberedStep, OrderedStep DEF Inv

\* The inductive invariant holds in every state of every behaviour.
THEOREM Invariance == Spec => []Inv
BY InvInit, InvStep, PTL DEF Spec

\* Every field of the processor keeps its type.
THEOREM TypeCorrect == Spec => []TypeOK
<1>1. Inv => TypeOK
  BY DEF Inv, Typed, TypeOK
<1> QED
  BY <1>1, Invariance, PTL

\* An uninterruptible frame that was queued is not lost before the processor is cancelled
\* or torn down, whatever interrupts, pauses or resets it.
THEOREM NothingMustIsLost == Spec => []MustNotLost
<1>1. Inv => MustNotLost
  BY DEF Inv
<1> QED
  BY <1>1, Invariance, PTL

\* No frame is acted upon before the StartFrame.
THEOREM StartComesFirst == Spec => []StartFirst
<1>1. Inv => StartFirst
  BY DEF Inv
<1> QED
  BY <1>1, Invariance, PTL

\* When _start_interruption is over no interruptible frame is queued or being processed.
THEOREM InterruptionsSettle == Spec => []InterruptionSettles
<1>1. Inv => InterruptionSettles
  BY DEF Inv
<1> QED
  BY <1>1, Invariance, PTL

\* When cleanup() is over the input task and the process task have ended and do not come
\* back. A watcher is left only if a call of pause_processing_all_frames_until that was
\* still going on, for instance in its await of the former watcher, started it meanwhile.
THEOREM OnlyLateWatcherOutlivesCleanup == Spec => []CleanupStopsTasks
<1>1. Inv => CleanupStopsTasks
  BY DEF Inv, CleanupOrder, CleanupStopsTasks
<1> QED
  BY <1>1, Invariance, PTL

\* Frames of a tier are taken in the order they arrived, through both queues.
THEOREM TakenInOrder == Spec => ArrivalOrder
<1>1. Inv /\ [Next]_vars =>
        [\A f \in Frame :
           (f = cur' /\ f # cur) \/ (f = inFrame' /\ f # inFrame /\ f \in System)
             => \A g \in Frame \ {f} :
                  Tier(g) = Tier(f) /\ arrived[g] \in 1 .. arrived[f] => ~Waits(g)]_vars
  BY ArrivalOrderStep DEF Inv
<1> QED
  BY <1>1, Invariance, PTL DEF Spec, ArrivalOrder
-----------------------------------------------------------------------------
(***************************************************************************)
(* That the processor implements FrameDelivery                             *)
(***************************************************************************)
\* A frame is in one place only, and is there because it was queued.
Placed ==
  \A f \in Frame :
    /\ f \in inq => f \notin pq /\ f \notin done /\ f # inFrame /\ f # cur
    /\ f \in pq => f \notin done /\ f # inFrame /\ f # cur
    /\ f \in done => f # inFrame /\ f # cur
    /\ f = inFrame => f # cur
    /\ f \in inq \/ f \in pq \/ f \in done \/ f = inFrame \/ f = cur => arrived[f] > 0
    /\ f \in pq \/ f = cur => f \notin System

\* A data frame leaves the input queue only when no system frame is in it: it came before
\* every one that is there now, or in hand.
Passed ==
  \A f \in Frame \ System, g \in System :
    (f \in pq \/ f = cur \/ f = inFrame) /\ (g \in inq \/ g = inFrame)
      => arrived[f] < arrived[g]

\* No frame but a StartFrame leaves the input queue before a StartFrame is handled.
StartHandled ==
  \A f \in Frame :
    KindOf[f] # "start" /\ (f \in pq \/ f \in done \/ f = inFrame \/ f = cur)
      => \E s \in done : KindOf[s] = "start"

\* From then on there is a process task, until the processor is cancelled or torn down.
Begun ==
  ~Stopping =>
    /\ (\E s \in done : KindOf[s] = "start") => prTask # "none"
    /\ inTask = "user" /\ KindOf[inFrame] = "start" => prTask # "none"
    /\ inTask = "cancelling" => KindOf[inFrame] = "interruption"

\* The input task handles system frames only.
HandlesSystem == inTask \in {"entered", "cancelling", "user"} => inFrame \in System

Steady == Placed /\ Passed /\ StartHandled /\ Begun /\ HandlesSystem

\* The steps that move frames, and what the others leave alone.
LEMMA Moves ==
  ASSUME [Next]_vars
  PROVE  \/ \E f \in Frame : QueueFrame(f)
         \/ InputGet \/ InputWake \/ InputDone
         \/ ProcessStart \/ ProcessGet \/ ProcessDone
         \/ pq' \subseteq pq /\ UNCHANGED <<inq, arrived, done, inFrame, cur>>
<1> DEFINE Still == pq' \subseteq pq /\ UNCHANGED <<inq, arrived, done, inFrame, cur>>
<1> USE DEF Still, vars, queues, tasks, Kept, ResetProcess
<1>1. ASSUME HandleStart \/ HandleInterruption \/ HandleCancel \/ HandleOtherSystem
             \/ ProcessStopped \/ InputDies
      PROVE  Still
  BY <1>1 DEF HandleStart, HandleInterruption, HandleCancel, HandleOtherSystem, ProcessStopped,
     InputDies, Abandon
<1>2. ASSUME ProcessWake \/ ProcessHandle \/ ProcessDies \/ CleanupStep PROVE Still
  BY <1>2 DEF ProcessWake, ProcessHandle, ProcessDies, Abandon, CleanupStep, CleanupWatcher,
     CleanupInput,
     CleanupProcess
<1>3. ASSUME UserStep \/ PauseUntilReplace \/ WatcherFires \/ UNCHANGED vars PROVE Still
  BY <1>3 DEF UserStep, UserPause, UserResume, Broadcast, PauseUntil, PauseUntilAgain, Cleanup,
     PauseUntilReplace, Watch, WatcherFires
<1> HIDE DEF Still
<1>4. \/ \E f \in Frame : QueueFrame(f)
      \/ InputGet \/ InputWake \/ InputDone
      \/ ProcessStart \/ ProcessGet \/ ProcessDone
      \/ Still
  BY <1>1, <1>2, <1>3 DEF Next, InputTaskStep, ProcessTaskStep
<1> QED
  BY <1>4 DEF Still

\* A frame that moves leaves the place where it was.
LEMMA PlacedStep ==
  Typed /\ Numbered /\ Placed /\ [Next]_vars => Placed'
<1> SUFFICES ASSUME Typed, Numbered, Placed, [Next]_vars PROVE Placed'
  OBVIOUS
<1> USE FrameAssumption DEF Typed, QueuesOK, TasksOK, Hands, Working, Placed
<1>1. ASSUME NEW f \in Frame, QueueFrame(f) PROVE Placed'
  BY <1>1 DEF QueueFrame
<1>2. CASE InputGet
  BY <1>2 DEF InputGet, Dispatch, InputHead, Numbered
<1>3. CASE InputWake
  BY <1>3 DEF InputWake, Dispatch
<1>4. CASE InputDone
  BY <1>4 DEF InputDone, queues
<1>5. CASE ProcessStart
  BY <1>5 DEF ProcessStart, queues
<1>6. CASE ProcessGet
  BY <1>6 DEF ProcessGet, ProcessHead
<1>7. CASE ProcessDone
  BY <1>7 DEF ProcessDone, queues
<1>8. CASE pq' \subseteq pq /\ UNCHANGED <<inq, arrived, done, inFrame, cur>>
  BY <1>8
<1> QED
  BY <1>1, <1>2, <1>3, <1>4, <1>5, <1>6, <1>7, <1>8, Moves

\* No data frame overtakes a system frame.
LEMMA PassedStep ==
  Typed /\ Numbered /\ Placed /\ Passed /\ [Next]_vars => Passed'
<1> SUFFICES ASSUME Typed, Numbered, Placed, Passed, [Next]_vars PROVE Passed'
  OBVIOUS
<1> USE FrameAssumption DEF Typed, QueuesOK, TasksOK, Hands, Passed
<1> SUFFICES ASSUME NEW f \in Frame \ System, NEW g \in System,
                    f \in pq' \/ f = cur' \/ f = inFrame', g \in inq' \/ g = inFrame'
             PROVE  arrived'[f] < arrived'[g]
  OBVIOUS
<1>0. f \in Frame /\ g \in Frame /\ f # g
  BY DEF System
<1>1. ASSUME NEW h \in Frame, QueueFrame(h) PROVE arrived'[f] < arrived'[g]
  BY <1>0, <1>1 DEF QueueFrame, Placed, Numbered
<1>2. CASE InputGet
  BY <1>0, <1>2, SystemTier DEF InputGet, Dispatch, InputHead, Before
<1>3. CASE InputWake
  BY <1>0, <1>3 DEF InputWake, Dispatch
<1>4. CASE InputDone
  BY <1>0, <1>4 DEF InputDone, queues
<1>5. CASE ProcessStart
  BY <1>0, <1>5 DEF ProcessStart, queues
<1>6. CASE ProcessGet
  BY <1>0, <1>6 DEF ProcessGet, ProcessHead
<1>7. CASE ProcessDone
  BY <1>0, <1>7 DEF ProcessDone, queues
<1>8. CASE pq' \subseteq pq /\ UNCHANGED <<inq, arrived, done, inFrame, cur>>
  BY <1>8
<1> QED
  BY <1>1, <1>2, <1>3, <1>4, <1>5, <1>6, <1>7, <1>8, Moves

\* Nothing goes ahead of the StartFrame, not even in the process queue.
LEMMA StartHandledStep ==
  Typed /\ StartKnown /\ StartHandled /\ [Next]_vars => StartHandled'
<1> SUFFICES ASSUME Typed, StartKnown, StartHandled, [Next]_vars PROVE StartHandled'
  OBVIOUS
<1> USE FrameAssumption DEF Typed, QueuesOK, TasksOK, Hands, StartHandled
<1>1. ASSUME NEW f \in Frame, QueueFrame(f) PROVE StartHandled'
  BY <1>1 DEF QueueFrame
<1>2. CASE InputGet
  BY <1>2, SystemTier DEF InputGet, Dispatch, InputHead, Before, StartKnown
<1>3. CASE InputWake
  BY <1>3, SystemTier DEF InputWake, Dispatch
<1>4. CASE InputDone
  BY <1>4 DEF InputDone, queues
<1>5. CASE ProcessStart
  BY <1>5 DEF ProcessStart, queues
<1>6. CASE ProcessGet
  BY <1>6 DEF ProcessGet, ProcessHead
<1>7. CASE ProcessDone
  BY <1>7 DEF ProcessDone, queues, Working
<1>8. CASE pq' \subseteq pq /\ UNCHANGED <<inq, arrived, done, inFrame, cur>>
  BY <1>8
<1> QED
  BY <1>1, <1>2, <1>3, <1>4, <1>5, <1>6, <1>7, <1>8, Moves

\* Until the processor stops, a process task that was there is replaced, not taken away.
LEMMA BegunStep ==
  Typed /\ Begun /\ [Next]_vars => Begun'
<1> SUFFICES ASSUME Typed, Begun, [Next]_vars, ~Stopping' PROVE Begun'
  BY DEF Begun
<1> USE FrameAssumption DEF Typed, TasksOK, Hands, Working, Begun, Stopping, vars, queues, tasks,
        watch, ending
<1>1. ASSUME NEW f \in Frame, QueueFrame(f) PROVE Begun'
  BY <1>1 DEF QueueFrame
<1>2. CASE InputGet \/ InputWake
  BY <1>2 DEF InputGet, InputWake, Dispatch
<1>3. CASE HandleStart \/ HandleOtherSystem \/ InputDone
  BY <1>3 DEF HandleStart, HandleOtherSystem, InputDone
<1>4. CASE HandleInterruption \/ HandleCancel
  BY <1>4 DEF HandleInterruption, HandleCancel, StopProcess
<1>5. CASE ProcessStopped
  BY <1>5 DEF ProcessStopped
<1>6. CASE ProcessStart \/ ProcessGet \/ ProcessWake
  BY <1>6 DEF ProcessStart, ProcessGet, ProcessWake
<1>7. CASE ProcessHandle \/ ProcessDone \/ ProcessDies
  <2>1. UNCHANGED <<inTask, inFrame, ending>> /\ prTask' # "none"
    BY <1>7 DEF ProcessHandle, ProcessDone, ProcessDies, Abandon
  <2> QED
    BY <2>1
<1>8. CASE UserStep
  BY <1>8 DEF UserStep, UserPause, UserResume, Broadcast, PauseUntil, Watch, PauseUntilAgain, Cleanup
<1>9. CASE CleanupStep
  BY <1>9 DEF CleanupStep, CleanupWatcher, CleanupInput, CleanupProcess
<1>10. CASE PauseUntilReplace \/ WatcherFires \/ InputDies \/ UNCHANGED vars
  BY <1>10 DEF PauseUntilReplace, Watch, WatcherFires, InputDies, Abandon
<1> QED
  BY <1>1, <1>2, <1>3, <1>4, <1>5, <1>6, <1>7, <1>8, <1>9, <1>10
  DEF Next, InputTaskStep, ProcessTaskStep

\* Data frames are passed on, not handled, by the input task.
LEMMA HandlesSystemStep == Typed /\ HandlesSystem /\ [Next]_vars => HandlesSystem'
<1> SUFFICES ASSUME Typed, HandlesSystem, [Next]_vars PROVE HandlesSystem'
  OBVIOUS
<1> USE DEF HandlesSystem
<1>1. ASSUME NEW f \in Frame, QueueFrame(f) PROVE HandlesSystem'
  BY <1>1 DEF QueueFrame
<1>2. CASE InputTaskStep
  BY <1>2 DEF InputTaskStep, InputGet, InputWake, Dispatch, HandleStart, HandleInterruption,
     HandleCancel, ProcessStopped, HandleOtherSystem, InputDone, InputDies, Abandon
<1>3. CASE ProcessTaskStep
  BY <1>3 DEF ProcessTaskStep, ProcessStart, ProcessGet, ProcessWake, ProcessHandle, ProcessDone,
     ProcessDies, Abandon
<1>4. CASE CleanupStep
  BY <1>4 DEF CleanupStep, CleanupWatcher, CleanupInput, CleanupProcess, StopInput
<1>5. CASE UserStep
  BY <1>5 DEF UserStep, UserPause, UserResume, Broadcast, PauseUntil, Watch, PauseUntilAgain, Cleanup,
     StopInput, tasks
<1>6. CASE PauseUntilReplace \/ WatcherFires \/ UNCHANGED vars
  BY <1>6 DEF PauseUntilReplace, Watch, WatcherFires, tasks, vars
<1> QED
  BY <1>1, <1>2, <1>3, <1>4, <1>5, <1>6 DEF Next

\* What the refinement rests on holds in every state.
LEMMA Steadiness == Spec => [](Inv /\ Steady)
<1>1. Init => Inv /\ Steady
  BY InvInit, FrameAssumption DEF Init, Steady, Placed, Passed, StartHandled, Begun,
     HandlesSystem, System
<1>2. Inv /\ Steady /\ [Next]_vars => (Inv /\ Steady)'
  BY InvStep, PlacedStep, PassedStep, StartHandledStep, BegunStep, HandlesSystemStep
  DEF Inv, Steady
<1> QED
  BY <1>1, <1>2, PTL DEF Spec

\* The abstract view of a frame is one of five.
LEMMA FateType == \A f \in Frame : Fate(f) \in {"new", "waiting", "taken", "handled", "lost"}
BY DEF Fate

\* A step that changes no frame's fate leaves the abstract processor alone.
LEMMA Stutters ==
  ASSUME \A f \in Frame : Fate(f)' = Fate(f), UNCHANGED <<inCount, arrived>>,
         Stopping' = Stopping
  PROVE  UNCHANGED Delivery!vars
BY DEF Delivery!vars

\* A step that loses frames, and does no more to them.
LEMMA Loses ==
  ASSUME NEW S,
         \A f \in Frame : Fate(f)' = Fate(f) \/ (f \in S /\ Fate(f)' = "lost")
  PROVE  Delivery!LoseSome(S)
<1>1. \A f \in Frame : Fate(f)' \in Delivery!Status
  BY DEF Fate, Delivery!Status
<1> QED
  BY <1>1 DEF Delivery!LoseSome

\* A stopping processor may lose any frame that it has not handled.
LEMMA Stops ==
  ASSUME Stopping', UNCHANGED <<inCount, arrived>>,
         \A f \in Frame : \/ Fate(f)' = Fate(f)
                          \/ Fate(f) \in {"waiting", "taken"} /\ Fate(f)' = "lost"
  PROVE  Delivery!Stop
<1>1. \A f \in Frame : Fate(f)' = Fate(f) \/ (f \in Delivery!Pending /\ Fate(f)' = "lost")
  BY DEF Delivery!Pending
<1>2. Delivery!Pending \subseteq Frame
  BY DEF Delivery!Pending
<1>3. Delivery!LoseSome(Delivery!Pending)
  BY <1>1, <1>2, Loses
<1>4. Stopping' = TRUE
  BY DEF Stopping
<1> QED
  BY <1>3, <1>4 DEF Delivery!Stop

\* What the process queue and the process task have came before every system frame that has
\* still to be handled.
LEMMA Reaches ==
  ASSUME Inv, Steady, NEW f \in Frame \ Must, f \in pq \/ ProcessHas(f),
         Fate(f) \in {"waiting", "taken"}
  PROVE  f \in Delivery!Reached
<1> USE DEF Inv, Typed, QueuesOK, Steady, Placed
<1>1. f \in pq \/ f = cur
  BY DEF ProcessHas
<1>2. f \notin System
  BY <1>1
<1>3. ASSUME NEW g \in System, Fate(g) \in {"waiting", "taken"}
      PROVE  arrived[f] < arrived[g]
  <2>1. g \in Frame /\ (Taken(g) \/ Waiting(g))
    BY <1>3 DEF Fate, System
  <2>2. g \in inq \/ g = inFrame
    BY <2>1 DEF Taken, Waiting, ProcessHas
  <2> QED
    BY <1>1, <1>2, <2>2 DEF Passed
<1> QED
  BY <1>2, <1>3 DEF Delivery!Reached, Delivery!Pending

\* The interruption in hand loses data frames that came before it.
LEMMA InterruptionLoses ==
  ASSUME Inv, Steady, inTask \in {"entered", "cancelling"}, KindOf[inFrame] = "interruption",
         UNCHANGED <<inCount, arrived>>, Stopping' = Stopping,
         \A f \in Frame : \/ Fate(f)' = Fate(f)
                          \/ /\ f \in pq \/ ProcessHas(f)
                             /\ f \notin Must /\ Fate(f)' = "lost"
  PROVE  \E i \in Frame : KindOf[i] = "interruption" /\ Delivery!Interrupt(i)
<1> USE DEF Inv, Typed, Hands, Steady, Placed, HandlesSystem
<1>1. /\ inFrame \in System /\ inFrame \in Frame /\ inFrame \notin done
      /\ arrived[inFrame] # 0
  BY FrameAssumption DEF QueuesOK
<1>2. Fate(inFrame) = "taken"
  BY <1>1 DEF Fate, Taken
<1>3. ASSUME NEW f \in Frame, f \in pq \/ ProcessHas(f), f \notin Must
      PROVE  f \in Delivery!Reached
  <2>1. f \notin System /\ f \notin done /\ arrived[f] > 0
    BY <1>3 DEF ProcessHas
  <2>2. Fate(f) \in {"waiting", "taken"}
    BY <1>3, <2>1 DEF Fate, Taken, Waiting, QueuesOK
  <2> QED
    BY <1>3, <2>1, <2>2, Reaches
<1>4. Delivery!Reached \subseteq Frame
  BY DEF Delivery!Reached, Delivery!Pending
<1>5. Delivery!LoseSome(Delivery!Reached)
  BY <1>3, <1>4, Loses
<1>6. Delivery!Interrupt(inFrame)
  BY <1>1, <1>2, <1>5 DEF Delivery!Interrupt
<1> QED
  BY <1>1, <1>6

\* A frame that a task takes is the first of its tier, and the task holds no other.
LEMMA Takes ==
  ASSUME Inv, Steady, NEW f \in Frame, Fate(f) = "waiting",
         \A g \in Frame : (f \in System <=> g \in System) => ~Taken(g),
         \A g \in Frame : Tier(g) = Tier(f) /\ arrived[g] < arrived[f] => ~Waiting(g),
         KindOf[f] = "start" \/ \E s \in done : KindOf[s] = "start",
         \A g \in Frame : Fate(g)' = IF g = f THEN "taken" ELSE Fate(g),
         UNCHANGED <<inCount, arrived>>, Stopping' = Stopping
  PROVE  Delivery!Take(f)
<1>1. \A g \in Frame : Delivery!SameTask(f, g) => Fate(g) # "taken"
  BY DEF Delivery!SameTask, Fate
<1>2. \A g \in Frame : Tier(g) = Tier(f) /\ arrived[g] < arrived[f] => Fate(g) # "waiting"
  BY DEF Fate
<1>3. KindOf[f] = "start" \/ \E s \in Frame : KindOf[s] = "start" /\ Fate(s) = "handled"
  BY DEF Inv, Typed, QueuesOK, Steady, Placed, Fate
<1> QED
  BY <1>1, <1>2, <1>3 DEF Delivery!Take, Starts, Rank

\* A frame that neighbours queue is given to the abstract processor.
LEMMA QueueDelivers ==
  ASSUME Inv, Steady, NEW f \in Frame, QueueFrame(f)
  PROVE  Delivery!Give(f)
<1> USE DEF Inv, Typed, QueuesOK, Hands, Steady, Placed, QueueFrame, queues, ending
<1>1. arrived[f] = 0 /\ Fate(f) = "new"
  BY DEF Fate
<1>2. f \notin done /\ f # inFrame /\ f # cur
  BY <1>1
<1>3. Fate(f)' = "waiting"
  BY <1>2 DEF Fate, Taken, Waiting, ProcessHas
<1>4. ASSUME NEW g \in Frame, g # f PROVE Fate(g)' = Fate(g)
  <2>1. arrived'[g] = arrived[g] /\ (g \in inq' <=> g \in inq)
    BY <1>4
  <2>2. /\ UNCHANGED <<done, pq, inFrame, cur, prTask>>
        /\ inTask' = inTask \/ (inTask = "none" /\ inTask' = "idle")
    OBVIOUS
  <2>3. Taken(g)' = Taken(g)
    BY <2>2 DEF Taken, ProcessHas
  <2> QED
    BY <2>1, <2>2, <2>3 DEF Fate, Waiting
<1>5. [g \in Frame |-> Fate(g)]' = [[g \in Frame |-> Fate(g)] EXCEPT ![f] = "waiting"]
  BY <1>3, <1>4
<1>6. Stopping' = Stopping
  BY DEF Stopping
<1> QED
  BY <1>1, <1>5, <1>6 DEF Delivery!Give

\* What the input task takes is taken, unless it is passed on.
LEMMA InputGetDelivers ==
  ASSUME Inv, Steady, InputGet
  PROVE  [Delivery!Next]_(Delivery!vars)
<1> USE DEF Inv, Typed, QueuesOK, Hands, Steady, Placed
<1>1. PICK f \in Frame : /\ inTask = "idle" /\ InputHead(f)
                         /\ inq' = inq \ {f}
                         /\ \/ inTask' = "held" /\ inFrame' = f /\ UNCHANGED pq
                            \/ Dispatch(f)
                         /\ UNCHANGED <<arrived, inCount, done, prTask, cur, ending>>
  BY DEF InputGet
<1>2. f \in inq /\ f \notin done /\ f \notin pq /\ f # cur /\ arrived[f] # 0
      /\ inFrame = NoFrame /\ \A g \in Frame : g # inFrame
  BY <1>1, FrameAssumption DEF InputHead
<1>3. Stopping' = Stopping /\ UNCHANGED <<inCount, arrived>>
  BY <1>1 DEF Stopping, ending
<1>4. Fate(f) = "waiting"
  BY <1>2 DEF Fate, Taken, Waiting, ProcessHas
<1>5. ASSUME NEW g \in Frame, g # f PROVE Fate(g)' = Fate(g)
  <2>1. g # inFrame /\ g # inFrame' /\ (g \in inq' <=> g \in inq) /\ (g \in pq' <=> g \in pq)
    BY <1>1, <1>2, <1>5, FrameAssumption DEF Dispatch
  <2> QED
    BY <1>1, <2>1 DEF Fate, Taken, Waiting, ProcessHas
<1>6. CASE f \notin System
  <2>1. (inTask' = "held" /\ inFrame' = f) \/ f \in pq'
    BY <1>1, <1>6 DEF Dispatch
  <2>2. Fate(f)' = "waiting"
    BY <1>1, <1>2, <1>6, <2>1 DEF Fate, Taken, Waiting, ProcessHas
  <2> QED
    BY <1>3, <1>4, <1>5, <2>2, Stutters
<1>7. CASE f \in System
  <2>1. inTask' \in {"held", "entered"} /\ inFrame' = f
    BY <1>1, <1>7 DEF Dispatch
  <2>2. Fate(f)' = "taken"
    BY <1>1, <1>2, <1>7, <2>1 DEF Fate, Taken
  <2>3. \A g \in Frame : (f \in System <=> g \in System) => ~Taken(g)
    BY <1>2, <1>7 DEF Taken, ProcessHas
  <2>4. ASSUME NEW g \in Frame, Tier(g) = Tier(f), arrived[g] < arrived[f] PROVE ~Waiting(g)
    <3>1. g \notin inq
      BY <1>1, <2>4, SystemTier DEF InputHead, Before
    <3>2. g \notin pq
      BY <1>7, <2>4, SystemTier
    <3> QED
      BY <1>2, <3>1, <3>2 DEF Waiting
  <2>5. KindOf[f] = "start" \/ \E s \in done : KindOf[s] = "start"
    <3> SUFFICES ASSUME KindOf[f] # "start" PROVE \E s \in done : KindOf[s] = "start"
      OBVIOUS
    <3>1. PICK s \in Frame : KindOf[s] = "start" /\ (s \in inq \/ s = inFrame \/ s \in done)
      BY <1>1 DEF StartKnown
    <3>2. s \notin inq
      BY <1>1, <3>1, SystemTier DEF InputHead, Before
    <3> QED
      BY <1>2, <3>1, <3>2
  <2>6. Delivery!Take(f)
    BY <1>3, <1>4, <1>5, <2>2, <2>3, <2>4, <2>5, Takes
  <2> QED
    BY <2>6 DEF Delivery!Next
<1> QED
  BY <1>6, <1>7

\* What the process task takes is taken.
LEMMA ProcessGetDelivers ==
  ASSUME Inv, Steady, ProcessGet
  PROVE  [Delivery!Next]_(Delivery!vars)
<1> USE DEF Inv, Typed, QueuesOK, Hands, Steady, Placed
<1>1. PICK f \in Frame : /\ prTask = "idle" /\ ProcessHead(f)
                         /\ pq' = pq \ {f} /\ cur' = f /\ prTask' \in {"held", "entered"}
                         /\ UNCHANGED <<inq, arrived, inCount, done, inTask, inFrame, ending>>
  BY DEF ProcessGet
<1>2. f \in pq /\ f \notin done /\ f # inFrame /\ f # cur /\ arrived[f] # 0 /\ f \notin System
  BY <1>1 DEF ProcessHead
<1>3. Stopping' = Stopping /\ UNCHANGED <<inCount, arrived>>
  BY <1>1 DEF Stopping, ending
<1>4. Fate(f) = "waiting"
  BY <1>2 DEF Fate, Taken, Waiting, ProcessHas
<1>5. ASSUME NEW g \in Frame, g # f PROVE Fate(g)' = Fate(g)
  BY <1>1, <1>5 DEF Fate, Taken, Waiting, ProcessHas, Working
<1>6. Fate(f)' = "taken"
  BY <1>1, <1>2 DEF Fate, Taken, ProcessHas, Working
<1>7. \A g \in Frame : (f \in System <=> g \in System) => ~Taken(g)
  BY <1>1, <1>2 DEF Taken, ProcessHas, Working
<1>8. ASSUME NEW g \in Frame, Tier(g) = Tier(f), arrived[g] < arrived[f] PROVE ~Waiting(g)
  <2>1. g \notin System
    BY <1>2, <1>8, SystemTier
  <2>2. g \notin pq
    BY <1>1, <1>8 DEF ProcessHead, Ordered
  <2>3. g \notin inq /\ g # inFrame
    BY <1>2, <1>8, <2>1 DEF Ordered
  <2> QED
    BY <2>2, <2>3 DEF Waiting
<1>9. \E s \in done : KindOf[s] = "start"
  BY <1>2 DEF StartHandled, System, SystemKind
<1>10. Delivery!Take(f)
  BY <1>3, <1>4, <1>5, <1>6, <1>7, <1>8, <1>9, Takes
<1> QED
  BY <1>10 DEF Delivery!Next

\* A frame that a task has handled is handled.
LEMMA DoneDelivers ==
  ASSUME Inv, Steady, InputDone \/ ProcessDone
  PROVE  [Delivery!Next]_(Delivery!vars)
<1> USE DEF Inv, Typed, QueuesOK, Hands, Steady, Placed
<1>1. CASE InputDone
  <2>1. inFrame \in Frame /\ inFrame \in System /\ arrived[inFrame] # 0 /\ inFrame \notin done
    BY <1>1 DEF InputDone, HandlesSystem
  <2>2. Fate(inFrame) = "taken"
    BY <1>1, <2>1 DEF InputDone, Fate, Taken
  <2>3. \A g \in Frame : Fate(g)' = IF g = inFrame THEN "handled" ELSE Fate(g)
    BY <1>1, <2>1, FrameAssumption DEF InputDone, queues, tasks, Fate, Taken, Waiting, ProcessHas
  <2>4. Delivery!Finish(inFrame)
    BY <1>1, <2>1, <2>2, <2>3 DEF InputDone, queues, ending, Stopping, Delivery!Finish
  <2> QED
    BY <2>1, <2>4 DEF Delivery!Next
<1>2. CASE ProcessDone
  <2>1. cur \in Frame /\ arrived[cur] # 0 /\ cur \notin done
    BY <1>2 DEF ProcessDone, Working
  <2>2. Fate(cur) = "taken"
    BY <1>2, <2>1 DEF ProcessDone, Fate, Taken, ProcessHas, Working
  <2>3. \A g \in Frame : Fate(g)' = IF g = cur THEN "handled" ELSE Fate(g)
    BY <1>2, <2>1, FrameAssumption
    DEF ProcessDone, queues, tasks, Fate, Taken, Waiting, ProcessHas, Working
  <2>4. Delivery!Finish(cur)
    BY <1>2, <2>1, <2>2, <2>3 DEF ProcessDone, queues, ending, Stopping, Delivery!Finish
  <2> QED
    BY <2>1, <2>4 DEF Delivery!Next
<1> QED
  BY <1>1, <1>2

\* A step that takes frames from no task and no queue changes no frame's fate.
LEMMA Keeps ==
  ASSUME UNCHANGED <<inq, pq, arrived, inCount, done, inFrame>>, Stopping' = Stopping,
         \A f \in Frame : ProcessHas(f)' <=> ProcessHas(f),
         inTask' = "held" <=> inTask = "held",
         inTask' \in {"entered", "cancelling", "user"}
           <=> inTask \in {"entered", "cancelling", "user"}
  PROVE  UNCHANGED Delivery!vars
<1>1. ASSUME NEW f \in Frame PROVE Fate(f)' = Fate(f)
  BY DEF Fate, Taken, Waiting
<1> QED
  BY <1>1, Stutters

\* The frames that a step takes from the process queue and the tasks, and puts nowhere.
LEMMA Drops ==
  ASSUME Inv, Steady,
         UNCHANGED <<inq, arrived, done, inFrame>>, pq' \subseteq pq,
         \A f \in Frame : ProcessHas(f)' => ProcessHas(f),
         inTask' = "held" => inTask = "held",
         inTask' \in {"entered", "cancelling", "user"}
           => inTask \in {"entered", "cancelling", "user"}
  PROVE  \A f \in Frame : \/ Fate(f)' = Fate(f)
                          \/ Fate(f) \in {"waiting", "taken"} /\ Fate(f)' = "lost"
<1> USE DEF Inv, Typed, QueuesOK, Steady, Placed
<1> SUFFICES ASSUME NEW f \in Frame
             PROVE  \/ Fate(f)' = Fate(f)
                    \/ Fate(f) \in {"waiting", "taken"} /\ Fate(f)' = "lost"
  OBVIOUS
<1>1. Taken(f)' => Taken(f)
  BY DEF Taken
<1>2. Waiting(f)' => Waiting(f)
  BY DEF Waiting
<1>3. ~(Taken(f) /\ Waiting(f))
  BY DEF Taken, Waiting, ProcessHas
<1> QED
  BY <1>1, <1>2, <1>3 DEF Fate

\* The same, when the input task keeps what it has.
LEMMA DropsQueued ==
  ASSUME Inv, Steady,
         UNCHANGED <<inq, arrived, done, inFrame>>, pq' \subseteq pq,
         \A f \in Frame : ProcessHas(f)' => ProcessHas(f),
         inTask' = "held" <=> inTask = "held",
         inTask' \in {"entered", "cancelling", "user"}
           <=> inTask \in {"entered", "cancelling", "user"}
  PROVE  \A f \in Frame : \/ Fate(f)' = Fate(f)
                          \/ /\ \/ f \in pq /\ f \notin pq'
                                \/ ProcessHas(f) /\ ~ProcessHas(f)'
                             /\ Fate(f)' = "lost"
<1> USE DEF Inv, Typed, QueuesOK, Steady, Placed
<1> SUFFICES ASSUME NEW f \in Frame
             PROVE  \/ Fate(f)' = Fate(f)
                    \/ /\ \/ f \in pq /\ f \notin pq'
                          \/ ProcessHas(f) /\ ~ProcessHas(f)'
                       /\ Fate(f)' = "lost"
  OBVIOUS
<1>1. CASE (f \in pq' <=> f \in pq) /\ (ProcessHas(f)' <=> ProcessHas(f))
  BY <1>1 DEF Fate, Taken, Waiting
<1>2. CASE f \in pq /\ f \notin pq'
  BY <1>2 DEF Fate, Taken, Waiting, ProcessHas
<1>3. CASE ProcessHas(f) /\ ~ProcessHas(f)'
  <2>1. f = cur /\ f \notin done /\ f # inFrame /\ f \notin inq /\ f \notin pq /\ arrived[f] # 0
    BY <1>3 DEF ProcessHas
  <2> QED
    BY <1>3, <2>1 DEF Fate, Taken, Waiting
<1> QED
  BY <1>1, <1>2, <1>3

\* What the input task has held is taken, or waits in the process queue.
LEMMA InputWakeDelivers ==
  ASSUME Inv, Steady, InputWake
  PROVE  UNCHANGED Delivery!vars
<1> USE DEF Inv, Typed, QueuesOK, Hands, Steady, Placed, InputWake
<1>1. inFrame \in Frame /\ arrived[inFrame] # 0 /\ inFrame \notin done
  OBVIOUS
<1>2. Stopping' = Stopping /\ UNCHANGED <<inCount, arrived>>
  BY DEF Stopping, ending
<1>3. CASE inFrame \in System
  <2>1. /\ inTask' = "entered" /\ inTask = "held"
        /\ UNCHANGED <<inq, pq, done, inFrame, prTask, cur>>
    BY <1>3 DEF Dispatch
  <2>2. \A f \in Frame : Fate(f)' = Fate(f)
    BY <1>2, <1>3, <2>1 DEF Fate, Taken, Waiting, ProcessHas
  <2> QED
    BY <1>2, <2>2, Stutters
<1>4. CASE inFrame \notin System
  <2>1. /\ inTask' = "idle" /\ inFrame' = NoFrame /\ pq' = pq \cup {inFrame}
        /\ UNCHANGED <<inq, done, prTask, cur>>
    BY <1>4 DEF Dispatch
  <2>2. ASSUME NEW f \in Frame, f = inFrame PROVE Fate(f) = "waiting" /\ Fate(f)' = "waiting"
    BY <1>1, <1>2, <1>4, <2>1, <2>2 DEF Fate, Taken, Waiting, ProcessHas
  <2>3. ASSUME NEW f \in Frame, f # inFrame PROVE Fate(f)' = Fate(f)
    BY <1>2, <2>1, <2>3, FrameAssumption DEF Fate, Taken, Waiting, ProcessHas
  <2>4. \A f \in Frame : Fate(f)' = Fate(f)
    BY <2>2, <2>3
  <2> QED
    BY <1>2, <2>4, Stutters
<1> QED
  BY <1>3, <1>4

\* The StartFrame finds nothing in the process queue to lose, unless the processor stops.
LEMMA StartDelivers ==
  ASSUME Inv, Steady, HandleStart
  PROVE  [Delivery!Next]_(Delivery!vars)
<1> USE DEF Inv, Typed, Hands, Steady, HandleStart
<1>1. /\ Stopping' = Stopping /\ UNCHANGED <<inCount, arrived>>
      /\ \A f \in Frame : ProcessHas(f)' <=> ProcessHas(f)
  BY DEF Stopping, ending, ProcessHas, Working
<1>2. CASE prTask # "none"
  BY <1>1, <1>2, Keeps
<1>3. CASE prTask = "none" /\ ~Stopping
  <2>1. \A f \in Frame : f \notin pq
    BY <1>3 DEF Begun, StartHandled, Placed, System, SystemKind
  <2>2. UNCHANGED pq
    BY <1>3, <2>1 DEF ResetProcess, Kept, QueuesOK
  <2> QED
    BY <1>1, <2>2, Keeps
<1>4. CASE prTask = "none" /\ Stopping
  <2>1. pq' \subseteq pq
    BY <1>4 DEF ResetProcess, Kept
  <2>2. \A f \in Frame : \/ Fate(f)' = Fate(f)
                         \/ Fate(f) \in {"waiting", "taken"} /\ Fate(f)' = "lost"
    BY <1>1, <2>1, Drops
  <2>3. Delivery!Stop
    BY <1>1, <1>4, <2>2, Stops
  <2> QED
    BY <2>3 DEF Delivery!Next
<1> QED
  BY <1>2, <1>3, <1>4

\* An interruption empties the process queue and stops the process task, but for the
\* uninterruptible frames.
LEMMA InterruptionDelivers ==
  ASSUME Inv, Steady, inTask' \in {"cancelling", "user"},
         \/ HandleInterruption
         \/ ProcessStopped /\ KindOf[inFrame] = "interruption"
  PROVE  Delivery!Next
<1> USE DEF Inv, Typed, Hands, Steady, Working
<1>1. /\ inTask \in {"entered", "cancelling"} /\ KindOf[inFrame] = "interruption"
      /\ UNCHANGED <<inq, arrived, inCount, done, inFrame, cur>>
      /\ Stopping' = Stopping
  BY DEF HandleInterruption, ProcessStopped, Stopping, ending
<1>2. pq' = pq \/ pq' = Kept(pq)
  BY DEF HandleInterruption, ProcessStopped, ResetProcess
<1>3. /\ prTask' \in Working => prTask' = prTask
      /\ prTask \in Working => prTask' = prTask \/ cur \notin Must
  BY DEF HandleInterruption, ProcessStopped, StopProcess, CurrentIsUninterruptible
<1>4. pq' \subseteq pq /\ \A f \in pq : f \notin pq' => f \notin Must
  BY <1>2 DEF Kept
<1>5. \A f \in Frame : /\ ProcessHas(f)' => ProcessHas(f)
                       /\ ProcessHas(f) /\ ~ProcessHas(f)' => f \notin Must
  BY <1>1, <1>3 DEF ProcessHas
<1>6. \A f \in Frame : \/ Fate(f)' = Fate(f)
                       \/ /\ \/ f \in pq /\ f \notin pq'
                             \/ ProcessHas(f) /\ ~ProcessHas(f)'
                          /\ Fate(f)' = "lost"
  BY <1>1, <1>4, <1>5, DropsQueued
<1>7. \A f \in Frame : \/ Fate(f)' = Fate(f)
                       \/ /\ f \in pq \/ ProcessHas(f)
                          /\ f \notin Must /\ Fate(f)' = "lost"
  BY <1>4, <1>5, <1>6
<1>8. \E i \in Frame : KindOf[i] = "interruption" /\ Delivery!Interrupt(i)
  BY <1>1, <1>7, InterruptionLoses
<1> QED
  BY <1>8 DEF Delivery!Next, Interrupts

\* broadcast_interruption empties the process queue in the same way.
LEMMA BroadcastDelivers ==
  ASSUME Inv, Steady, Broadcast
  PROVE  Delivery!Next
<1> USE DEF Inv, Typed, QueuesOK, Steady, Placed
<1>1. /\ UNCHANGED <<inq, arrived, inCount, done, inTask, inFrame, prTask, cur>>
      /\ pq' = Kept(pq) /\ Stopping' = Stopping /\ "broadcast" \in Ops
  BY DEF Broadcast, ResetProcess, tasks, Stopping, ending
<1>2. \A f \in Frame : ProcessHas(f)' <=> ProcessHas(f)
  BY <1>1 DEF ProcessHas
<1>3. \A f \in Frame : \/ Fate(f)' = Fate(f)
                       \/ f \in pq /\ f \notin pq' /\ Fate(f)' = "lost"
  BY <1>1, <1>2, DropsQueued DEF Kept
<1>4. ASSUME NEW f \in Frame, f \in pq, f \notin pq'
      PROVE  f \in Delivery!Queued
  <2>1. f \notin Must
    BY <1>1, <1>4 DEF Kept
  <2>2. Fate(f) = "waiting"
    BY <1>4 DEF Fate, Taken, Waiting, ProcessHas
  <2>3. f \in Delivery!Reached
    BY <1>4, <2>1, <2>2, Reaches
  <2> QED
    BY <2>2, <2>3 DEF Delivery!Queued
<1>5. Delivery!Queued \subseteq Frame
  BY DEF Delivery!Queued, Delivery!Reached, Delivery!Pending
<1>6. Delivery!LoseSome(Delivery!Queued)
  BY <1>3, <1>4, <1>5, Loses
<1>7. Delivery!Broadcast
  BY <1>1, <1>6 DEF Delivery!Broadcast
<1> QED
  BY <1>7 DEF Delivery!Next

\* A CancelFrame and cleanup() stop the processor, with whatever it has in hand.
LEMMA StoppingDelivers ==
  ASSUME Inv, Steady, HandleCancel \/ Cleanup \/ CleanupWatcher \/ CleanupInput
  PROVE  Delivery!Next
<1> USE DEF Inv, Typed, Hands, Steady
<1>1. /\ UNCHANGED <<inq, pq, arrived, inCount, done, inFrame, cur>> /\ Stopping'
  BY DEF HandleCancel, Cleanup, CleanupWatcher, CleanupInput, queues, Stopping
<1>2. prTask' \in Working => prTask' = prTask
  BY DEF HandleCancel, Cleanup, CleanupWatcher, CleanupInput, StopProcess, Working
<1>3. /\ inTask' = "held" => inTask = "held"
      /\ inTask' \in {"entered", "cancelling", "user"}
           => inTask \in {"entered", "cancelling", "user"}
  BY DEF HandleCancel, Cleanup, CleanupWatcher, CleanupInput, StopInput
<1>4. \A f \in Frame : ProcessHas(f)' => ProcessHas(f)
  BY <1>1, <1>2 DEF ProcessHas
<1>5. \A f \in Frame : \/ Fate(f)' = Fate(f)
                       \/ Fate(f) \in {"waiting", "taken"} /\ Fate(f)' = "lost"
  BY <1>1, <1>3, <1>4, Drops
<1>6. Delivery!Stop
  BY <1>1, <1>5, Stops
<1> QED
  BY <1>6 DEF Delivery!Next

\* The steps that only move a task along, pause or resume.
LEMMA OthersDeliver ==
  ASSUME Inv, Steady,
         \/ ProcessStopped /\ KindOf[inFrame] # "interruption"
         \/ HandleOtherSystem \/ InputDies
         \/ ProcessStart \/ ProcessWake \/ ProcessHandle \/ ProcessDies \/ CleanupProcess
         \/ UserPause \/ UserResume \/ PauseUntil \/ PauseUntilAgain \/ PauseUntilReplace
         \/ WatcherFires \/ UNCHANGED vars
  PROVE  UNCHANGED Delivery!vars
<1> DEFINE Same == /\ UNCHANGED <<inq, pq, arrived, inCount, done, inFrame>>
                   /\ Stopping' = Stopping
                   /\ cur' = cur \/ (prTask \notin Working /\ prTask' \notin Working)
                   /\ prTask' \in Working <=> prTask \in Working
                   /\ inTask' = "held" <=> inTask = "held"
                   /\ inTask' \in {"entered", "cancelling", "user"}
                        <=> inTask \in {"entered", "cancelling", "user"}
<1> USE DEF Same, queues, tasks, ending, Stopping, Working
<1>1. ASSUME (ProcessStopped /\ KindOf[inFrame] # "interruption") \/ HandleOtherSystem \/ InputDies
      PROVE  Same
  BY <1>1 DEF ProcessStopped, HandleOtherSystem, InputDies, Abandon
<1>2. ASSUME ProcessStart \/ ProcessWake \/ ProcessHandle \/ ProcessDies \/ CleanupProcess
      PROVE  Same
  BY <1>2 DEF ProcessStart, ProcessWake, ProcessHandle, ProcessDies, Abandon, CleanupProcess
<1>3. ASSUME \/ UserPause \/ UserResume \/ PauseUntil \/ PauseUntilAgain \/ PauseUntilReplace
             \/ WatcherFires \/ UNCHANGED vars
      PROVE  Same
  BY <1>3 DEF UserPause, UserResume, PauseUntil, PauseUntilAgain, PauseUntilReplace, Watch,
     WatcherFires, vars
<1>4. Same
  BY <1>1, <1>2, <1>3
<1>5. \A f \in Frame : ProcessHas(f)' <=> ProcessHas(f)
  BY <1>4 DEF ProcessHas
<1> QED
  BY <1>4, <1>5, Keeps

\* Every step of the processor is a step of the abstract one, or none.
LEMMA DeliveryStep ==
  ASSUME Inv, Steady, [Next]_vars
  PROVE  [Delivery!Next]_(Delivery!vars)
<1>1. ASSUME NEW f \in Frame, QueueFrame(f) PROVE Delivery!Next
  BY <1>1, QueueDelivers DEF Delivery!Next
<1>2. CASE InputGet \/ InputWake \/ InputDone
  BY <1>2, InputGetDelivers, InputWakeDelivers, DoneDelivers
<1>3. CASE HandleStart \/ HandleInterruption \/ HandleCancel
  <2>1. HandleInterruption => inTask' \in {"cancelling", "user"}
    BY DEF HandleInterruption
  <2> QED
    BY <1>3, <2>1, StartDelivers, InterruptionDelivers, StoppingDelivers
<1>4. CASE ProcessStopped
  <2>1. inTask' \in {"cancelling", "user"}
    BY <1>4 DEF ProcessStopped
  <2> QED
    BY <1>4, <2>1, InterruptionDelivers, OthersDeliver
<1>5. CASE HandleOtherSystem \/ InputDies
  BY <1>5, OthersDeliver
<1>6. CASE ProcessTaskStep
  BY <1>6, ProcessGetDelivers, DoneDelivers, OthersDeliver DEF ProcessTaskStep
<1>7. CASE CleanupStep \/ UserStep
  BY <1>7, StoppingDelivers, BroadcastDelivers, OthersDeliver DEF CleanupStep, UserStep
<1>8. CASE PauseUntilReplace \/ WatcherFires \/ UNCHANGED vars
  BY <1>8, OthersDeliver
<1> QED
  BY <1>1, <1>2, <1>3, <1>4, <1>5, <1>6, <1>7, <1>8 DEF Next, InputTaskStep

\* The processor keeps the promise of FrameDelivery: each frame is taken once, in order of
\* arrival within its tier, one system frame and one other at a time, the StartFrame first,
\* and none is lost but to a later interruption that may reach it, or to a stop.
THEOREM ProcessorImplementsDelivery == Spec => ImplementsDelivery
<1>1. Init => Delivery!Init
  <2> SUFFICES ASSUME Init PROVE Delivery!Init
    OBVIOUS
  <2>1. \A f \in Frame : Fate(f) = "new"
    BY DEF Init, Fate
  <2> QED
    BY <2>1 DEF Init, Delivery!Init, Stopping
<1>2. Inv /\ Steady /\ [Next]_vars => [Delivery!Next]_(Delivery!vars)
  BY DeliveryStep
<1> QED
  BY <1>1, <1>2, Steadiness, PTL DEF Spec, ImplementsDelivery, Delivery!Spec
=============================================================================
