------------------------- MODULE PipelineWorkerProofs -------------------------
(***************************************************************************)
(* What is proved of PipelineWorker, however many frames are queued and    *)
(* whichever kinds of frame a processor may block.                         *)
(***************************************************************************)
EXTENDS PipelineWorker, TLAPS

\* RemoveAt closes the gap that it leaves.
LEMMA Removed ==
  ASSUME NEW S, NEW q \in Seq(S), NEW i \in DOMAIN q
  PROVE  /\ RemoveAt(q, i) \in Seq(S)
         /\ Len(RemoveAt(q, i)) = Len(q) - 1
         /\ \A j \in 1 .. Len(q) - 1 : RemoveAt(q, i)[j] = IF j < i THEN q[j] ELSE q[j + 1]
<1>1. i \in 1 .. Len(q) /\ Len(q) \in Nat
  OBVIOUS
<1> DEFINE a == SubSeq(q, 1, i - 1)
           b == SubSeq(q, i + 1, Len(q))
<1>2. a \in Seq(S) /\ Len(a) = i - 1 /\ \A j \in 1 .. i - 1 : a[j] = q[j]
  BY <1>1
<1>3. b \in Seq(S) /\ Len(b) = Len(q) - i /\ \A j \in 1 .. Len(q) - i : b[j] = q[j + i]
  BY <1>1
<1> HIDE DEF a, b
<1>4. a \o b \in Seq(S) /\ Len(a \o b) = Len(q) - 1
  BY <1>1, <1>2, <1>3
<1>5. \A j \in 1 .. Len(q) - 1 : (a \o b)[j] = IF j < i THEN q[j] ELSE q[j + 1]
  BY <1>1, <1>2, <1>3
<1> QED
  BY <1>4, <1>5 DEF RemoveAt, a, b

\* Nothing enters the pipeline before the push task has begun, and only the StartFrame does
\* before it has come out or the worker is cancelled.
Begun ==
  /\ run \in {"new", "setup"} => push = "none"
  /\ push = "none" => pipe = <<>> /\ hand = "none"
  /\ push = "starting" => hand = "start" /\ \A i \in DOMAIN pipe : pipe[i] = "start"
  /\ startEvent \/ push \in {"pushing", "ending", "cancelling"} => started \/ cancelled

\* The worker pushes one frame that ends the pipeline, and it is reported once: by the sink
\* when an EndFrame or StopFrame comes out, by the push task when it has waited for a
\* CancelFrame.
NoEnd == \A i \in DOMAIN pipe : pipe[i] \notin Terminal
OneEnd == \A i, j \in DOMAIN pipe :
            pipe[i] \in Terminal /\ pipe[j] \in Terminal => i = j /\ pipe[i] = hand
Counted ==
  /\ push \in {"none", "starting", "pushing"} => hand \notin Terminal
  /\ push = "ending" => hand \in {"end", "stop"}
  /\ push = "cancelling" => hand = "cancel"
  /\ hand \notin Terminal => NoEnd /\ reports = 0 /\ ~endEvent
  /\ hand \in {"end", "stop"} /\ push # "killed" =>
       \/ push = "ending" /\ OneEnd /\ reports = 0 /\ ~endEvent
       \/ NoEnd /\ reports = 1
  /\ hand = "cancel" /\ push # "killed" =>
       /\ \A i \in DOMAIN pipe : pipe[i] \notin {"end", "stop"}
       /\ reports = IF push = "cancelling" THEN 0 ELSE 1

\* Once the push task has cleaned up, the worker has finished; a push task that is killed
\* has been killed by the cancellation of a run() that was awaiting it.
Cleaned ==
  /\ push \in {"cleaning", "done"} => finishedEvent
  /\ push = "done" => cleaned \/ hand = "stop"
  /\ push = "killed" => run = "done" /\ outside = "joining"

Inv == TypeOK /\ Begun /\ StartedFirst /\ Counted /\ Cleaned /\ RunLeavesClean
-----------------------------------------------------------------------------
\* What is left was there before.
LEMMA RemovedFrom ==
  ASSUME NEW S, NEW q \in Seq(S), NEW i \in DOMAIN q
  PROVE  \A j \in DOMAIN RemoveAt(q, i) : \E n \in DOMAIN q :
           n = (IF j < i THEN j ELSE j + 1) /\ n # i /\ RemoveAt(q, i)[j] = q[n]
<1> DEFINE r == RemoveAt(q, i)
<1>1. /\ r \in Seq(S) /\ Len(r) = Len(q) - 1 /\ Len(q) \in Nat
      /\ \A j \in 1 .. Len(q) - 1 : r[j] = IF j < i THEN q[j] ELSE q[j + 1]
  BY Removed
<1> HIDE DEF r
<1>2. \A j \in DOMAIN r : \E n \in DOMAIN q :
         n = (IF j < i THEN j ELSE j + 1) /\ n # i /\ r[j] = q[n]
  BY <1>1
<1> QED
  BY <1>2 DEF r

\* The invariant holds at the start.
LEMMA InitInv == Init => Inv
<1> SUFFICES ASSUME Init PROVE Inv
  OBVIOUS
<1>1. PlacesOK
  <2>1. <<>> \in Seq(Queueable) /\ <<>> \in Seq(Queueable \cup {"start"})
    OBVIOUS
  <2> QED BY <2>1, WorkerAssumption DEF Init, PlacesOK
<1>2. FlagsOK
  BY DEF Init, FlagsOK
<1>3. Begun /\ StartedFirst
  BY DEF Init, Begun, StartedFirst, Contains
<1>4. Counted
  BY DEF Init, Counted, NoEnd, Terminal
<1>5. Cleaned /\ RunLeavesClean
  BY DEF Init, Cleaned, RunLeavesClean
<1> QED BY <1>1, <1>2, <1>3, <1>4, <1>5 DEF Inv, TypeOK

\* Everything but the flags keeps its type.
LEMMA PlacesKept == PlacesOK /\ [Next]_vars => PlacesOK'
<1> SUFFICES ASSUME PlacesOK, [Next]_vars PROVE PlacesOK'
  OBVIOUS
<1> USE DEF PlacesOK, Queueable
<1>1. CASE Cancel
  BY <1>1 DEF Cancel, CancelOnce, past
<1>2. ASSUME NEW k \in Queueable, QueueFrame(k) PROVE PlacesOK'
  BY <1>2, WorkerAssumption DEF QueueFrame, events, past
<1>3. CASE Run
  BY <1>3 DEF Run, flow, events, past
<1>4. CASE SetupDone
  BY <1>4 DEF SetupDone, events, past
<1>5. CASE SetupTimesOut
  BY <1>5 DEF SetupTimesOut, flow, past
<1>6. CASE Finishing
  BY <1>6 DEF Finishing, flow, events, past
<1>7. CASE Finished
  BY <1>7 DEF Finished, flow, events, past
<1>8. CASE RunCancelled
  <2>1. CASE run = "setup"
    BY <1>8, <2>1 DEF RunCancelled
  <2>2. CASE run = "waiting"
    BY <1>8, <2>2 DEF RunCancelled, CancelOnce
  <2>3. CASE run = "joining"
    BY <1>8, <2>3 DEF RunCancelled, CancelOnce
  <2> QED BY <1>8, <2>1, <2>2, <2>3 DEF RunCancelled
<1>9. CASE Started
  BY <1>9 DEF Started, flow, past
<1>10. CASE StartTimesOut
  BY <1>10 DEF StartTimesOut, flow, events, past
<1>11. CASE PushFrame
  BY <1>11 DEF PushFrame, events, past
<1>12. CASE Ended
  BY <1>12 DEF Ended, flow, past
<1>13. CASE CancelledOrTimedOut
  BY <1>13 DEF CancelledOrTimedOut, flow
<1>14. CASE CleanupWorker
  BY <1>14 DEF CleanupWorker, flow, past
<1>15. CASE CleanupPipeline
  BY <1>15 DEF CleanupPipeline, flow, events, past
<1>16. CASE SinkReceives
  <2>1. PICK i \in DOMAIN pipe : pipe' = RemoveAt(pipe, i) /\ ReportEnd(pipe[i])
    BY <1>16 DEF SinkReceives
  <2>2. pipe' \in Seq(Queueable \cup {"start"})
    BY <2>1, Removed
  <2> QED BY <1>16, <2>1, <2>2 DEF SinkReceives, ReportEnd
<1>17. CASE Block
  BY <1>17 DEF Block, events, past
<1>18. CASE Stop
  BY <1>18 DEF Stop, flow, past
<1>19. CASE UNCHANGED vars
  BY <1>19 DEF vars, flow, events, past
<1> QED BY <1>1, <1>2, <1>3, <1>4, <1>5, <1>6, <1>7, <1>8, <1>9, <1>10, <1>11, <1>12, <1>13,
           <1>14, <1>15, <1>16, <1>17, <1>18, <1>19 DEF Next, RunStep, PushStep

\* The flags stay flags.
LEMMA FlagsKept == FlagsOK /\ [Next]_vars => FlagsOK'
<1> SUFFICES ASSUME FlagsOK, [Next]_vars PROVE FlagsOK'
  OBVIOUS
<1> USE DEF FlagsOK
<1>1. CASE Cancel
  BY <1>1 DEF Cancel, CancelOnce, past
<1>2. ASSUME NEW k \in Queueable, QueueFrame(k) PROVE FlagsOK'
  BY <1>2 DEF QueueFrame, events, past
<1>3. CASE Run
  BY <1>3 DEF Run, flow, events, past
<1>4. CASE SetupDone
  BY <1>4 DEF SetupDone, events, past
<1>5. CASE SetupTimesOut
  BY <1>5 DEF SetupTimesOut, flow, past
<1>6. CASE Finishing
  BY <1>6 DEF Finishing, flow, events, past
<1>7. CASE Finished
  BY <1>7 DEF Finished, flow, events, past
<1>8. CASE RunCancelled
  BY <1>8 DEF RunCancelled, CancelOnce
<1>9. CASE Started
  BY <1>9 DEF Started, flow, past
<1>10. CASE StartTimesOut
  BY <1>10 DEF StartTimesOut, flow, events, past
<1>11. CASE PushFrame
  BY <1>11 DEF PushFrame, events, past
<1>12. CASE Ended
  BY <1>12 DEF Ended, flow, past
<1>13. CASE CancelledOrTimedOut
  BY <1>13 DEF CancelledOrTimedOut, flow
<1>14. CASE CleanupWorker
  BY <1>14 DEF CleanupWorker, flow, past
<1>15. CASE CleanupPipeline
  BY <1>15 DEF CleanupPipeline, flow, events, past
<1>16. CASE SinkReceives
  BY <1>16 DEF SinkReceives, ReportEnd
<1>17. CASE Block
  BY <1>17 DEF Block, events, past
<1>18. CASE Stop
  BY <1>18 DEF Stop, flow, past
<1>19. CASE UNCHANGED vars
  BY <1>19 DEF vars, flow, events, past
<1> QED BY <1>1, <1>2, <1>3, <1>4, <1>5, <1>6, <1>7, <1>8, <1>9, <1>10, <1>11, <1>12, <1>13,
           <1>14, <1>15, <1>16, <1>17, <1>18, <1>19 DEF Next, RunStep, PushStep

\* What Begun says stays so.
LEMMA BegunKept == TypeOK /\ Begun /\ [Next]_vars => Begun'
<1> SUFFICES ASSUME TypeOK /\ Begun, [Next]_vars PROVE Begun'
  OBVIOUS
<1> USE DEF TypeOK, PlacesOK, Begun
<1>1. CASE Cancel
  BY <1>1 DEF Cancel, CancelOnce, past
<1>2. ASSUME NEW k \in Queueable, QueueFrame(k) PROVE Begun'
  BY <1>2 DEF QueueFrame, events, past
<1>3. CASE Run
  BY <1>3 DEF Run, flow, events, past
<1>4. CASE SetupDone
  BY <1>4 DEF SetupDone, events, past
<1>5. CASE SetupTimesOut
  BY <1>5 DEF SetupTimesOut, flow, past
<1>6. CASE Finishing
  BY <1>6 DEF Finishing, flow, events, past
<1>7. CASE Finished
  BY <1>7 DEF Finished, flow, events, past
<1>8. CASE RunCancelled
  BY <1>8 DEF RunCancelled, CancelOnce
<1>9. CASE Started
  BY <1>9 DEF Started, flow, past
<1>10. CASE StartTimesOut
  BY <1>10 DEF StartTimesOut, flow, events, past
<1>11. CASE PushFrame
  BY <1>11 DEF PushFrame, events, past
<1>12. CASE Ended
  BY <1>12 DEF Ended, flow, past
<1>13. CASE CancelledOrTimedOut
  BY <1>13 DEF CancelledOrTimedOut, flow
<1>14. CASE CleanupWorker
  BY <1>14 DEF CleanupWorker, flow, past
<1>15. CASE CleanupPipeline
  BY <1>15 DEF CleanupPipeline, flow, events, past
<1>16. CASE SinkReceives
  <2>1. PICK i \in DOMAIN pipe : pipe' = RemoveAt(pipe, i) /\ (pipe[i] = "start" => started')
    BY <1>16 DEF SinkReceives
  <2>2. \A j \in DOMAIN pipe' : \E n \in DOMAIN pipe : pipe'[j] = pipe[n]
    BY <2>1, RemovedFrom
  <2>3. pipe # <<>>
    BY <2>1
  <2>4. (started => started') /\ (startEvent' => startEvent \/ started')
    BY <1>16 DEF SinkReceives
  <2>5. UNCHANGED <<run, push, hand, cancelled>>
    BY <1>16 DEF SinkReceives
  <2> QED BY <2>2, <2>3, <2>4, <2>5
<1>17. CASE Block
  BY <1>17 DEF Block, events, past
<1>18. CASE Stop
  BY <1>18 DEF Stop, flow, past
<1>19. CASE UNCHANGED vars
  BY <1>19 DEF vars, flow, events, past
<1> QED BY <1>1, <1>2, <1>3, <1>4, <1>5, <1>6, <1>7, <1>8, <1>9, <1>10, <1>11, <1>12, <1>13,
           <1>14, <1>15, <1>16, <1>17, <1>18, <1>19 DEF Next, RunStep, PushStep

\* Data follows only a StartFrame that has come out, or a cancel.
LEMMA StartedFirstKept == TypeOK /\ Begun /\ StartedFirst /\ [Next]_vars => StartedFirst'
<1> SUFFICES ASSUME TypeOK /\ Begun /\ StartedFirst, [Next]_vars PROVE StartedFirst'
  OBVIOUS
<1> USE DEF TypeOK, PlacesOK, Begun, StartedFirst, Contains, Queueable
<1>1. CASE Cancel
  BY <1>1 DEF Cancel, CancelOnce, past
<1>2. ASSUME NEW k \in Queueable, QueueFrame(k) PROVE StartedFirst'
  BY <1>2 DEF QueueFrame, events, past
<1>3. CASE Run
  BY <1>3 DEF Run, flow, events, past
<1>4. CASE SetupDone
  BY <1>4 DEF SetupDone, events, past
<1>5. CASE SetupTimesOut
  BY <1>5 DEF SetupTimesOut, flow, past
<1>6. CASE Finishing
  BY <1>6 DEF Finishing, flow, events, past
<1>7. CASE Finished
  BY <1>7 DEF Finished, flow, events, past
<1>8. CASE RunCancelled
  BY <1>8 DEF RunCancelled, CancelOnce
<1>9. CASE Started
  BY <1>9 DEF Started, flow, past
<1>10. CASE StartTimesOut
  BY <1>10 DEF StartTimesOut, flow, events, past
<1>11. CASE PushFrame
  BY <1>11 DEF PushFrame, events, past
<1>12. CASE Ended
  BY <1>12 DEF Ended, flow, past
<1>13. CASE CancelledOrTimedOut
  BY <1>13 DEF CancelledOrTimedOut, flow
<1>14. CASE CleanupWorker
  BY <1>14 DEF CleanupWorker, flow, past
<1>15. CASE CleanupPipeline
  BY <1>15 DEF CleanupPipeline, flow, events, past
<1>16. CASE SinkReceives
  <2>1. PICK i \in DOMAIN pipe : pipe' = RemoveAt(pipe, i)
    BY <1>16 DEF SinkReceives
  <2>2. \A j \in DOMAIN pipe' : \E n \in DOMAIN pipe : pipe'[j] = pipe[n]
    BY <2>1, RemovedFrom
  <2>3. (started => started') /\ UNCHANGED cancelled
    BY <1>16 DEF SinkReceives
  <2>4. /\ \A n \in DOMAIN pipe : n \in 1 .. Len(pipe)
        /\ \A j \in 1 .. Len(pipe') : j \in DOMAIN pipe'
    BY <2>1, Removed
  <2> QED BY <2>2, <2>3, <2>4
<1>17. CASE Block
  BY <1>17 DEF Block, events, past
<1>18. CASE Stop
  BY <1>18 DEF Stop, flow, past
<1>19. CASE UNCHANGED vars
  BY <1>19 DEF vars, flow, events, past
<1> QED BY <1>1, <1>2, <1>3, <1>4, <1>5, <1>6, <1>7, <1>8, <1>9, <1>10, <1>11, <1>12, <1>13,
           <1>14, <1>15, <1>16, <1>17, <1>18, <1>19 DEF Next, RunStep, PushStep

\* One frame ends the pipeline, and is reported once.
LEMMA CountedKept == TypeOK /\ Begun /\ Counted /\ [Next]_vars => Counted'
<1> SUFFICES ASSUME TypeOK /\ Begun /\ Counted, [Next]_vars PROVE Counted'
  OBVIOUS
<1> USE DEF TypeOK, PlacesOK, Counted, Terminal, NoEnd, OneEnd, Queueable
<1>1. CASE Cancel
  BY <1>1 DEF Cancel, CancelOnce, past
<1>2. ASSUME NEW k \in Queueable, QueueFrame(k) PROVE Counted'
  BY <1>2 DEF QueueFrame, events, past
<1>3. CASE Run
  BY <1>3 DEF Run, flow, events, past
<1>4. CASE SetupDone
  <2>1. pipe' = <<"start">> /\ \A j \in DOMAIN pipe' : pipe'[j] = "start"
    BY <1>4 DEF SetupDone
  <2> QED BY <1>4, <2>1 DEF SetupDone, Begun, events, past
<1>5. CASE SetupTimesOut
  BY <1>5 DEF SetupTimesOut, flow, past
<1>6. CASE Finishing
  BY <1>6 DEF Finishing, flow, events, past
<1>7. CASE Finished
  BY <1>7 DEF Finished, flow, events, past
<1>8. CASE RunCancelled
  BY <1>8 DEF RunCancelled, CancelOnce
<1>9. CASE Started
  BY <1>9 DEF Started, flow, past
<1>10. CASE StartTimesOut
  BY <1>10 DEF StartTimesOut, flow, events, past
<1>11. CASE PushFrame
  BY <1>11 DEF PushFrame, events, past
<1>12. CASE Ended
  BY <1>12 DEF Ended, flow, past
<1>13. CASE CancelledOrTimedOut
  BY <1>13 DEF CancelledOrTimedOut, flow
<1>14. CASE CleanupWorker
  BY <1>14 DEF CleanupWorker, flow, past
<1>15. CASE CleanupPipeline
  BY <1>15 DEF CleanupPipeline, flow, events, past
<1>16. CASE SinkReceives
  <2>1. PICK i \in DOMAIN pipe : pipe' = RemoveAt(pipe, i) /\ ReportEnd(pipe[i])
    BY <1>16 DEF SinkReceives
  <2>2. \A j \in DOMAIN pipe' :
          \E n \in DOMAIN pipe : n # i /\ pipe'[j] = pipe[n] /\ n = IF j < i THEN j ELSE j + 1
    BY <2>1, RemovedFrom
  <2>3. UNCHANGED <<push, hand>>
    BY <1>16 DEF SinkReceives
  <2>4. /\ pipe[i] \notin {"end", "stop"} => reports' = reports
        /\ pipe[i] \in {"end", "stop"} => reports' = reports + 1
        /\ pipe[i] \notin Terminal => (endEvent' => endEvent)
    BY <2>1 DEF ReportEnd
  <2>5. NoEnd => NoEnd'
    BY <2>2
  <2>6. OneEnd => OneEnd'
    <3> SUFFICES ASSUME OneEnd, NEW j \in DOMAIN pipe', NEW k \in DOMAIN pipe',
                        pipe'[j] \in Terminal, pipe'[k] \in Terminal
                 PROVE  j = k /\ pipe'[j] = hand'
      OBVIOUS
    <3>1. PICK n \in DOMAIN pipe : pipe'[j] = pipe[n] /\ n = IF j < i THEN j ELSE j + 1
      BY <2>2
    <3>2. PICK o \in DOMAIN pipe : pipe'[k] = pipe[o] /\ o = IF k < i THEN k ELSE k + 1
      BY <2>2
    <3>3. n = o /\ pipe[n] = hand
      BY <3>1, <3>2
    <3>4. pipe' \in Seq(Queueable \cup {"start"})
      BY <2>1, Removed
    <3>5. i \in Nat /\ j \in Nat /\ k \in Nat
      BY <2>1, <3>4
    <3> QED BY <2>3, <3>1, <3>2, <3>3, <3>5
  <2>7. OneEnd /\ pipe[i] \in Terminal => NoEnd' /\ pipe[i] = hand
    BY <2>2
  <2>8. (\A n \in DOMAIN pipe : pipe[n] \notin {"end", "stop"})
          => \A j \in DOMAIN pipe' : pipe'[j] \notin {"end", "stop"}
    BY <2>2
  <2> HIDE DEF NoEnd, OneEnd
  <2>9. CASE hand \notin Terminal
    <3>1. pipe[i] \notin Terminal
      BY <2>9 DEF NoEnd
    <3> QED BY <2>3, <2>4, <2>5, <2>9, <3>1
  <2>10. CASE hand = "cancel"
    BY <2>3, <2>4, <2>8, <2>10
  <2>11. CASE hand \in {"end", "stop"} /\ push # "killed"
    <3>1. CASE NoEnd /\ reports = 1
      <4>1. pipe[i] \notin Terminal
        BY <3>1 DEF NoEnd
      <4> QED BY <2>3, <2>4, <2>5, <2>11, <3>1, <4>1
    <3>2. CASE push = "ending" /\ OneEnd /\ reports = 0 /\ ~endEvent
      <4>1. CASE pipe[i] \in Terminal
        BY <2>3, <2>4, <2>7, <2>11, <3>2, <4>1
      <4>2. CASE pipe[i] \notin Terminal
        BY <2>3, <2>4, <2>6, <2>11, <3>2, <4>2
      <4> QED BY <4>1, <4>2
    <3> QED BY <2>11, <3>1, <3>2
  <2>12. CASE hand \in {"end", "stop"} /\ push = "killed"
    BY <2>3, <2>12
  <2> QED BY <2>9, <2>10, <2>11, <2>12
<1>17. CASE Block
  BY <1>17 DEF Block, events, past
<1>18. CASE Stop
  BY <1>18 DEF Stop, flow, past
<1>19. CASE UNCHANGED vars
  BY <1>19 DEF vars, flow, events, past
<1> QED BY <1>1, <1>2, <1>3, <1>4, <1>5, <1>6, <1>7, <1>8, <1>9, <1>10, <1>11, <1>12, <1>13,
           <1>14, <1>15, <1>16, <1>17, <1>18, <1>19 DEF Next, RunStep, PushStep

\* What is cleaned up stays cleaned up.
LEMMA CleanedKept == TypeOK /\ Cleaned /\ [Next]_vars => Cleaned'
<1> SUFFICES ASSUME TypeOK /\ Cleaned, [Next]_vars PROVE Cleaned'
  OBVIOUS
<1> USE DEF TypeOK, PlacesOK, Cleaned
<1>1. CASE Cancel
  BY <1>1 DEF Cancel, CancelOnce, past
<1>2. ASSUME NEW k \in Queueable, QueueFrame(k) PROVE Cleaned'
  BY <1>2 DEF QueueFrame, events, past
<1>3. CASE Run
  BY <1>3 DEF Run, flow, events, past
<1>4. CASE SetupDone
  BY <1>4 DEF SetupDone, events, past
<1>5. CASE SetupTimesOut
  BY <1>5 DEF SetupTimesOut, flow, past
<1>6. CASE Finishing
  BY <1>6 DEF Finishing, flow, events, past
<1>7. CASE Finished
  BY <1>7 DEF Finished, flow, events, past
<1>8. CASE RunCancelled
  BY <1>8 DEF RunCancelled, CancelOnce
<1>9. CASE Started
  BY <1>9 DEF Started, flow, past
<1>10. CASE StartTimesOut
  BY <1>10 DEF StartTimesOut, flow, events, past
<1>11. CASE PushFrame
  BY <1>11 DEF PushFrame, events, past
<1>12. CASE Ended
  BY <1>12 DEF Ended, flow, past
<1>13. CASE CancelledOrTimedOut
  BY <1>13 DEF CancelledOrTimedOut, flow
<1>14. CASE CleanupWorker
  BY <1>14 DEF CleanupWorker, flow, past
<1>15. CASE CleanupPipeline
  BY <1>15 DEF CleanupPipeline, flow, events, past
<1>16. CASE SinkReceives
  BY <1>16 DEF SinkReceives
<1>17. CASE Block
  BY <1>17 DEF Block, events, past
<1>18. CASE Stop
  BY <1>18 DEF Stop, flow, past
<1>19. CASE UNCHANGED vars
  BY <1>19 DEF vars, flow, events, past
<1> QED BY <1>1, <1>2, <1>3, <1>4, <1>5, <1>6, <1>7, <1>8, <1>9, <1>10, <1>11, <1>12, <1>13,
           <1>14, <1>15, <1>16, <1>17, <1>18, <1>19 DEF Next, RunStep, PushStep

\* run() leaves nothing behind.
LEMMA LeavesCleanKept ==
  TypeOK /\ Begun /\ Cleaned /\ RunLeavesClean /\ [Next]_vars => RunLeavesClean'
<1> SUFFICES ASSUME TypeOK /\ Begun /\ Cleaned /\ RunLeavesClean, [Next]_vars PROVE RunLeavesClean'
  OBVIOUS
<1> USE DEF TypeOK, PlacesOK, Begun, Cleaned, RunLeavesClean
<1>1. CASE Cancel
  BY <1>1 DEF Cancel, CancelOnce, past
<1>2. ASSUME NEW k \in Queueable, QueueFrame(k) PROVE RunLeavesClean'
  BY <1>2 DEF QueueFrame, events, past
<1>3. CASE Run
  BY <1>3 DEF Run, flow, events, past
<1>4. CASE SetupDone
  BY <1>4 DEF SetupDone, events, past
<1>5. CASE SetupTimesOut
  BY <1>5 DEF SetupTimesOut, flow, past
<1>6. CASE Finishing
  BY <1>6 DEF Finishing, flow, events, past
<1>7. CASE Finished
  BY <1>7 DEF Finished, flow, events, past
<1>8. CASE RunCancelled
  BY <1>8 DEF RunCancelled, CancelOnce
<1>9. CASE Started
  BY <1>9 DEF Started, flow, past
<1>10. CASE StartTimesOut
  BY <1>10 DEF StartTimesOut, flow, events, past
<1>11. CASE PushFrame
  BY <1>11 DEF PushFrame, events, past
<1>12. CASE Ended
  BY <1>12 DEF Ended, flow, past
<1>13. CASE CancelledOrTimedOut
  BY <1>13 DEF CancelledOrTimedOut, flow
<1>14. CASE CleanupWorker
  BY <1>14 DEF CleanupWorker, flow, past
<1>15. CASE CleanupPipeline
  BY <1>15 DEF CleanupPipeline, flow, events, past
<1>16. CASE SinkReceives
  BY <1>16 DEF SinkReceives
<1>17. CASE Block
  BY <1>17 DEF Block, events, past
<1>18. CASE Stop
  BY <1>18 DEF Stop, flow, past
<1>19. CASE UNCHANGED vars
  BY <1>19 DEF vars, flow, events, past
<1> QED BY <1>1, <1>2, <1>3, <1>4, <1>5, <1>6, <1>7, <1>8, <1>9, <1>10, <1>11, <1>12, <1>13,
           <1>14, <1>15, <1>16, <1>17, <1>18, <1>19 DEF Next, RunStep, PushStep

-----------------------------------------------------------------------------
\* The inductive invariant holds in every state of every behaviour.
THEOREM Invariance == Spec => []Inv
<1>1. Inv /\ [Next]_vars => Inv'
  BY PlacesKept, FlagsKept, BegunKept, StartedFirstKept, CountedKept, CleanedKept,
     LeavesCleanKept DEF Inv, TypeOK
<1> QED BY <1>1, InitInv, PTL DEF Spec

\* The variables of the worker keep their types.
THEOREM TypeCorrect == Spec => []TypeOK
<1>1. Inv => TypeOK
  BY DEF Inv
<1> QED BY <1>1, Invariance, PTL

\* Only a cancel lets data into a pipeline whose StartFrame has not come out.
THEOREM NothingBeforeStart == Spec => []StartedFirst
<1>1. Inv => StartedFirst
  BY DEF Inv
<1> QED BY <1>1, Invariance, PTL

\* The worker does not tear the pipeline down before its EndFrame has come out.
THEOREM EndIsFlushed == Spec => []EndFlushes
<1>1. Inv => EndFlushes
  BY DEF Inv, Counted, EndFlushes, Contains, Terminal, Ending, NoEnd
<1> QED BY <1>1, Invariance, PTL

\* The end of the pipeline is reported once, whoever reports it.
THEOREM EndReportedOnce == Spec => []ReportedOnce
<1>1. Inv => ReportedOnce
  BY DEF Inv, Counted, ReportedOnce, Terminal, Ending
<1> QED BY <1>1, Invariance, PTL

\* run() returns with the processors cleaned up and no push task left.
THEOREM NothingLeftBehind == Spec => []RunLeavesClean
<1>1. Inv => RunLeavesClean
  BY DEF Inv
<1> QED BY <1>1, Invariance, PTL
=============================================================================
