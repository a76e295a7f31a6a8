--------------------------- MODULE UserTurnProofs ---------------------------
(***************************************************************************)
(* The stop strategy never loses sight of a user that speaks, for any      *)
(* number of timers, frames and transcriptions.                            *)
(*                                                                         *)
(* HeardAlike speaks of the moments when the input task is done; the       *)
(* invariant follows it through its frame. From the place where the        *)
(* strategy decides on a frame of the VAD to the end of its run, the two   *)
(* flags agree already, and before that only the frame tells which way the *)
(* user has turned. No other task handles such a frame, and the one step   *)
(* of others that touches the flags, the end of a turn, finds the user     *)
(* silent.                                                                 *)
(*                                                                         *)
(* The types come second, for any finite sets of timers: what is more than *)
(* a type in them is that a field which holds a timer holds one that is    *)
(* not over, and that a timer which is waited for has yet to run.          *)
(***************************************************************************)
EXTENDS UserTurn, FiniteSetTheorems, TLAPS

\* What the proof needs to know of the types
Shape ==
  /\ at \in [Tasks -> Places] /\ next \in [Tasks -> Places]
  /\ frame \in [Tasks -> {"start", "stop", "none"} \cup Transcriptions]
  /\ userSpeaking \in BOOLEAN /\ vadSpeaking \in BOOLEAN
  /\ pending \in Seq(Transcriptions)

\* Only the input task handles frames of the VAD, and its frame is the last one.
Frames ==
  /\ \A t \in Tasks : frame[t] \in {"start", "stop"} => t = "input"
  /\ at["input"] # "idle" =>
       /\ frame["input"] = (IF userSpeaking THEN "start" ELSE "stop")
       /\ at["input"] \in {"dispatch", "cancel speech", "cancel stt", "report start", "decide",
                           "restart", "renew", "arm"}
       /\ at["input"] \in {"cancel speech", "cancel stt"} =>
            next["input"] \in {"report start", "idle"}

\* The input task has been where the strategy decides.
Decided ==
  \/ at["input"] \in {"idle", "restart", "renew", "arm"}
  \/ at["input"] \in {"cancel speech", "cancel stt"} /\ next["input"] = "idle"

Agree == Decided => vadSpeaking = userSpeaking

IInv == Shape /\ Frames /\ Agree

LEMMA InputIsTask == "input" \in Tasks /\ "process" \in Tasks /\ "watchdog" \in Tasks
BY DEF Tasks

LEMMA TimerIsTask == \A id \in Timers : id \in Tasks
BY DEF Tasks

\* The tuples of variables are expanded everywhere.
USE DEF Transcriptions, loop, controller, progress, handles, aggregator, bounds, events

LEMMA InitInv == Init => IInv
<1> SUFFICES ASSUME Init PROVE IInv
  OBVIOUS
<1> <<>> \in Seq(Transcriptions)
  OBVIOUS
<1>1. Shape
  BY DEF Init, Shape, Places
<1>2. Frames
  BY InputIsTask DEF Init, Frames
<1>3. Agree
  BY DEF Init, Agree
<1> QED
  BY <1>1, <1>2, <1>3 DEF IInv

LEMMA HearInv == ASSUME IInv, Hear PROVE IInv'
<1>1. Shape'
  BY InputIsTask DEF IInv, Shape, Places, Hear, Wake
<1>2. Frames'
  BY InputIsTask DEF IInv, Shape, Frames, Places, Hear, Wake
<1>3. Agree'
  BY InputIsTask DEF IInv, Shape, Frames, Decided, Agree, Places, Hear, Wake
<1> QED
  BY <1>1, <1>2, <1>3 DEF IInv

LEMMA TranscribeInv == ASSUME IInv, NEW item \in Transcriptions, Transcribe(item) PROVE IInv'
<1> pending \in Seq(Transcriptions) /\ pending' = Append(pending, item)
  BY DEF IInv, Shape, Transcribe
<1>0. pending' \in Seq(Transcriptions)
  OBVIOUS
<1>1. Shape'
  BY <1>0, InputIsTask DEF IInv, Shape, Places, Transcribe, Wake
<1>2. Frames'
  BY InputIsTask DEF IInv, Shape, Frames, Places, Transcribe, Wake
<1>3. Agree'
  BY InputIsTask DEF IInv, Shape, Frames, Decided, Agree, Places, Transcribe, Wake
<1> QED
  BY <1>1, <1>2, <1>3 DEF IInv

LEMMA TakeVadInv == ASSUME IInv, TakeVad PROVE IInv'
<1>1. Shape'
  BY InputIsTask DEF IInv, Shape, Places, TakeVad, Begin, At, Running
<1>2. Frames'
  BY InputIsTask DEF IInv, Shape, Frames, Places, TakeVad, Begin, At, Running
<1>3. Agree'
  BY InputIsTask DEF IInv, Shape, Frames, Decided, Agree, Places, TakeVad, Begin, At, Running
<1> QED
  BY <1>1, <1>2, <1>3 DEF IInv

LEMMA TakeTextInv == ASSUME IInv, TakeText PROVE IInv'
<1> pending \in Seq(Transcriptions) /\ pending # <<>> /\ pending' = Tail(pending)
  BY DEF IInv, Shape, TakeText
<1>0. pending' \in Seq(Transcriptions) /\ Head(pending) \in Transcriptions
  OBVIOUS
<1>1. Shape'
  BY <1>0, InputIsTask DEF IInv, Shape, Places, TakeText, Begin, At, Running
<1>2. Frames'
  BY <1>0, InputIsTask DEF IInv, Shape, Frames, Places, TakeText, Begin, At, Running
<1>3. Agree'
  BY InputIsTask DEF IInv, Shape, Frames, Decided, Agree, Places, TakeText, Begin, At, Running
<1> QED
  BY <1>1, <1>2, <1>3 DEF IInv

LEMMA RestInv == ASSUME IInv, NEW t \in Tasks, Rest(t) PROVE IInv'
<1>1. Shape'
  BY InputIsTask DEF IInv, Shape, Places, Rest, At, Running
<1>2. Frames'
  BY InputIsTask DEF IInv, Shape, Frames, Places, Rest, At, Running
<1>3. Agree'
  BY InputIsTask DEF IInv, Shape, Frames, Decided, Agree, Places, Rest, At, Running
<1> QED
  BY <1>1, <1>2, <1>3 DEF IInv

LEMMA DispatchInv == ASSUME IInv, NEW t \in Tasks, Dispatch(t) PROVE IInv'
<1>1. Shape'
  BY InputIsTask
    DEF IInv, Shape, Places, Dispatch, At, Running, MayStart, Goto, CancelThen, Discard
<1>2. Frames'
  BY InputIsTask
    DEF IInv, Shape, Frames, Places, Dispatch, At, Running, MayStart, Goto, CancelThen,
        Discard
<1>3. Agree'
  BY InputIsTask
    DEF IInv, Shape, Frames, Decided, Agree, Places, Dispatch, At, Running, MayStart,
        Goto, CancelThen, Discard
<1> QED
  BY <1>1, <1>2, <1>3 DEF IInv

LEMMA ReportStartInv == ASSUME IInv, NEW t \in Tasks, ReportStart(t) PROVE IInv'
<1> pending \in Seq(Transcriptions) /\ pending' = <<>>
  BY DEF IInv, Shape, ReportStart
<1>0. pending' \in Seq(Transcriptions)
  OBVIOUS
<1>1. Shape'
  BY <1>0, InputIsTask DEF IInv, Shape, Places, ReportStart, At, Running, Goto
<1>2. Frames'
  BY InputIsTask DEF IInv, Shape, Frames, Places, ReportStart, At, Running, Goto
<1>3. Agree'
  BY InputIsTask
    DEF IInv, Shape, Frames, Decided, Agree, Places, ReportStart, At, Running, Goto
<1> QED
  BY <1>1, <1>2, <1>3 DEF IInv

LEMMA DecideStartInv == ASSUME IInv, NEW t \in Tasks, DecideStart(t) PROVE IInv'
<1>1. Shape'
  BY InputIsTask DEF IInv, Shape, Places, DecideStart, At, Running, CancelThen, Discard
<1>2. Frames'
  BY InputIsTask DEF IInv, Shape, Frames, Places, DecideStart, At, Running, CancelThen, Discard
<1>3. Agree'
  BY InputIsTask
    DEF IInv, Shape, Frames, Decided, Agree, Places, DecideStart, At, Running, CancelThen,
        Discard
<1> QED
  BY <1>1, <1>2, <1>3 DEF IInv

LEMMA DecideStopInv == ASSUME IInv, NEW t \in Tasks, DecideStop(t) PROVE IInv'
<1>1. Shape'
  BY InputIsTask DEF IInv, Shape, Places, DecideStop, At, Running, Goto
<1>2. Frames'
  BY InputIsTask DEF IInv, Shape, Frames, Places, DecideStop, At, Running, Goto
<1>3. Agree'
  BY InputIsTask DEF IInv, Shape, Frames, Decided, Agree, Places, DecideStop, At, Running, Goto
<1> QED
  BY <1>1, <1>2, <1>3 DEF IInv

LEMMA DecideTextInv == ASSUME IInv, NEW t \in Tasks, DecideText(t) PROVE IInv'
<1>1. Shape'
  BY InputIsTask DEF IInv, Shape, Places, DecideText, At, Running, Goto, CancelThen
<1>2. Frames'
  BY InputIsTask DEF IInv, Shape, Frames, Places, DecideText, At, Running, Goto, CancelThen
<1>3. Agree'
  BY InputIsTask
    DEF IInv, Shape, Frames, Decided, Agree, Places, DecideText, At, Running, Goto,
        CancelThen
<1> QED
  BY <1>1, <1>2, <1>3 DEF IInv

LEMMA DecideInterimInv == ASSUME IInv, NEW t \in Tasks, DecideInterim(t) PROVE IInv'
<1>1. Shape'
  BY InputIsTask DEF IInv, Shape, Places, DecideInterim, At, Running, Goto
<1>2. Frames'
  BY InputIsTask DEF IInv, Shape, Frames, Places, DecideInterim, At, Running, Goto
<1>3. Agree'
  BY InputIsTask DEF IInv, Shape, Frames, Decided, Agree, Places, DecideInterim, At, Running, Goto
<1> QED
  BY <1>1, <1>2, <1>3 DEF IInv

LEMMA CompleteInv == ASSUME IInv, NEW t \in Tasks, Complete(t) PROVE IInv'
<1>1. Shape'
  BY InputIsTask DEF IInv, Shape, Places, Complete, At, Running, Goto
<1>2. Frames'
  BY InputIsTask DEF IInv, Shape, Frames, Places, Complete, At, Running, Goto
<1>3. Agree'
  BY InputIsTask DEF IInv, Shape, Frames, Decided, Agree, Places, Complete, At, Running, Goto
<1> QED
  BY <1>1, <1>2, <1>3 DEF IInv

LEMMA CancelTimersInv == ASSUME IInv, NEW t \in Tasks, CancelTimers(t) PROVE IInv'
<1>1. Shape'
  BY InputIsTask DEF IInv, Shape, Places, CancelTimers, At, Running, Cancel, GoOn
<1>2. Frames'
  BY InputIsTask DEF IInv, Shape, Frames, Places, CancelTimers, At, Running, Cancel, GoOn
<1>3. Agree'
  BY InputIsTask
    DEF IInv, Shape, Frames, Decided, Agree, Places, CancelTimers, At, Running, Cancel,
        GoOn
<1> QED
  BY <1>1, <1>2, <1>3 DEF IInv

LEMMA RenewInv == ASSUME IInv, NEW t \in Tasks, Renew(t) PROVE IInv'
<1>1. Shape'
  BY InputIsTask DEF IInv, Shape, Places, Renew, At, Running, Goto
<1>2. Frames'
  BY InputIsTask DEF IInv, Shape, Frames, Places, Renew, At, Running, Goto
<1>3. Agree'
  BY InputIsTask DEF IInv, Shape, Frames, Decided, Agree, Places, Renew, At, Running, Goto
<1> QED
  BY <1>1, <1>2, <1>3 DEF IInv

LEMMA ArmInv == ASSUME IInv, NEW t \in Tasks, Arm(t) PROVE IInv'
<1>1. Shape'
  BY InputIsTask DEF IInv, Shape, Places, Arm, At, Running, Goto
<1>2. Frames'
  BY InputIsTask DEF IInv, Shape, Frames, Places, Arm, At, Running, Goto
<1>3. Agree'
  BY InputIsTask DEF IInv, Shape, Frames, Decided, Agree, Places, Arm, At, Running, Goto
<1> QED
  BY <1>1, <1>2, <1>3 DEF IInv

LEMMA CheckInv == ASSUME IInv, NEW t \in Tasks, Check(t) PROVE IInv'
<1>1. Shape'
  BY InputIsTask DEF IInv, Shape, Places, Check, At, Running, Goto
<1>2. Frames'
  BY InputIsTask DEF IInv, Shape, Frames, Places, Check, At, Running, Goto
<1>3. Agree'
  BY InputIsTask DEF IInv, Shape, Frames, Decided, Agree, Places, Check, At, Running, Goto
<1> QED
  BY <1>1, <1>2, <1>3 DEF IInv

LEMMA InferInv == ASSUME IInv, NEW t \in Tasks, Infer(t) PROVE IInv'
<1>1. Shape'
  BY InputIsTask DEF IInv, Shape, Places, Infer, At, Running, Goto
<1>2. Frames'
  BY InputIsTask DEF IInv, Shape, Frames, Places, Infer, At, Running, Goto
<1>3. Agree'
  BY InputIsTask DEF IInv, Shape, Frames, Decided, Agree, Places, Infer, At, Running, Goto
<1> QED
  BY <1>1, <1>2, <1>3 DEF IInv

LEMMA StopInv == ASSUME IInv, NEW t \in Tasks, Stop(t) PROVE IInv'
<1>1. Shape'
  BY InputIsTask DEF IInv, Shape, Places, Stop, At, Running, Goto, CancelThen, Discard
<1>2. Frames'
  BY InputIsTask DEF IInv, Shape, Frames, Places, Stop, At, Running, Goto, CancelThen, Discard
<1>3. Agree'
  BY InputIsTask
    DEF IInv, Shape, Frames, Decided, Agree, Places, Stop, At, Running, Goto, CancelThen,
        Discard
<1> QED
  BY <1>1, <1>2, <1>3 DEF IInv

LEMMA ReportStopInv == ASSUME IInv, NEW t \in Tasks, ReportStop(t) PROVE IInv'
<1>1. Shape'
  BY InputIsTask DEF IInv, Shape, Places, ReportStop, At, Running, Goto, KeepVad
<1>2. Frames'
  BY InputIsTask DEF IInv, Shape, Frames, Places, ReportStop, At, Running, Goto, KeepVad
<1>3. Agree'
  BY InputIsTask
    DEF IInv, Shape, Frames, Decided, Agree, Places, ReportStop, At, Running, Goto,
        KeepVad
<1> QED
  BY <1>1, <1>2, <1>3 DEF IInv

LEMMA ExpireInv == ASSUME IInv, NEW id \in Timers, Expire(id) PROVE IInv'
<1>1. Shape'
  BY InputIsTask, TimerIsTask, TimersAssumption DEF IInv, Shape, Places, Expire
<1>2. Frames'
  BY InputIsTask, TimerIsTask, TimersAssumption DEF IInv, Shape, Frames, Places, Expire, Timers
<1>3. Agree'
  BY InputIsTask, TimerIsTask, TimersAssumption
    DEF IInv, Shape, Frames, Decided, Agree, Places, Expire
<1> QED
  BY <1>1, <1>2, <1>3 DEF IInv

LEMMA FireInv == ASSUME IInv, NEW id \in Timers, Fire(id) PROVE IInv'
<1>1. Shape'
  BY InputIsTask, TimerIsTask, TimersAssumption
    DEF IInv, Shape, Places, Fire, At, Running, Goto
<1>2. Frames'
  BY InputIsTask, TimerIsTask, TimersAssumption
    DEF IInv, Shape, Frames, Places, Fire, At, Running, Goto, Timers
<1>3. Agree'
  BY InputIsTask, TimerIsTask, TimersAssumption
    DEF IInv, Shape, Frames, Decided, Agree, Places, Fire, At, Running, Goto
<1> QED
  BY <1>1, <1>2, <1>3 DEF IInv

LEMMA UnwindInv == ASSUME IInv, NEW id \in Timers, Unwind(id) PROVE IInv'
<1>1. Shape'
  BY InputIsTask, TimerIsTask, TimersAssumption DEF IInv, Shape, Places, Unwind
<1>2. Frames'
  BY InputIsTask, TimerIsTask, TimersAssumption DEF IInv, Shape, Frames, Places, Unwind, Timers
<1>3. Agree'
  BY InputIsTask, TimerIsTask, TimersAssumption
    DEF IInv, Shape, Frames, Decided, Agree, Places, Unwind
<1> QED
  BY <1>1, <1>2, <1>3 DEF IInv

LEMMA WatchdogInv == ASSUME IInv, Watchdog PROVE IInv'
<1>1. Shape'
  BY InputIsTask DEF IInv, Shape, Places, Watchdog
<1>2. Frames'
  BY InputIsTask DEF IInv, Shape, Frames, Places, Watchdog
<1>3. Agree'
  BY InputIsTask DEF IInv, Shape, Frames, Decided, Agree, Places, Watchdog
<1> QED
  BY <1>1, <1>2, <1>3 DEF IInv

(***************************************************************************)
(* Every step of the specification keeps the invariant, and it implies     *)
(* that the two agree.                                                     *)
(***************************************************************************)
LEMMA StutterInv == ASSUME IInv, UNCHANGED vars PROVE IInv'
BY DEF IInv, Shape, Frames, Decided, Agree, vars

LEMMA RunInv == ASSUME IInv, NEW t \in Tasks, Run(t) PROVE IInv'
BY DispatchInv, ReportStartInv, DecideStartInv, DecideStopInv, DecideTextInv, DecideInterimInv,
   CompleteInv, CancelTimersInv, RenewInv, ArmInv, CheckInv, InferInv, StopInv, ReportStopInv
  DEF Run

LEMMA NextInv == IInv /\ [Next]_vars => IInv'
<1> SUFFICES ASSUME IInv, [Next]_vars PROVE IInv'
  OBVIOUS
<1>1. CASE EventLoop
  BY <1>1, RunInv, RestInv, TakeVadInv, TakeTextInv, WatchdogInv, ExpireInv, FireInv, UnwindInv
  DEF EventLoop
<1>2. CASE Hear
  BY <1>2, HearInv
<1>3. CASE \E item \in Transcriptions : Transcribe(item)
  BY <1>3, TranscribeInv
<1>4. CASE UNCHANGED vars
  BY <1>4, StutterInv
<1> QED
  BY <1>1, <1>2, <1>3, <1>4 DEF Next

\* The stop strategy (speech_timeout_user_turn_stop_strategy.py) and the controller
\* (user_turn_controller.py) never disagree on whether the user speaks when the
\* frames of the VAD have been handled, whatever timers and transcriptions do.
THEOREM HeardAlikeHolds == Spec => []HeardAlike
<1>1. IInv => HeardAlike
  BY DEF IInv, Agree, Decided, HeardAlike
<1> QED
  BY <1>1, InitInv, NextInv, PTL DEF Spec

(***************************************************************************)
(* The types. The parts of TypeOK need each other only where a frame is    *)
(* taken and where a task goes on to its next place; the handles need that *)
(* a timer that is created is one that nobody uses.                        *)
(***************************************************************************)
Handles ==
  /\ speech \in SpeechTimers \cup {None} /\ stt \in SttTimers \cup {None}
  /\ timer \in [Timers -> {"none", "live", "cancelled", "fired"}]
  /\ speech # None => timer[speech] \in {"live", "cancelled"}
  /\ stt # None => timer[stt] \in {"live", "cancelled"}

Flags ==
  /\ userTurn \in BOOLEAN /\ userSpeaking \in BOOLEAN
  /\ text \in BOOLEAN /\ vadSpeaking \in BOOLEAN /\ vadStopped \in BOOLEAN
  /\ finalized \in BOOLEAN /\ speechDone \in BOOLEAN /\ sttDone \in BOOLEAN
  /\ aggregation \in BOOLEAN

\* What is in the input queue has been said.
Counts ==
  /\ heard \in 0..vads /\ vads \in 0..MaxVad /\ texts \in 0..MaxTexts
  /\ starts \in Nat /\ stops \in Nat

Loop == ready \in Seq(Tasks) /\ awaited \in [Tasks -> Timers \cup {None}]

\* A timer that is created is a new one.
LEMMA NewIsFree ==
  ASSUME NEW kind, Free(kind) # {}
  PROVE  New(kind) \in kind /\ timer[New(kind)] = "none"
BY DEF New, Free

LEMMA KindsDiffer ==
  /\ \A id \in SpeechTimers : id \in Timers /\ id \notin SttTimers /\ id # None
  /\ \A id \in SttTimers : id \in Timers /\ id \notin SpeechTimers /\ id # None
BY TimersAssumption DEF Timers

LEMMA HandlesStep == Handles /\ [Next]_vars => Handles'
<1> SUFFICES ASSUME Handles, [Next]_vars PROVE Handles'
  OBVIOUS
<1> USE KindsDiffer DEF Handles
<1>1. ASSUME NEW t \in Tasks, CancelTimers(t) PROVE Handles'
  BY <1>1 DEF CancelTimers, Cancel, GoOn
<1>2. ASSUME NEW t \in Tasks, Renew(t) PROVE Handles'
  BY <1>2, NewIsFree DEF Renew
<1>3. ASSUME NEW t \in Tasks, Arm(t) PROVE Handles'
  BY <1>3, NewIsFree DEF Arm
<1>4. ASSUME NEW t \in Tasks, Rest(t) PROVE Handles'
  BY <1>4 DEF Rest
<1>5. ASSUME NEW id \in Timers, Fire(id) \/ Unwind(id) PROVE Handles'
  BY <1>5 DEF Fire, Unwind, Clear
<1>6. CASE UNCHANGED handles
  BY <1>6
<1>7. ASSUME NEW t \in Tasks, Run(t)
      PROVE  CancelTimers(t) \/ Renew(t) \/ Arm(t) \/ UNCHANGED handles
  BY <1>7 DEF Run, Dispatch, ReportStart, DecideStart, DecideStop, DecideText, DecideInterim,
     Complete, Check, Infer, Stop, ReportStop
<1>8. ASSUME \/ TakeVad \/ TakeText \/ Watchdog \/ Hear \/ UNCHANGED vars
             \/ \E id \in Timers : Expire(id)
             \/ \E item \in Transcriptions : Transcribe(item)
      PROVE  UNCHANGED handles
  BY <1>8 DEF TakeVad, TakeText, Watchdog, Hear, Expire, Transcribe, vars
<1> QED
  BY <1>1, <1>2, <1>3, <1>4, <1>5, <1>6, <1>7, <1>8 DEF Next, EventLoop

LEMMA FlagsStep == Flags /\ [Next]_vars => Flags'
<1> SUFFICES ASSUME Flags, [Next]_vars PROVE Flags'
  OBVIOUS
<1> USE DEF Flags
<1>1. ASSUME NEW t \in Tasks, Run(t) PROVE Flags'
  <2>1. CASE Dispatch(t) \/ ReportStart(t)
    BY <2>1 DEF Dispatch, ReportStart, Discard
  <2>2. CASE DecideStart(t) \/ DecideStop(t) \/ DecideText(t) \/ DecideInterim(t)
    BY <2>2 DEF DecideStart, DecideStop, DecideText, DecideInterim, Discard
  <2>3. CASE Complete(t)
    BY <2>3 DEF Complete
  <2>4. CASE CancelTimers(t) \/ Renew(t) \/ Arm(t)
    BY <2>4 DEF CancelTimers, Renew, Arm
  <2>5. CASE Check(t) \/ Infer(t) \/ ReportStop(t)
    BY <2>5 DEF Check, Infer, ReportStop, Flush, KeepVad
  <2>6. CASE Stop(t)
    BY <2>6 DEF Stop, Discard
  <2> QED
    BY <1>1, <2>1, <2>2, <2>3, <2>4, <2>5, <2>6 DEF Run
<1>2. ASSUME NEW t \in Tasks, Rest(t) PROVE Flags'
  BY <1>2 DEF Rest
<1>3. ASSUME NEW id \in Timers, Fire(id) \/ Unwind(id) \/ Expire(id) PROVE Flags'
  BY <1>3 DEF Fire, Unwind, Expire
<1>4. CASE TakeVad \/ TakeText \/ Watchdog \/ Hear \/ UNCHANGED vars
  BY <1>4 DEF TakeVad, TakeText, Watchdog, Hear, vars
<1>5. ASSUME NEW item \in Transcriptions, Transcribe(item) PROVE Flags'
  BY <1>5 DEF Transcribe
<1> QED
  BY <1>1, <1>2, <1>3, <1>4, <1>5 DEF Next, EventLoop

LEMMA CountsStep == Counts /\ [Next]_vars => Counts'
<1> SUFFICES ASSUME Counts, [Next]_vars PROVE Counts'
  OBVIOUS
<1> USE TimersAssumption DEF Counts
<1>1. CASE Hear
  BY <1>1 DEF Hear
<1>2. ASSUME NEW item \in Transcriptions, Transcribe(item) PROVE Counts'
  BY <1>2 DEF Transcribe
<1>3. CASE TakeVad
  BY <1>3 DEF TakeVad
<1>4. ASSUME NEW t \in Tasks, ReportStart(t) \/ ReportStop(t) PROVE Counts'
  <2>1. /\ UNCHANGED <<heard, vads, texts>>
        /\ starts' = starts \/ starts' = starts + 1
        /\ stops' = stops \/ stops' = stops + 1
    BY <1>4 DEF ReportStart, ReportStop
  <2> QED
    BY <2>1
<1>5. CASE UNCHANGED <<heard, bounds, events>>
  BY <1>5
<1>6. ASSUME NEW t \in Tasks, Run(t)
      PROVE  ReportStart(t) \/ ReportStop(t) \/ UNCHANGED <<heard, bounds, events>>
  BY <1>6 DEF Run, Dispatch, DecideStart, DecideStop, DecideText, DecideInterim, Complete,
     CancelTimers, Renew, Arm, Check, Infer, Stop
<1>7. ASSUME \/ TakeText \/ Watchdog \/ UNCHANGED vars
             \/ \E t \in Tasks : Rest(t)
             \/ \E id \in Timers : Expire(id) \/ Fire(id) \/ Unwind(id)
      PROVE  UNCHANGED <<heard, bounds, events>>
  BY <1>7 DEF TakeText, Watchdog, Rest, Expire, Fire, Unwind, vars
<1> QED
  BY <1>1, <1>2, <1>3, <1>4, <1>5, <1>6, <1>7 DEF Next, EventLoop

\* The tasks that a timer wakes, in some order
LEMMA WaitersAreTasks ==
  ASSUME NEW waiters \in SUBSET Tasks, NEW order \in SetToSeqs(waiters)
  PROVE  order \in Seq(Tasks) /\ \A t \in waiters : Contains(order, t)
<1>1. IsFiniteSet(Tasks)
  <2>1. IsFiniteSet(Timers)
    BY TimersAssumption, FS_Union DEF Timers
  <2>2. IsFiniteSet(Timers \cup {"input"})
    BY <2>1, FS_AddElement
  <2>3. IsFiniteSet((Timers \cup {"input"}) \cup {"process"})
    BY <2>2, FS_AddElement
  <2>4. IsFiniteSet(((Timers \cup {"input"}) \cup {"process"}) \cup {"watchdog"})
    BY <2>3, FS_AddElement
  <2>5. Tasks = ((Timers \cup {"input"}) \cup {"process"}) \cup {"watchdog"}
    BY DEF Tasks
  <2> QED
    BY <2>4, <2>5
<1> DEFINE n == Cardinality(waiters)
<1>2. IsFiniteSet(waiters) /\ n \in Nat
  BY <1>1, FS_Subset, FS_CardinalityType
<1>3. order \in [1..n -> waiters] /\ \A i, j \in 1..n : i # j => order[i] # order[j]
  BY DEF SetToSeqs
<1>4. order \in Injection(1..n, waiters)
  BY <1>3 DEF Injection, IsInjective
<1>5. IsFiniteSet(1..n) /\ Cardinality(1..n) = n
  BY <1>2, FS_Interval
<1>6. order \in Surjection(1..n, waiters)
  BY <1>2, <1>4, <1>5, FS_Injection
<1>7. order \in Seq(Tasks) /\ Len(order) = n
  BY <1>2, <1>3
<1> HIDE DEF n
<1>8. \A t \in waiters : Contains(order, t)
  BY <1>6, <1>7 DEF Surjection, Contains
<1> QED
  BY <1>7, <1>8

LEMMA LoopStep == Loop /\ Handles /\ [Next]_vars => Loop'
<1> SUFFICES ASSUME Loop, Handles, [Next]_vars PROVE Loop'
  OBVIOUS
<1> USE InputIsTask, TimerIsTask, KindsDiffer DEF Loop
<1>1. ASSUME NEW t \in Tasks, Wake(t), UNCHANGED awaited PROVE Loop'
  BY <1>1 DEF Wake
<1>2. ASSUME ready # <<>>, ready' = Tail(ready), UNCHANGED awaited PROVE Loop'
  BY <1>2
<1>3. CASE UNCHANGED <<ready, awaited>>
  BY <1>3
<1>4. ASSUME NEW t \in Tasks, CancelTimers(t) PROVE Loop'
  <2>0. ready # <<>>
    BY <1>4 DEF CancelTimers, Cancel, GoOn, At, Running
  <2>1. Tail(ready) \in Seq(Tasks)
    BY <2>0
  <2>2. ASSUME NEW place, NEW id \in Timers \cup {None}, Cancel(t, place, id) PROVE Loop'
    <3>1. id \in Timers
      BY <2>2 DEF Cancel
    <3> QED
      BY <2>1, <2>2, <3>1 DEF Cancel
  <2>3. ASSUME NEW place, NEW id, NEW to, GoOn(t, place, id, to) PROVE Loop'
    BY <2>3 DEF GoOn
  <2>4. speech \in Timers \cup {None} /\ stt \in Timers \cup {None}
    BY DEF Handles
  <2> QED
    BY <1>4, <2>2, <2>3, <2>4 DEF CancelTimers
<1>5. ASSUME NEW id \in Timers, Unwind(id) PROVE Loop'
  <2>1. PICK order \in SetToSeqs({t \in Tasks : awaited[t] = id}) :
          ready' = Tail(ready) \o order
    BY <1>5 DEF Unwind
  <2>2. order \in Seq(Tasks)
    BY WaitersAreTasks
  <2>3. ready # <<>>
    BY <1>5 DEF Unwind, At, Running
  <2>4. ready' \in Seq(Tasks)
    <3>1. Tail(ready) \in Seq(Tasks)
      BY <2>3
    <3> QED
      BY <2>1, <2>2, <3>1
  <2> QED
    BY <1>5, <2>4 DEF Unwind
<1>6. ASSUME NEW t \in Tasks, Run(t)
      PROVE  CancelTimers(t) \/ UNCHANGED <<ready, awaited>>
  BY <1>6 DEF Run, Dispatch, ReportStart, DecideStart, DecideStop, DecideText, DecideInterim,
     Complete, Renew, Arm, Check, Infer, Stop, ReportStop, Goto, CancelThen
<1>7. ASSUME NEW t \in Tasks, Rest(t) PROVE Loop'
  BY <1>2, <1>7 DEF Rest, At, Running
<1>8. ASSUME NEW id \in Timers, Expire(id) \/ Fire(id) PROVE Loop'
  <2>1. CASE Expire(id)
    BY <1>1, <2>1 DEF Expire
  <2>2. CASE Fire(id)
    BY <1>3, <2>2 DEF Fire, Goto
  <2> QED
    BY <1>8, <2>1, <2>2
<1>9. CASE TakeVad \/ TakeText \/ UNCHANGED vars
  BY <1>3, <1>9 DEF TakeVad, TakeText, Begin, vars
<1>10. CASE Watchdog
  <2>1. <<"watchdog">> \in Seq(Tasks)
    OBVIOUS
  <2> QED
    BY <1>10, <2>1 DEF Watchdog
<1>11. CASE Hear
  BY <1>1, <1>3, <1>11 DEF Hear
<1>12. ASSUME NEW item \in Transcriptions, Transcribe(item) PROVE Loop'
  BY <1>1, <1>3, <1>12 DEF Transcribe
<1> QED
  BY <1>3, <1>4, <1>5, <1>6, <1>7, <1>8, <1>9, <1>10, <1>11, <1>12 DEF Next, EventLoop

Types == IInv /\ Handles /\ Flags /\ Counts /\ Loop

LEMMA TypesInvariant == Spec => []Types
<1>1. Init => Types
  <2> SUFFICES ASSUME Init PROVE Types
    OBVIOUS
  <2>1. Handles /\ Flags
    BY DEF Init, Handles, Flags
  <2>2. Counts
    BY TimersAssumption DEF Init, Counts
  <2>3. Loop
    <3>1. <<>> \in Seq(Tasks)
      OBVIOUS
    <3> QED
      BY <3>1 DEF Init, Loop
  <2> QED
    BY <2>1, <2>2, <2>3, InitInv DEF Types
<1>2. Types /\ [Next]_vars => Types'
  BY NextInv, HandlesStep, FlagsStep, CountsStep, LoopStep DEF Types
<1> QED
  BY <1>1, <1>2, PTL DEF Spec

\* Every variable keeps its type, and the handles of the stop strategy
\* (speech_timeout_user_turn_stop_strategy.py) refer to timers that still run or are being
\* cancelled, never to one that is over.
THEOREM TypeCorrect == Spec => []TypeOK
<1>1. Types => TypeOK
  BY TimersAssumption DEF Types, IInv, Shape, Handles, Flags, Counts, Loop, TypeOK
<1> QED
  BY <1>1, TypesInvariant, PTL

-----------------------------------------------------------------------------
(***************************************************************************)
(* Nobody is forgotten                                                     *)
(***************************************************************************)
\* Task t is in the middle of its run, or has something to take.
Busy(t) ==
  \/ at[t] # "idle" \/ awaited[t] # None
  \/ t = "input" /\ heard > 0
  \/ t = "process" /\ pending # <<>>
  \/ t \in Timers /\ timer[t] \in {"cancelled", "fired"}

Awaits(t) == awaited[t] # None /\ timer[awaited[t]] = "cancelled"

Served == \A t \in Tasks : Busy(t) => Contains(ready, t) \/ Awaits(t)

\* A timer does nothing before its time is up.
Still == \A id \in Timers : timer[id] # "fired" => at[id] = "idle" /\ awaited[id] = None

\* A task that runs is ready, and what it does leaves the others in the loop.
LEMMA HeadIsReady ==
  ASSUME ready \in Seq(Tasks), NEW t \in Tasks, ready # <<>>, Head(ready) = t
  PROVE  Contains(ready, t)
<1> Len(ready) \in Nat /\ Len(ready) > 0 /\ ready[1] = t
  OBVIOUS
<1> QED
  BY DEF Contains

LEMMA TailKeeps ==
  ASSUME ready \in Seq(Tasks), ready # <<>>, NEW x, x # Head(ready), Contains(ready, x)
  PROVE  Contains(Tail(ready), x)
<1> DEFINE s == Tail(ready)
<1>1. /\ Len(ready) \in Nat /\ Len(s) = Len(ready) - 1
      /\ \A i \in 1..Len(s) : s[i] = ready[i + 1]
      /\ Head(ready) = ready[1]
  OBVIOUS
<1>2. PICK i \in 1..Len(ready) : ready[i] = x
  BY DEF Contains
<1>3. i # 1 /\ i - 1 \in 1..Len(s) /\ (i - 1) + 1 = i
  BY <1>1, <1>2
<1>4. s[i - 1] = x
  BY <1>1, <1>2, <1>3
<1> HIDE DEF s
<1> QED
  <2>1. Contains(s, x)
    BY <1>3, <1>4 DEF Contains
  <2> QED
    BY <2>1 DEF s

LEMMA AppendKeeps ==
  ASSUME NEW s \in Seq(Tasks), NEW e \in Tasks
  PROVE  Contains(Append(s, e), e) /\ \A x : Contains(s, x) => Contains(Append(s, e), x)
<1> DEFINE r == Append(s, e)
<1>1. /\ Len(s) \in Nat /\ Len(r) = Len(s) + 1 /\ r[Len(s) + 1] = e
      /\ \A i \in 1..Len(s) : r[i] = s[i]
  OBVIOUS
<1> HIDE DEF r
<1>2. Contains(r, e) /\ \A x : Contains(s, x) => Contains(r, x)
  BY <1>1 DEF Contains
<1> QED
  BY <1>2 DEF r

LEMMA ConcatKeeps ==
  ASSUME NEW s \in Seq(Tasks), NEW q \in Seq(Tasks)
  PROVE  \A x : Contains(s, x) \/ Contains(q, x) => Contains(s \o q, x)
<1> DEFINE r == s \o q
<1>1. /\ Len(s) \in Nat /\ Len(q) \in Nat /\ Len(r) = Len(s) + Len(q)
      /\ \A i \in 1..Len(s) : r[i] = s[i]
      /\ \A i \in 1..Len(q) : r[Len(s) + i] = q[i]
  OBVIOUS
<1> HIDE DEF r
<1>2. \A x : Contains(s, x) => Contains(r, x)
  BY <1>1 DEF Contains
<1>3. ASSUME NEW x, Contains(q, x) PROVE Contains(r, x)
  <2>1. PICK i \in 1..Len(q) : q[i] = x
    BY <1>3 DEF Contains
  <2>2. Len(s) + i \in 1..Len(r) /\ r[Len(s) + i] = x
    BY <1>1, <2>1
  <2> QED
    BY <2>2 DEF Contains
<1> QED
  BY <1>2, <1>3 DEF r

LEMMA WakeKeeps ==
  ASSUME ready \in Seq(Tasks), NEW t \in Tasks, Wake(t)
  PROVE  Contains(ready', t) /\ \A x : Contains(ready, x) => Contains(ready', x)
BY AppendKeeps DEF Wake

\* What a step of a task leaves alone. The timer that it creates is waited for by nobody.
LEMMA RunEffect ==
  ASSUME Shape, Handles, Loop, NEW t \in Tasks, Run(t), ~CancelTimers(t)
  PROVE  /\ Running(t) /\ UNCHANGED <<ready, awaited, heard>>
         /\ at[t] # "idle" /\ \A x \in Tasks \ {t} : at'[x] = at[x]
         /\ pending' # <<>> => pending' = pending
         /\ \A id \in Timers : timer'[id] = timer[id]
              \/ (timer[id] = "none" /\ timer'[id] = "live" /\ \A x \in Tasks : awaited[x] # id)
<1> USE DEF Shape, Handles, Loop
<1>1. Running(t) /\ UNCHANGED <<ready, awaited, heard>> /\ at[t] # "idle"
  BY DEF Run, Dispatch, ReportStart, DecideStart, DecideStop, DecideText, DecideInterim,
     Complete, Renew, Arm, Check, Infer, Stop, ReportStop, Goto, CancelThen, At
<1>2. \A x \in Tasks \ {t} : at'[x] = at[x]
  BY DEF Run, Dispatch, ReportStart, DecideStart, DecideStop, DecideText, DecideInterim,
     Complete, Renew, Arm, Check, Infer, Stop, ReportStop, Goto, CancelThen
<1>3. pending' # <<>> => pending' = pending
  BY DEF Run, Dispatch, ReportStart, DecideStart, DecideStop, DecideText, DecideInterim,
     Complete, Renew, Arm, Check, Infer, Stop, ReportStop
<1>4. ASSUME NEW kind \in {SpeechTimers, SttTimers}, Free(kind) # {},
             timer' = [timer EXCEPT ![New(kind)] = "live"], NEW id \in Timers
      PROVE  timer'[id] = timer[id]
              \/ (timer[id] = "none" /\ timer'[id] = "live" /\ \A x \in Tasks : awaited[x] # id)
  <2>1. New(kind) \in Free(kind)
    BY <1>4 DEF New
  <2>2. timer[New(kind)] = "none" /\ \A x \in Tasks : awaited[x] # New(kind)
    BY <2>1 DEF Free
  <2> QED
    BY <1>4, <2>2
<1>5. \/ UNCHANGED timer
      \/ \E kind \in {SpeechTimers, SttTimers} :
           Free(kind) # {} /\ timer' = [timer EXCEPT ![New(kind)] = "live"]
  BY DEF Run, Dispatch, ReportStart, DecideStart, DecideStop, DecideText, DecideInterim,
     Complete, Renew, Arm, Check, Infer, Stop, ReportStop
<1> QED
  BY <1>1, <1>2, <1>3, <1>4, <1>5

LEMMA StillStep == Still /\ Shape /\ Handles /\ Loop /\ [Next]_vars => Still'
<1> SUFFICES ASSUME Still, Shape, Handles, Loop, [Next]_vars PROVE Still'
  OBVIOUS
<1> USE TimerIsTask, InputIsTask, KindsDiffer DEF Still
<1>1. ASSUME NEW t \in Tasks, Run(t), ~CancelTimers(t) PROVE Still'
  BY <1>1, RunEffect
<1>2. ASSUME NEW t \in Tasks, CancelTimers(t) PROVE Still'
  <2>1. ASSUME NEW place \in Places \ {"idle"}, NEW id \in {speech, stt}, Cancel(t, place, id)
        PROVE  Still'
    <3>1. id \in Timers /\ timer[id] \in {"live", "cancelled"} /\ at[t] # "idle"
      BY <2>1 DEF Cancel, Handles, At
    <3> QED
      BY <2>1, <3>1 DEF Cancel, Handles, Loop, Shape
  <2>2. ASSUME NEW place \in Places \ {"idle"}, NEW id, NEW to, GoOn(t, place, id, to), UNCHANGED timer
        PROVE  Still'
    BY <2>2 DEF GoOn, Handles, Loop, Shape
  <2> QED
    BY <1>2, <2>1, <2>2 DEF CancelTimers, Places
<1>3. ASSUME NEW t \in Tasks, Rest(t) PROVE Still'
  BY <1>3 DEF Rest, At, Running, Handles
<1>4. ASSUME NEW id \in Timers, Fire(id) PROVE Still'
  BY <1>4 DEF Fire, Goto, Handles, Shape
<1>5. ASSUME NEW id \in Timers, Unwind(id) PROVE Still'
  BY <1>5 DEF Unwind, At, Running, Handles
<1>6. CASE UNCHANGED <<at, awaited, timer>>
  BY <1>6
<1>7. CASE TakeVad \/ TakeText \/ Watchdog
  <2> \A id \in Timers : id # "input" /\ id # "process" /\ id # "watchdog"
    BY TimersAssumption DEF Timers
  <2> QED
    BY <1>7 DEF TakeVad, TakeText, Watchdog, Begin, Shape
<1>8. ASSUME Hear \/ UNCHANGED vars \/ (\E id \in Timers : Expire(id))
             \/ \E item \in Transcriptions : Transcribe(item)
      PROVE  UNCHANGED <<at, awaited, timer>>
  BY <1>8 DEF Hear, Expire, Transcribe, vars
<1> QED
  BY <1>1, <1>2, <1>3, <1>4, <1>5, <1>6, <1>7, <1>8 DEF Next, EventLoop

\* The others stay ready, and who waits goes on waiting, when no timer ends.
LEMMA ServedKept ==
  ASSUME Served, Loop, Handles, NEW x \in Tasks, Busy(x),
         Contains(ready, x) => Contains(ready', x), awaited'[x] = awaited[x],
         \A id \in Timers : timer[id] = "cancelled" /\ awaited[x] = id => timer'[id] = "cancelled"
  PROVE  Contains(ready', x) \/ (awaited'[x] # None /\ timer'[awaited'[x]] = "cancelled")
<1>1. Contains(ready, x) \/ Awaits(x)
  BY DEF Served
<1>2. CASE Awaits(x)
  BY <1>2 DEF Awaits, Loop
<1> QED
  BY <1>1, <1>2

LEMMA ServedStep == Served /\ Still /\ Shape /\ Handles /\ Loop /\ [Next]_vars => Served'
<1> SUFFICES ASSUME Served, Still, Shape, Handles, Loop, [Next]_vars, NEW x \in Tasks, Busy(x)'
             PROVE  Contains(ready', x) \/ (awaited'[x] # None /\ timer'[awaited'[x]] = "cancelled")
  BY DEF Served, Awaits
<1> DEFINE Goal == Contains(ready', x) \/ (awaited'[x] # None /\ timer'[awaited'[x]] = "cancelled")
<1> USE TimerIsTask, InputIsTask, KindsDiffer
<1>1. ASSUME NEW t \in Tasks, Run(t), ~CancelTimers(t) PROVE Goal
  <2>1. CASE x = t
    BY <1>1, <2>1, RunEffect, HeadIsReady DEF Running, Loop
  <2>2. CASE x # t
    <3>1. Busy(x)
      BY <1>1, <2>2, RunEffect DEF Busy
    <3>2. ready' = ready /\ awaited' = awaited
      BY <1>1, RunEffect
    <3>3. \A id \in Timers : timer[id] = "cancelled" => timer'[id] = "cancelled"
      BY <1>1, RunEffect
    <3> QED
      BY <3>1, <3>2, <3>3, ServedKept
  <2> QED
    BY <2>1, <2>2
<1>2. ASSUME NEW t \in Tasks, NEW place \in Places \ {"idle"}, NEW id \in {speech, stt},
             Cancel(t, place, id), UNCHANGED <<heard, pending>>
      PROVE  Goal
  <2>1. /\ id \in Timers /\ timer[id] \in {"live", "cancelled"} /\ at[t] # "idle"
        /\ ready # <<>> /\ Head(ready) = t
    BY <1>2 DEF Cancel, Handles, At, Running
  <2>2. id # t /\ at[id] = "idle"
    BY <2>1 DEF Still
  <2>3. Tail(ready) \in Seq(Tasks)
    BY <2>1 DEF Loop
  <2>4. Contains(ready', id)
    BY <1>2, <2>1, <2>2, <2>3, TailKeeps, AppendKeeps DEF Cancel, Loop
  <2>5. CASE x = t
    BY <1>2, <2>1, <2>5 DEF Cancel, Loop, Handles
  <2>6. CASE x # t /\ x # id
    <3>1. Busy(x)
      BY <1>2, <2>6 DEF Busy, Cancel, Handles, Loop
    <3>2. Contains(ready, x) => Contains(ready', x)
      BY <1>2, <2>1, <2>3, <2>6, TailKeeps, AppendKeeps DEF Cancel, Loop
    <3>3. awaited'[x] = awaited[x]
      BY <1>2, <2>6 DEF Cancel, Loop
    <3>4. \A i \in Timers : timer[i] = "cancelled" => timer'[i] = "cancelled"
      BY <1>2 DEF Cancel, Handles
    <3> QED
      BY <3>1, <3>2, <3>3, <3>4, ServedKept
  <2> QED
    BY <2>4, <2>5, <2>6
<1>3. ASSUME NEW t \in Tasks, NEW place, NEW id, NEW to, GoOn(t, place, id, to),
             UNCHANGED <<timer, heard, pending>>
      PROVE  Goal
  <2>1. CASE x = t
    BY <1>3, <2>1, HeadIsReady DEF GoOn, Loop
  <2>2. CASE x # t
    <3>1. Busy(x)
      BY <1>3, <2>2 DEF Busy, GoOn, Shape, Loop
    <3>2. ready' = ready /\ awaited'[x] = awaited[x] /\ timer' = timer
      BY <1>3, <2>2 DEF GoOn, Loop
    <3> QED
      BY <3>1, <3>2, ServedKept
  <2> QED
    BY <2>1, <2>2
<1>4. ASSUME NEW t \in Tasks, CancelTimers(t) PROVE Goal
  BY <1>2, <1>3, <1>4 DEF CancelTimers, Places, aggregator
<1>5. ASSUME NEW t \in Tasks, Rest(t) PROVE Goal
  <2>1. /\ ready # <<>> /\ Head(ready) = t /\ awaited[t] = None /\ at[t] = "idle"
        /\ ready' = Tail(ready) /\ awaited' = awaited /\ at' = at
        /\ heard' = heard /\ pending' = pending
        /\ t = "input" => heard = 0
        /\ t = "process" => pending = <<>>
    BY <1>5 DEF Rest, At, Running
  <2>2. /\ t \in Timers => timer[t] = "fired" /\ timer'[t] = "none"
        /\ \A id \in Timers : id # t => timer'[id] = timer[id]
    BY <1>5 DEF Rest, Handles
  <2>3. x # t
    BY <2>1, <2>2 DEF Busy
  <2>4. Busy(x)
    BY <2>1, <2>2, <2>3 DEF Busy
  <2>5. Contains(ready, x) => Contains(ready', x)
    BY <2>1, <2>3, TailKeeps DEF Loop
  <2>6. \A id \in Timers : timer[id] = "cancelled" => timer'[id] = "cancelled"
    BY <2>2
  <2> QED
    BY <2>1, <2>4, <2>5, <2>6, ServedKept
<1>6. ASSUME NEW id \in Timers, Unwind(id) PROVE Goal
  <2>1. /\ ready # <<>> /\ Head(ready) = id /\ awaited' = awaited /\ at' = at
        /\ heard' = heard /\ pending' = pending
        /\ timer[id] = "cancelled" /\ timer'[id] = "none"
        /\ \A i \in Timers : i # id => timer'[i] = timer[i]
    BY <1>6 DEF Unwind, At, Running, Handles
  <2>2. at[id] = "idle" /\ awaited[id] = None
    BY <2>1 DEF Still
  <2>3. id # "input" /\ id # "process"
    BY TimersAssumption DEF Timers
  <2>4. x # id
    BY <2>1, <2>2, <2>3 DEF Busy
  <2>5. Busy(x)
    BY <2>1, <2>4 DEF Busy
  <2>6. PICK order \in SetToSeqs({t \in Tasks : awaited[t] = id}) : ready' = Tail(ready) \o order
    BY <1>6 DEF Unwind
  <2>7. order \in Seq(Tasks) /\ (awaited[x] = id => Contains(order, x))
    BY WaitersAreTasks
  <2>8. Tail(ready) \in Seq(Tasks)
    BY <2>1 DEF Loop
  <2>9. Contains(ready, x) \/ awaited[x] = id => Contains(ready', x)
    BY <2>1, <2>4, <2>6, <2>7, <2>8, TailKeeps, ConcatKeeps DEF Loop
  <2>10. CASE awaited[x] # id
    BY <2>1, <2>5, <2>9, <2>10, ServedKept
  <2> QED
    BY <2>9, <2>10
<1>7. ASSUME NEW id \in Timers, Fire(id) PROVE Goal
  <2>1. /\ ready # <<>> /\ Head(ready) = id /\ ready' = ready /\ awaited' = awaited
        /\ heard' = heard /\ pending' = pending
        /\ \A t \in Tasks : t # id => at'[t] = at[t]
        /\ timer[id] = "live" /\ \A i \in Timers : i # id => timer'[i] = timer[i]
    BY <1>7 DEF Fire, At, Running, Handles, Goto, Shape
  <2>2. CASE x = id
    BY <2>1, <2>2, HeadIsReady DEF Loop
  <2>3. CASE x # id
    <3>1. Busy(x)
      BY <2>1, <2>3 DEF Busy
    <3>2. \A i \in Timers : timer[i] = "cancelled" => timer'[i] = "cancelled"
      BY <2>1
    <3> QED
      BY <2>1, <3>1, <3>2, ServedKept
  <2> QED
    BY <2>2, <2>3
<1>8. ASSUME NEW t \in Tasks, Wake(t), UNCHANGED <<at, awaited, timer>>,
             x # t => /\ x = "input" => heard' = heard
                      /\ x = "process" => pending' = pending
      PROVE  Goal
  <2>1. CASE x = t
    BY <1>8, <2>1, WakeKeeps DEF Loop
  <2>2. CASE x # t
    <3>1. Busy(x)
      BY <1>8, <2>2 DEF Busy
    <3> QED
      BY <1>8, <3>1, ServedKept, WakeKeeps DEF Loop
  <2> QED
    BY <2>1, <2>2
<1>9. CASE UNCHANGED <<ready, at, awaited, timer>> /\ Busy(x)
  BY <1>9, ServedKept
<1>10. ASSUME NEW t \in Tasks, At(t, "idle"), UNCHANGED <<ready, awaited, timer>>,
              x # t => /\ at'[x] = at[x]
                       /\ x = "input" => heard' = heard
                       /\ x = "process" => pending' = pending
       PROVE  Goal
  <2>1. CASE x = t
    BY <1>10, <2>1, HeadIsReady DEF At, Running, Loop
  <2>2. CASE x # t
    <3>1. Busy(x)
      BY <1>10, <2>2 DEF Busy
    <3> QED
      BY <1>10, <3>1, ServedKept
  <2> QED
    BY <2>1, <2>2
<1>11. CASE Watchdog
  <2>1. /\ ready = <<>> /\ \A id \in Timers : timer[id] = "none"
        /\ ready' = <<"watchdog">> /\ UNCHANGED <<awaited, timer, heard, pending>>
        /\ x # "watchdog" => at'[x] = at[x]
    BY <1>11 DEF Watchdog, Shape
  <2>2. ~Contains(ready, x) /\ ~Awaits(x)
    BY <2>1 DEF Contains, Awaits, Loop
  <2>3. x # "watchdog" => Busy(x)
    BY <2>1 DEF Busy
  <2>4. x = "watchdog"
    BY <2>2, <2>3 DEF Served
  <2>5. Len(ready') = 1 /\ ready'[1] = "watchdog"
    BY <2>1
  <2> QED
    BY <2>4, <2>5 DEF Contains
<1>12. CASE Hear
  <2>1. CASE at["input"] = "idle"
    BY <1>8, <1>12, <2>1 DEF Hear
  <2>2. CASE at["input"] # "idle"
    <3>1. Busy(x)
      BY <1>12, <2>2 DEF Hear, Busy
    <3> QED
      BY <1>9, <1>12, <2>2, <3>1 DEF Hear
  <2> QED
    BY <2>1, <2>2
<1>13. ASSUME NEW item \in Transcriptions, Transcribe(item) PROVE Goal
  <2>1. CASE at["process"] = "idle"
    BY <1>8, <1>13, <2>1 DEF Transcribe
  <2>2. CASE at["process"] # "idle"
    <3>1. Busy(x)
      BY <1>13, <2>2 DEF Transcribe, Busy
    <3> QED
      BY <1>9, <1>13, <2>2, <3>1 DEF Transcribe
  <2> QED
    BY <2>1, <2>2
<1>14. ASSUME NEW id \in Timers, Expire(id) PROVE Goal
  BY <1>8, <1>14 DEF Expire
<1>15. CASE TakeVad \/ TakeText
  BY <1>10, <1>15 DEF TakeVad, TakeText, Begin, Shape
<1>16. CASE UNCHANGED vars
  <2>1. Busy(x)
    BY <1>16 DEF Busy, vars
  <2> QED
    BY <1>9, <1>16, <2>1 DEF vars
<1> QED
  BY <1>1, <1>4, <1>5, <1>6, <1>7, <1>11, <1>12, <1>13, <1>14, <1>15, <1>16 DEF Next, EventLoop

\* Who has something left to do is ready, or waits for a timer that has been cancelled and
\* is itself ready; and that timer waits for nobody. So no cancel_task waits for ever, no two
\* tasks wait for each other, and what was heard or transcribed is not left in a queue,
\* whichever tasks cancel a timer at the same time (cancel_task in
\* utils/asyncio/task_manager.py, as the stop strategy uses it).
Scheduled ==
  \A t \in Tasks : Busy(t) =>
    \/ Contains(ready, t)
    \/ \E id \in Timers : /\ awaited[t] = id /\ timer[id] = "cancelled"
                          /\ Contains(ready, id) /\ at[id] = "idle" /\ awaited[id] = None

THEOREM NobodyForgotten == Spec => []Scheduled
<1>1. Init => Served /\ Still
  BY InputIsTask, TimerIsTask DEF Init, Served, Still, Busy
<1>2. Types /\ Served /\ Still /\ [Next]_vars => Served' /\ Still'
  BY ServedStep, StillStep DEF Types, IInv
<1>3. Types /\ Served /\ Still => Scheduled
  <2> SUFFICES ASSUME Types, Served, Still, NEW t \in Tasks, Busy(t), ~Contains(ready, t)
               PROVE  \E id \in Timers :
                        /\ awaited[t] = id /\ timer[id] = "cancelled"
                        /\ Contains(ready, id) /\ at[id] = "idle" /\ awaited[id] = None
    BY DEF Scheduled
  <2>1. Awaits(t)
    BY DEF Served
  <2>2. PICK id \in Timers : awaited[t] = id /\ timer[id] = "cancelled"
    BY <2>1 DEF Awaits, Types, Loop
  <2>3. at[id] = "idle" /\ awaited[id] = None
    BY <2>2 DEF Still
  <2>4. Contains(ready, id)
    BY <2>2, <2>3, TimerIsTask DEF Served, Busy, Awaits
  <2> QED
    BY <2>2, <2>3, <2>4
<1> QED
  BY <1>1, <1>2, <1>3, TypesInvariant, PTL DEF Spec
==============================================================================
