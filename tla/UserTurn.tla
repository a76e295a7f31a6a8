------------------------------ MODULE UserTurn ------------------------------
(***************************************************************************)
(* The user turn of the user aggregator: the UserTurnController            *)
(* (turns/user_turn_controller.py) with VADUserTurnStartStrategy,          *)
(* TranscriptionUserTurnStartStrategy and SpeechTimeoutUserTurnStopStrategy *)
(* (turns/user_start, turns/user_stop), and what the aggregator            *)
(* (processors/aggregators/llm_response_universal.py) does at its events.  *)
(*                                                                         *)
(* The input task of the aggregator handles the frames of the VAD, its     *)
(* process task those of the speech recognition; timers run in tasks of    *)
(* their own, and so does the watchdog of the controller. The event loop   *)
(* runs the tasks that are ready one after the other, each until it awaits *)
(* a timer that it has cancelled or has no more to do; at these awaits two *)
(* of them come to work on the same turn.                                  *)
(***************************************************************************)
EXTENDS Naturals, Sequences, FiniteSets, SequencesExt

CONSTANTS
  SpeechTimers,  \* bound: tasks for _user_speech_timeout_handler
  SttTimers,     \* bound: tasks for _stt_timeout_handler
  None,          \* the handle of no timer
  MaxVad,        \* bound: frames of the VAD
  MaxTexts       \* bound: transcriptions

ASSUME TimersAssumption ==
  /\ SpeechTimers \cap SttTimers = {} /\ None \notin SpeechTimers \cup SttTimers
  /\ \A task \in {"input", "process", "watchdog"} : task \notin SpeechTimers \cup SttTimers
  /\ IsFiniteSet(SpeechTimers) /\ IsFiniteSet(SttTimers)
  /\ MaxVad \in Nat /\ MaxTexts \in Nat

Timers == SpeechTimers \cup SttTimers
Tasks == {"input", "process", "watchdog"} \cup Timers

\* Interim, final, and final with nothing more to come (frame.finalized)
Transcriptions == {"interim", "text", "final"}

VARIABLES
  \* The event loop: the tasks that are ready, the first of which runs
  ready,
  \* Each task: the place it is at, what it handles, the place it goes to once the
  \* timers are cancelled, the timer it waits for
  at, frame, next, awaited,
  \* The controller: _user_turn, _user_speaking
  userTurn, userSpeaking,
  \* The stop strategy, with the names of its fields
  text, vadSpeaking, vadStopped, finalized, speechDone, sttDone,
  speech, stt,   \* _user_speech_timeout_task, _stt_timeout_task
  timer,         \* the state of the timer tasks
  \* The aggregator: whether _aggregation has text; the frames of the VAD in its
  \* input queue, the transcriptions in its process queue
  aggregation, heard, pending,
  \* The user and the recognition: frames so far
  vads, texts,
  \* History: on_user_turn_started and on_user_turn_stopped events
  starts, stops

loop       == <<ready, at, frame, next, awaited>>
controller == <<userTurn, userSpeaking>>
progress   == <<vadStopped, finalized, speechDone, sttDone>>
handles    == <<speech, stt, timer>>
aggregator == <<aggregation, heard, pending>>
bounds     == <<vads, texts>>
events     == <<starts, stops>>
vars == <<loop, controller, text, vadSpeaking, progress, handles, aggregator, bounds, events>>

Places == {"idle", "dispatch", "cancel speech", "cancel stt", "report start", "decide",
           "restart", "renew", "arm", "complete", "check", "infer", "stop", "report stop"}

TypeOK ==
  /\ ready \in Seq(Tasks) /\ at \in [Tasks -> Places] /\ next \in [Tasks -> Places]
  /\ frame \in [Tasks -> {"start", "stop", "none"} \cup Transcriptions]
  /\ awaited \in [Tasks -> Timers \cup {None}]
  /\ userTurn \in BOOLEAN /\ userSpeaking \in BOOLEAN
  /\ text \in BOOLEAN /\ vadSpeaking \in BOOLEAN /\ vadStopped \in BOOLEAN
  /\ finalized \in BOOLEAN /\ speechDone \in BOOLEAN /\ sttDone \in BOOLEAN
  /\ speech \in SpeechTimers \cup {None} /\ stt \in SttTimers \cup {None}
  /\ timer \in [Timers -> {"none", "live", "cancelled", "fired"}]
  /\ aggregation \in BOOLEAN /\ heard \in 0..MaxVad /\ pending \in Seq(Transcriptions)
  /\ vads \in 0..MaxVad /\ texts \in 0..MaxTexts
  /\ starts \in Nat /\ stops \in Nat
  \* A handle refers to a timer that is not over.
  /\ speech # None => timer[speech] \in {"live", "cancelled"}
  /\ stt # None => timer[stt] \in {"live", "cancelled"}

Init ==
  /\ ready = <<>> /\ at = [t \in Tasks |-> "idle"] /\ next = [t \in Tasks |-> "idle"]
  /\ frame = [t \in Tasks |-> "none"] /\ awaited = [t \in Tasks |-> None]
  /\ userTurn = FALSE /\ userSpeaking = FALSE
  /\ text = FALSE /\ vadSpeaking = FALSE /\ vadStopped = FALSE
  /\ finalized = FALSE /\ speechDone = FALSE /\ sttDone = FALSE
  /\ speech = None /\ stt = None /\ timer = [t \in Timers |-> "none"]
  /\ aggregation = FALSE /\ heard = 0 /\ pending = <<>>
  /\ vads = 0 /\ texts = 0 /\ starts = 0 /\ stops = 0

(***************************************************************************)
(* The event loop                                                          *)
(***************************************************************************)
Running(t) == ready # <<>> /\ Head(ready) = t /\ awaited[t] = None

At(t, place) == Running(t) /\ at[t] = place

\* call_soon, for a task that is not ready yet
Wake(t) == ready' = IF Contains(ready, t) THEN ready ELSE Append(ready, t)

Goto(t, place) == at' = [at EXCEPT ![t] = place] /\ UNCHANGED <<ready, frame, next, awaited>>

\* Task t takes a frame from its queue.
Begin(t, item) ==
  /\ At(t, "idle")
  /\ at' = [at EXCEPT ![t] = "dispatch"] /\ frame' = [frame EXCEPT ![t] = item]
  /\ UNCHANGED <<ready, next, awaited>>

\* Task t cancels the timers, and goes to another place after that.
CancelThen(t, first, place) ==
  /\ at' = [at EXCEPT ![t] = first] /\ next' = [next EXCEPT ![t] = place]
  /\ UNCHANGED <<ready, frame, awaited>>

\* cancel_task on the timer id: task t waits until it is over.
Cancel(t, place, id) ==
  /\ At(t, place) /\ id # None
  /\ timer' = [timer EXCEPT ![id] = "cancelled"]
  /\ awaited' = [awaited EXCEPT ![t] = id]
  /\ ready' = IF Contains(ready, id) THEN Tail(ready) ELSE Append(Tail(ready), id)
  /\ UNCHANGED <<at, frame, next>>

\* There is no timer to cancel, or the one that task t has waited for is over.
GoOn(t, place, id, to) ==
  /\ ready # <<>> /\ Head(ready) = t /\ at[t] = place
  /\ awaited[t] # None \/ id = None
  /\ at' = [at EXCEPT ![t] = to] /\ awaited' = [awaited EXCEPT ![t] = None]
  /\ UNCHANGED <<ready, frame, next>>

\* create_task: a timer that nobody uses or waits for. Where one is created, there has to
\* be one (a bound).
Free(kind) == {id \in kind : timer[id] = "none" /\ \A t \in Tasks : awaited[t] # id}
New(kind)  == CHOOSE id \in Free(kind) : TRUE

(***************************************************************************)
(* Frames                                                                  *)
(***************************************************************************)
\* Frames come while no task is in the middle of its run.
Between == ready # <<>> => at[Head(ready)] = "idle" \/ awaited[Head(ready)] # None

\* The VAD reports by turns that the user speaks, and no longer does.
Hear ==
  /\ Between /\ vads < MaxVad
  /\ vads' = vads + 1 /\ heard' = heard + 1
  /\ IF at["input"] = "idle" THEN Wake("input") ELSE UNCHANGED ready
  /\ UNCHANGED <<at, frame, next, awaited, controller, text, vadSpeaking, progress, handles,
                 aggregation, pending, texts, events>>

\* A transcription: the input task, if it is free, moves it to the process queue.
Transcribe(item) ==
  /\ Between /\ at["input"] = "idle" /\ texts < MaxTexts
  /\ texts' = texts + 1 /\ pending' = Append(pending, item)
  /\ IF at["process"] = "idle" THEN Wake("process") ELSE UNCHANGED ready
  /\ UNCHANGED <<at, frame, next, awaited, controller, text, vadSpeaking, progress, handles,
                 aggregation, heard, vads, events>>

\* The controller notes at once whether the user speaks.
TakeVad ==
  /\ heard > 0 /\ heard' = heard - 1
  /\ userSpeaking' = ~userSpeaking
  /\ Begin("input", IF userSpeaking THEN "stop" ELSE "start")
  /\ UNCHANGED <<userTurn, text, vadSpeaking, progress, handles, aggregation, pending, bounds,
                 events>>

\* A transcription joins the aggregation before the controller sees it; an interim
\* one does not.
TakeText ==
  /\ pending # <<>> /\ pending' = Tail(pending)
  /\ aggregation' = (aggregation \/ Head(pending) # "interim")
  /\ Begin("process", Head(pending))
  /\ UNCHANGED <<controller, text, vadSpeaking, progress, handles, heard, bounds, events>>

\* A task with nothing more to do leaves the event loop; a timer is over then.
Rest(t) ==
  /\ At(t, "idle")
  /\ t = "input" => heard = 0
  /\ t = "process" => pending = <<>>
  /\ t \in Timers => timer[t] = "fired"
  /\ ready' = Tail(ready)
  /\ timer' = IF t \in Timers THEN [timer EXCEPT ![t] = "none"] ELSE timer
  /\ frame' = [frame EXCEPT ![t] = "none"] /\ next' = [next EXCEPT ![t] = "idle"]
  /\ UNCHANGED <<at, awaited, controller, text, vadSpeaking, progress, speech, stt,
                 aggregator, bounds, events>>

(***************************************************************************)
(* The start of a turn                                                     *)
(***************************************************************************)
\* _discard_pending_end_of_turn, before it cancels the timers
Discard == vadStopped' = FALSE /\ finalized' = FALSE /\ speechDone' = FALSE /\ sttDone' = FALSE

\* Both start strategies ask for a turn, and there is no second one.
MayStart(item) == item # "stop" /\ ~userTurn

\* The start strategies: _trigger_user_turn_start, which resets the stop strategy.
Dispatch(t) ==
  /\ At(t, "dispatch")
  /\ IF MayStart(frame[t])
     THEN /\ userTurn' = TRUE /\ text' = FALSE
          /\ Discard
          /\ CancelThen(t, "cancel speech", "report start")
     ELSE Goto(t, "decide") /\ UNCHANGED <<userTurn, text, progress>>
  /\ UNCHANGED <<userSpeaking, vadSpeaking, handles, aggregator, bounds, events>>

\* on_user_turn_started of the aggregator. The interruption it broadcasts drops the
\* transcriptions that wait in its process queue.
ReportStart(t) ==
  /\ At(t, "report start")
  /\ starts' = starts + 1
  /\ pending' = <<>>
  /\ Goto(t, "decide")
  /\ UNCHANGED <<controller, text, vadSpeaking, progress, handles, aggregation, heard, bounds,
                 stops>>

(***************************************************************************)
(* The stop strategy                                                       *)
(***************************************************************************)
DecideStart(t) ==
  /\ At(t, "decide") /\ frame[t] = "start"
  /\ vadSpeaking' = TRUE
  /\ Discard
  /\ CancelThen(t, "cancel speech", "idle")
  /\ UNCHANGED <<controller, text, handles, aggregator, bounds, events>>

DecideStop(t) ==
  /\ At(t, "decide") /\ frame[t] = "stop"
  /\ vadSpeaking' = FALSE /\ vadStopped' = TRUE
  /\ Goto(t, "restart")
  /\ UNCHANGED <<controller, text, finalized, speechDone, sttDone, handles, aggregator, bounds,
                 events>>

\* More is on its way: an earlier finalized transcription no longer covers it all.
DecideInterim(t) ==
  /\ At(t, "decide") /\ frame[t] = "interim"
  /\ finalized' = FALSE
  /\ Goto(t, "idle")
  /\ UNCHANGED <<controller, text, vadSpeaking, vadStopped, speechDone, sttDone, handles,
                 aggregator, bounds, events>>

\* A finalized transcription ends the wait for the recognition.
DecideText(t) ==
  /\ At(t, "decide") /\ frame[t] \in {"text", "final"}
  /\ text' = TRUE
  /\ finalized' = (finalized \/ frame[t] = "final")
  /\ IF frame[t] = "final" /\ ~sttDone
     THEN /\ sttDone' = TRUE
          /\ CancelThen(t, "cancel stt", "complete")
     ELSE Goto(t, "complete") /\ UNCHANGED sttDone
  /\ UNCHANGED <<controller, vadSpeaking, vadStopped, speechDone, handles, aggregator, bounds,
                 events>>

\* Both waits are done, or no VAD frame covers the transcription: the timer of the
\* user's speech then measures the silence since it.
Complete(t) ==
  /\ At(t, "complete")
  /\ CASE speechDone /\ sttDone -> Goto(t, "check") /\ UNCHANGED sttDone
       [] ~(speechDone /\ sttDone) /\ ~vadSpeaking /\ ~vadStopped ->
            Goto(t, "restart") /\ sttDone' = TRUE
       [] OTHER -> Goto(t, "idle") /\ UNCHANGED sttDone
  /\ UNCHANGED <<controller, text, vadSpeaking, vadStopped, finalized, speechDone, handles,
                 aggregator, bounds, events>>

(***************************************************************************)
(* The timers                                                              *)
(***************************************************************************)
\* _cancel_all_tasks, one timer after the other, and _restart_user_speech_timer
CancelTimers(t) ==
  /\ \/ \/ Cancel(t, "cancel speech", speech) \/ Cancel(t, "restart", speech)
        \/ Cancel(t, "cancel stt", stt)
        /\ UNCHANGED <<speech, stt>>
     \/ /\ \/ GoOn(t, "cancel speech", speech, "cancel stt") \/ GoOn(t, "restart", speech, "renew")
        /\ speech' = None /\ UNCHANGED <<stt, timer>>
     \/ /\ GoOn(t, "cancel stt", stt, next[t])
        /\ stt' = None /\ UNCHANGED <<speech, timer>>
  /\ UNCHANGED <<controller, text, vadSpeaking, progress, aggregator, bounds, events>>

\* The rest of _restart_user_speech_timer, of either caller
Renew(t) ==
  /\ At(t, "renew") /\ Free(SpeechTimers) # {}
  /\ speechDone' = FALSE
  /\ speech' = New(SpeechTimers)
  /\ timer' = [timer EXCEPT ![New(SpeechTimers)] = "live"]
  /\ Goto(t, IF frame[t] = "stop" THEN "arm" ELSE "idle")
  /\ UNCHANGED <<controller, text, vadSpeaking, vadStopped, finalized, sttDone, stt, aggregator,
                 bounds, events>>

\* The wait for the recognition, unless it has had the last word.
Arm(t) ==
  /\ At(t, "arm")
  /\ sttDone' = finalized
  /\ IF finalized
     THEN UNCHANGED <<stt, timer>>
     ELSE /\ Free(SttTimers) # {}
          /\ stt' = New(SttTimers) /\ timer' = [timer EXCEPT ![New(SttTimers)] = "live"]
  /\ Goto(t, "idle")
  /\ UNCHANGED <<controller, text, vadSpeaking, vadStopped, finalized, speechDone, speech,
                 aggregator, bounds, events>>

\* The time of a timer is up: its task becomes ready.
Expire(id) ==
  /\ Between /\ timer[id] = "live" /\ ~Contains(ready, id)
  /\ Wake(id)
  /\ UNCHANGED <<at, frame, next, awaited, controller, text, vadSpeaking, progress, handles,
                 aggregator, bounds, events>>

\* A timer that is over clears its handle, whatever that refers to by now.
Clear(id) ==
  /\ speech' = IF id \in SpeechTimers THEN None ELSE speech
  /\ stt' = IF id \in SttTimers THEN None ELSE stt

\* The task of a timer runs.
Fire(id) ==
  /\ At(id, "idle") /\ timer[id] = "live"
  /\ timer' = [timer EXCEPT ![id] = "fired"]
  /\ Clear(id)
  /\ speechDone' = (speechDone \/ id \in SpeechTimers)
  /\ sttDone' = (sttDone \/ id \in SttTimers)
  /\ Goto(id, "check")
  /\ UNCHANGED <<controller, text, vadSpeaking, vadStopped, finalized, aggregator, bounds, events>>

\* Or, it has been cancelled meanwhile: the tasks that wait for it become ready.
Unwind(id) ==
  /\ At(id, "idle") /\ timer[id] = "cancelled"
  /\ timer' = [timer EXCEPT ![id] = "none"]
  /\ Clear(id)
  /\ \E waiting \in SetToSeqs({t \in Tasks : awaited[t] = id}) : ready' = Tail(ready) \o waiting
  /\ UNCHANGED <<at, frame, next, awaited, controller, text, vadSpeaking, progress, aggregator,
                 bounds, events>>

(***************************************************************************)
(* The end of a turn                                                       *)
(***************************************************************************)
\* _maybe_trigger_user_turn_stopped
Check(t) ==
  /\ At(t, "check")
  /\ Goto(t, IF ~vadSpeaking /\ text /\ speechDone /\ sttDone THEN "infer" ELSE "idle")
  /\ UNCHANGED <<controller, text, vadSpeaking, progress, handles, aggregator, bounds, events>>

\* on_user_turn_inference_triggered: the aggregation goes to the context.
Infer(t) ==
  /\ At(t, "infer")
  /\ aggregation' = (aggregation /\ ~userTurn)
  /\ Goto(t, "stop")
  /\ UNCHANGED <<controller, text, vadSpeaking, progress, handles, heard, pending, bounds,
                 events>>

\* _trigger_user_turn_stop, which resets the stop strategy: no second stop, and none
\* while the user is heard.
Stop(t) ==
  /\ At(t, "stop")
  /\ IF userTurn /\ ~userSpeaking
     THEN /\ userTurn' = FALSE /\ text' = FALSE /\ vadSpeaking' = FALSE
          /\ Discard
          /\ CancelThen(t, "cancel speech", "report stop")
     ELSE Goto(t, "idle") /\ UNCHANGED <<userTurn, text, vadSpeaking, progress>>
  /\ UNCHANGED <<userSpeaking, handles, aggregator, bounds, events>>

\* (mutant) Only the inference writes to the context.
Leave == UNCHANGED aggregation

\* _maybe_emit_user_turn_stopped: what came after the inference is written too.
Flush == aggregation' = FALSE

\* (mutant) _reset clears the flag when the timers are cancelled.
ClearVadLast == vadSpeaking' = FALSE

\* It has cleared it before.
KeepVad == UNCHANGED vadSpeaking

\* on_user_turn_stopped of the aggregator
ReportStop(t) ==
  /\ At(t, "report stop")
  /\ stops' = stops + 1
  /\ Flush
  /\ KeepVad
  /\ Goto(t, "idle")
  /\ UNCHANGED <<controller, text, progress, handles, heard, pending, bounds,
                 starts>>

\* (mutant) Only a turn with a transcription can be overdue.
OverdueIfTold == userTurn /\ ~userSpeaking /\ text

Overdue == userTurn /\ ~userSpeaking

\* No event for user_turn_stop_timeout seconds, more than any timer of the strategy
\* takes. Nothing else runs then.
Watchdog ==
  /\ ready = <<>> /\ \A id \in Timers : timer[id] = "none"
  /\ Overdue
  /\ ready' = <<"watchdog">> /\ at' = [at EXCEPT !["watchdog"] = "stop"]
  /\ UNCHANGED <<frame, next, awaited, controller, text, vadSpeaking, progress, handles,
                 aggregator, bounds, events>>

(***************************************************************************)
(* The specification                                                       *)
(***************************************************************************)
Run(t) ==
  \/ Dispatch(t) \/ ReportStart(t)
  \/ DecideStart(t) \/ DecideStop(t) \/ DecideText(t) \/ DecideInterim(t) \/ Complete(t)
  \/ CancelTimers(t) \/ Renew(t) \/ Arm(t)
  \/ Check(t) \/ Infer(t) \/ Stop(t) \/ ReportStop(t)

EventLoop ==
  \/ \E t \in Tasks : Run(t) \/ Rest(t)
  \/ TakeVad \/ TakeText \/ Watchdog
  \/ \E id \in Timers : Expire(id) \/ Fire(id) \/ Unwind(id)

Next ==
  \/ EventLoop
  \/ Hear
  \/ \E item \in Transcriptions : Transcribe(item)

\* Every task that can run does; nobody has to speak.
Spec == Init /\ [][Next]_vars /\ WF_vars(EventLoop)

(***************************************************************************)
(* Properties                                                              *)
(***************************************************************************)
\* The strategy and the controller agree on whether the user speaks, whenever the
\* input task has done with the frames of the VAD: a reset of the strategy by another
\* task, or the end of a turn, must not make it forget a user that still speaks.
HeardAlike == at["input"] = "idle" => vadSpeaking = userSpeaking

\* A turn that has been reported is over some time, unless the user goes on speaking,
\* whatever is transcribed and however the timers and the watchdog meet.
TurnEnds == (starts > stops) ~> (starts <= stops \/ userSpeaking)

\* What the user was heard to say reaches the context, unless the user goes on.
Answered == aggregation ~> (~aggregation \/ userSpeaking)

\* "Prevent two consecutive user turn starts", "Prevent two consecutive user turn
\* stops" (turns/user_turn_controller.py): the events alternate.
Alternates == stops <= starts /\ starts <= stops + 1
==============================================================================
