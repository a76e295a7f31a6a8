---------------------------- MODULE AudioContexts ----------------------------
(***************************************************************************)
(* The audio contexts of a text-to-speech service that pauses its frames   *)
(* while it speaks (services/tts_service.py), with the part of the output  *)
(* transport that says when the bot speaks (transports/base_output.py).    *)
(*                                                                         *)
(* Three tasks of the service meet here: its process task turns the text   *)
(* of a turn into requests and puts audio contexts and other frames in one *)
(* queue, its audio context task empties that queue, context by context,   *)
(* and its input task handles interruptions and what the transport says of *)
(* the bot. The provider adds audio to the contexts when it likes. A turn  *)
(* is one response of the LLM, or one TTSSpeakFrame, and has one context.  *)
(*                                                                         *)
(* Frames the process task may hold while it is paused are the ones that   *)
(* an interruption keeps; what else waits behind a pause is dropped by it. *)
(***************************************************************************)
EXTENDS Naturals, FiniteSets, Sequences, SequencesExt

CONSTANTS
  MaxTurns,       \* bound: context ids
  MaxChunks,      \* bound: pieces of audio the provider has for a context
  MaxMust,        \* bound: uninterruptible frames that pass the service
  MaxInterrupts   \* bound: interruptions

ASSUME BoundAssumption ==
  /\ MaxTurns \in Nat \ {0} /\ MaxChunks \in Nat /\ MaxMust \in Nat /\ MaxInterrupts \in Nat

Ids == 1..MaxTurns

\* What _serialization_queue holds: a context id, a frame, or None.
Context(id) == <<"context", id>>
Must == <<"must">>
Sentinel == <<"sentinel">>
Items == {Context(id) : id \in Ids} \cup {Must, Sentinel}

VARIABLES
  \* The process task
  ids,       \* context ids given out
  turn,      \* _turn_context_id; 0 is None
  text,      \* _processing_text
  held,      \* the uninterruptible frame it has in hand, "must" or "end"
  paused,    \* whether that, or the next frame, has to wait for a resume
  process,   \* "stopping" while stop() awaits the audio context task
  musts,     \* "must" frames it has taken
  \* The contexts
  line,      \* _serialization_queue
  contexts,  \* the keys of _audio_contexts
  queue,     \* what each of them holds: "audio", "stopped", "end" for None
  \* The audio context task
  player,    \* "none" while there is no such task, "over" when stop() has seen its end,
             \* "dead" when it has raised and nobody has noticed
  playing,   \* _playing_context_id; 0 is None
  received,  \* received_audio of _handle_audio_context
  \* The input task
  interrupting,  \* what _handle_interruption awaits: the audio context task that is
                 \* "stopping", or the provider that it is "telling"; or "no"
  interrupts,
  botSpeaking,  \* _bot_speaking
  \* The provider: the contexts it has text for, that are flushed, chunks sent
  asked, flushed, chunks,
  \* The transport
  sent,      \* what the service has pushed to it
  speaking,  \* its _bot_speaking
  told,      \* BotStarted and BotStoppedSpeakingFrames on their way back
  \* History
  stale,     \* the contexts of before the last interruption
  remade,    \* the contexts made again while the provider was being told of it
  emitted    \* "must" frames that have left the service

task      == <<ids, turn, text, held, process, musts>>
output    == <<line, contexts, queue, player, playing, received>>
input     == <<interrupting, interrupts, botSpeaking>>
provider  == <<asked, flushed, chunks>>
transport == <<sent, speaking, told>>
history   == <<stale, remade, emitted>>
vars == <<task, paused, output, input, provider, transport, history>>

TypeOK ==
  /\ ids \in 0..MaxTurns /\ turn \in 0..MaxTurns /\ text \in BOOLEAN
  /\ paused \in BOOLEAN /\ emitted \in Nat
  /\ held \in {"none", "must", "end"} /\ musts \in 0..MaxMust
  /\ process \in {"running", "stopping", "ended", "dead"}
  /\ line \in Seq(Items) /\ contexts \subseteq Ids
  /\ queue \in [Ids -> Seq({"audio", "stopped", "end"})]
  /\ player \in {"none", "idle", "playing", "over", "dead"} /\ playing \in 0..MaxTurns
  /\ player \in {"playing", "dead"} => playing # 0
  /\ playing # 0 => player \in {"playing", "over", "dead"} \/ interrupting # "no"
  /\ received \in BOOLEAN /\ botSpeaking \in BOOLEAN
  /\ interrupting \in {"no", "stopping", "telling"} /\ interrupts \in 0..MaxInterrupts
  /\ asked \subseteq Ids /\ flushed \subseteq Ids /\ chunks \in [Ids -> 0..MaxChunks]
  /\ sent \in Seq({"audio", "stopped"}) /\ speaking \in BOOLEAN
  /\ told \in Seq({"started", "stopped"}) /\ stale \subseteq Ids /\ remade \subseteq Ids

Init ==
  /\ ids = 0 /\ turn = 0 /\ text = FALSE /\ paused = FALSE /\ held = "none"
  /\ process = "running" /\ musts = 0
  /\ line = <<>> /\ contexts = {} /\ queue = [id \in Ids |-> <<>>]
  /\ player = "idle" /\ playing = 0 /\ received = FALSE
  /\ interrupting = "no" /\ interrupts = 0 /\ botSpeaking = FALSE
  /\ asked = {} /\ flushed = {} /\ chunks = [id \in Ids |-> 0]
  /\ sent = <<>> /\ speaking = FALSE /\ told = <<>>
  /\ stale = {} /\ remade = {} /\ emitted = 0

(***************************************************************************)
(* The process task                                                        *)
(***************************************************************************)
\* The task is at its queue, and nothing holds the frame it takes from it. Inside
\* an interruption, that queue has only frames that the interruption keeps.
Free == process = "running" /\ held = "none" /\ ~paused /\ interrupting = "no"

\* create_audio_context
Create(id) ==
  /\ line' = Append(line, Context(id))
  /\ contexts' = contexts \cup {id}
  /\ queue' = [queue EXCEPT ![id] = <<>>]

Open(id) == IF id \in contexts THEN UNCHANGED <<line, contexts, queue>> ELSE Create(id)

\* _maybe_pause_frame_processing: only while there is playback to wait for.
Pause(spoke, open) == paused' = (spoke /\ (botSpeaking \/ open # {}))

\* An LLMFullResponseStartFrame gives the turn its context id.
StartTurn ==
  /\ Free /\ turn = 0 /\ ids < MaxTurns
  /\ ids' = ids + 1 /\ turn' = ids + 1
  /\ UNCHANGED <<text, held, process, musts, paused, output, input, provider, transport,
                 history>>

\* A sentence of the turn goes to the provider.
Text ==
  /\ Free /\ turn # 0
  /\ text' = TRUE
  /\ Open(turn)
  /\ asked' = asked \cup {turn}
  /\ UNCHANGED <<ids, turn, held, process, musts, paused, player, playing, received, input,
                 flushed, chunks, transport, history>>

\* An LLMFullResponseEndFrame: the provider is flushed when the context is open.
EndTurn ==
  /\ Free /\ turn # 0
  /\ Pause(text, contexts)
  /\ text' = FALSE
  /\ flushed' = IF turn \in contexts THEN flushed \cup {turn} ELSE flushed
  /\ turn' = 0
  /\ UNCHANGED <<ids, held, process, musts, output, input, asked, chunks, transport, history>>

\* A TTSSpeakFrame has a context of its own; the turn around it is put back.
Speak ==
  /\ Free /\ ids < MaxTurns
  /\ ids' = ids + 1
  /\ Create(ids + 1)
  /\ asked' = asked \cup {ids + 1} /\ flushed' = flushed \cup {ids + 1}
  /\ Pause(TRUE, contexts')
  /\ UNCHANGED <<turn, text, held, process, musts, player, playing, received, input, chunks,
                 transport, history>>

\* A frame that interruptions keep is taken from the queue; it may have to wait.
Take(frame) ==
  /\ process = "running" /\ held = "none"
  /\ IF frame = "end" THEN turn = 0 ELSE musts < MaxMust
  /\ held' = frame
  /\ musts' = IF frame = "end" THEN musts ELSE musts + 1
  /\ UNCHANGED <<ids, turn, text, process, paused, output, input, provider, transport, history>>

HandleMust ==
  /\ held = "must" /\ ~paused
  /\ held' = "none"
  /\ line' = Append(line, Must)
  /\ UNCHANGED <<ids, turn, text, process, musts, paused, contexts, queue, player, playing,
                 received, input, provider, transport, history>>

\* stop(): the task now waits until the audio context task is over.
Stop ==
  /\ held = "end" /\ ~paused /\ process = "running"
  /\ player \in {"idle", "playing"} \/ (player = "none" /\ interrupting = "stopping")
  /\ process' = "stopping"
  /\ line' = Append(line, Sentinel)
  /\ UNCHANGED <<ids, turn, text, held, musts, paused, contexts, queue, player, playing,
                 received, input, provider, transport, history>>

\* There is nothing to wait for if the task has died, or has been stopped by an
\* interruption that has not yet started another.
StopAtOnce ==
  /\ held = "end" /\ ~paused /\ process = "running"
  /\ \/ player = "dead" /\ player' = "over" /\ line' = Append(line, Sentinel)
     \/ interrupting = "telling" /\ UNCHANGED <<player, line>>
  /\ process' = "ended" /\ held' = "none"
  /\ UNCHANGED <<ids, turn, text, musts, paused, contexts, queue, playing, received, input,
                 provider, transport, history>>

(***************************************************************************)
(* The audio context task                                                  *)
(***************************************************************************)
\* _audio_context_task_handler takes a context, a frame or the sentinel. At the
\* sentinel the task returns, and the EndFrame that waits for it moves on.
Pop(item) == player = "idle" /\ line # <<>> /\ Head(line) = item /\ line' = Tail(line)

PlayContext ==
  \E id \in contexts :
    /\ Pop(Context(id))
    /\ player' = "playing" /\ playing' = id /\ received' = FALSE
    /\ UNCHANGED <<task, paused, contexts, queue, input, provider, transport, history>>

\* A context that has no entry: the KeyError ends the task. A stop() that waits for the
\* task goes on, otherwise nobody looks at it before the next interruption.
PlayMissing ==
  \E id \in Ids \ contexts :
    /\ Pop(Context(id))
    /\ playing' = id
    /\ IF process = "stopping"
       THEN player' = "over" /\ process' = "ended" /\ held' = "none"
       ELSE player' = "dead" /\ UNCHANGED <<process, held>>
    /\ UNCHANGED <<ids, turn, text, musts, paused, contexts, queue, received, input, provider,
                   transport, history>>

PlayFrame ==
  /\ Pop(Must)
  /\ emitted' = emitted + 1
  /\ UNCHANGED <<task, paused, contexts, queue, player, playing, received, input, provider,
                 transport, stale, remade>>

ShutDown ==
  /\ Pop(Sentinel)
  /\ player' = "over" /\ process' = "ended" /\ held' = "none"
  /\ UNCHANGED <<ids, turn, text, musts, paused, contexts, queue, playing, received, input,
                 provider, transport, history>>

\* _handle_audio_context pushes one frame of the context.
PlayItem(item) ==
  /\ player = "playing" /\ queue[playing] # <<>> /\ Head(queue[playing]) = item
  /\ item # "end"
  /\ queue' = [queue EXCEPT ![playing] = Tail(@)]
  /\ received' = (received \/ item = "audio")
  /\ sent' = Append(sent, item)
  /\ UNCHANGED <<task, paused, line, contexts, player, playing, input, provider, speaking, told,
                 history>>

\* (mutant) A context that ends in silence lifts no pause.
LeavePause == UNCHANGED paused

\* _record_context_audio_outcome: no BotStoppedSpeakingFrame will come for it.
LiftPause == paused' = IF ~received /\ ~botSpeaking THEN FALSE ELSE paused

\* (mutant) Only what has played can time out.
ExhaustedIfHeard == IF queue[playing] = <<>> THEN received ELSE Head(queue[playing]) = "end"

\* The context is at its end, or nothing came for _stop_frame_timeout_s seconds.
Exhausted == IF queue[playing] = <<>> THEN TRUE ELSE Head(queue[playing]) = "end"

FinishContext ==
  /\ player = "playing" /\ Exhausted
  /\ LiftPause
  /\ contexts' = contexts \ {playing}
  /\ queue' = [queue EXCEPT ![playing] = <<>>]
  /\ player' = "idle" /\ playing' = 0
  /\ UNCHANGED <<task, line, received, input, provider, transport, history>>

(***************************************************************************)
(* The provider                                                            *)
(***************************************************************************)
\* append_to_audio_context. The context of the turn is made again when it has been
\* given up, also while an interruption that has emptied the queue tells the provider
\* and has yet to forget the turn; audio for any other context is dropped.
Provide(id) ==
  /\ id \in asked /\ chunks[id] < MaxChunks
  /\ chunks' = [chunks EXCEPT ![id] = @ + 1]
  /\ CASE id \in contexts ->
            /\ queue' = [queue EXCEPT ![id] = Append(@, "audio")]
            /\ UNCHANGED <<line, contexts, remade>>
       [] id \notin contexts /\ id = turn ->
            /\ line' = Append(line, Context(id))
            /\ contexts' = contexts \cup {id}
            /\ queue' = [queue EXCEPT ![id] = <<"audio">>]
            /\ remade' = IF interrupting = "telling" THEN remade \cup {id} ELSE remade
       [] OTHER -> UNCHANGED <<line, contexts, queue, remade>>
  /\ UNCHANGED <<task, paused, player, playing, received, input, asked, flushed, transport,
                 stale, emitted>>

\* All the text has been spoken: a TTSStoppedFrame, then remove_audio_context.
ProviderDone(id) ==
  /\ id \in flushed
  /\ flushed' = flushed \ {id} /\ asked' = asked \ {id}
  /\ queue' = IF id \in contexts THEN [queue EXCEPT ![id] = @ \o <<"stopped", "end">>] ELSE queue
  /\ UNCHANGED <<task, paused, line, contexts, player, playing, received, input, chunks,
                 transport, history>>

(***************************************************************************)
(* The transport                                                           *)
(***************************************************************************)
\* _bot_started_speaking and _bot_stopped_speaking tell nothing twice.
Started == speaking' = TRUE /\ told' = IF speaking THEN told ELSE Append(told, "started")

Stopped == speaking' = FALSE /\ told' = IF speaking THEN Append(told, "stopped") ELSE told

TransportPlays ==
  /\ sent # <<>>
  /\ IF Head(sent) = "audio" THEN Started ELSE Stopped
  /\ sent' = Tail(sent)
  /\ UNCHANGED <<task, paused, output, input, provider, history>>

\* Nothing to play for BOT_VAD_STOP_FALLBACK_SECS.
TransportIdle ==
  /\ sent = <<>> /\ speaking
  /\ Stopped
  /\ UNCHANGED <<task, paused, output, input, provider, sent, history>>

(***************************************************************************)
(* The input task                                                          *)
(***************************************************************************)
\* BotStartedSpeakingFrame and BotStoppedSpeakingFrame; the latter lifts a pause.
Hear ==
  /\ interrupting = "no" /\ told # <<>>
  /\ botSpeaking' = (Head(told) = "started")
  /\ paused' = (paused /\ botSpeaking')
  /\ told' = Tail(told)
  /\ UNCHANGED <<task, output, interrupting, interrupts, provider, sent, speaking, history>>

\* _start_interruption replaces the process task, unless an uninterruptible frame
\* is in hand; then _handle_interruption waits until the audio context task is
\* cancelled. One that is over has nothing to cancel.
Interrupt ==
  /\ interrupting = "no" /\ interrupts < MaxInterrupts
  /\ interrupting' = "stopping" /\ interrupts' = interrupts + 1
  /\ paused' = (paused /\ held # "none")
  /\ text' = FALSE /\ botSpeaking' = FALSE
  /\ player' = IF player \in {"over", "dead"} THEN player ELSE "none"
  /\ UNCHANGED <<ids, turn, held, process, musts, line, contexts, queue, playing, received,
                 provider, transport, history>>

\* (mutant) Contexts stay in the queue.
KeepAll == line' = line

\* (mutant) Nothing stays in it.
KeepNone == line' = <<>>

\* FrameQueue.reset: only uninterruptible frames stay.
Keep == line' = [n \in 1..Cardinality({i \in DOMAIN line : line[i] = Must}) |-> Must]

\* (mutant) The turn goes on.
KeepTurn == UNCHANGED turn /\ playing' = 0

ResetIds == turn' = 0 /\ playing' = 0

\* What follows the last await: new contexts and a new task, and a resume. The transport
\* throws away what it has, and stops.
Renew ==
  /\ interrupting' = "no"
  /\ contexts' = {} /\ queue' = [id \in Ids |-> <<>>]
  /\ ResetIds
  /\ player' = "idle"
  /\ paused' = FALSE
  /\ stale' = 1..ids
  /\ sent' = <<>> /\ Stopped

\* The task is gone. A stop() that awaited it is cancelled with it, and with stop() the
\* process task. The queue is reset, and the provider told of each open context.
TellProvider ==
  /\ interrupting = "stopping"
  /\ process' = IF process = "stopping" THEN "dead" ELSE process
  /\ Keep /\ remade' = {}
  /\ IF contexts = {}
     THEN Renew
     ELSE /\ interrupting' = "telling" /\ player' = "none"
          /\ UNCHANGED <<turn, playing, contexts, queue, paused, stale, sent, speaking, told>>
  /\ UNCHANGED <<ids, text, held, musts, received, interrupts, botSpeaking, provider, emitted>>

\* The provider knows. The contexts are thrown away, but what has been put in the queue
\* meanwhile stays there.
Interrupted ==
  /\ interrupting = "telling"
  /\ Renew
  /\ UNCHANGED <<ids, text, held, process, musts, line, received, interrupts, botSpeaking,
                 provider, remade, emitted>>

(***************************************************************************)
(* The specification                                                       *)
(***************************************************************************)
EventLoop ==
  \/ HandleMust \/ Stop \/ StopAtOnce
  \/ PlayContext \/ PlayMissing \/ PlayFrame \/ ShutDown \/ FinishContext
  \/ \E item \in {"audio", "stopped"} : PlayItem(item)
  \/ TransportPlays \/ TransportIdle
  \/ Hear \/ TellProvider \/ Interrupted

Next ==
  \/ EventLoop
  \/ StartTurn \/ Text \/ EndTurn \/ Speak
  \/ \E frame \in {"must", "end"} : Take(frame)
  \/ \E id \in Ids : Provide(id) \/ ProviderDone(id)
  \/ Interrupt

\* The tasks run, the timeouts fire and the hooks return; the provider and the user owe
\* nothing.
Spec == Init /\ [][Next]_vars /\ WF_vars(EventLoop)

(***************************************************************************)
(* Properties                                                              *)
(***************************************************************************)
\* Outside of an interruption the task that plays finds every context it takes from
\* its queue in _audio_contexts, and every open context is played once: a context
\* without its entry would end the task, an entry without its place in the queue
\* would never be closed. Only what the provider made again while it was being told of
\* an interruption lacks its entry, and nothing else ends the task before its time.
Queued == {id \in Ids : Contains(line, Context(id))}
Died == player \in {"over", "dead"} /\ playing # 0

ContextsReady ==
  interrupting = "no" =>
    /\ Queued \ remade = contexts \ {playing}
    /\ player = "playing" => playing \in contexts
    /\ Died => playing \in remade
    /\ \A i, j \in DOMAIN line : line[i] = line[j] /\ line[i] # Must => i = j

\* No audio from before an interruption leaves the service after it, though the
\* provider keeps sending it and contexts are made again on demand.
NoStaleAudio ==
  [][sent' # sent /\ Len(sent') > Len(sent) /\ sent'[Len(sent')] = "audio"
     => playing \notin stale]_vars

\* Whether something can still come that lifts a pause: the transport speaks, has
\* audio to play or has said so, or a context is open that has played nothing.
Audible(seq) == \E i \in DOMAIN seq : seq[i] = "audio"

Due ==
  \/ botSpeaking \/ speaking \/ Audible(sent) \/ told # <<>>
  \/ \E id \in contexts : id # playing \/ ~received \/ Audible(queue[id])

\* The task that plays died on such a context, and no interruption has renewed it.
DiedForGood == <>[]Died

\* A pause taken for audio that plays, or that never comes, does not last.
PauseLifted == ((paused /\ Due) ~> ~paused) \/ DiedForGood

\* A frame that no interruption may drop is pushed once the service has handled it,
\* whatever is interrupted, and however long contexts are silent.
MustEmitted ==
  \A n \in 1..MaxMust : ((musts >= n /\ held # "must") ~> (emitted >= n)) \/ DiedForGood

\* The EndFrame leaves the service, when nothing interrupts it any more.
StopDrains ==
  \/ (held = "end" /\ process # "dead" /\ interrupting = "no" /\ interrupts = MaxInterrupts
      /\ (paused => Due))
       ~> (process = "ended")
  \/ DiedForGood

\* Uninterruptible frames "must not be lost mid-flight" (tts_service.py), which the code
\* says of the queue's reset, without exception.
NothingLost ==
  \A n \in 1..MaxMust : (musts >= n /\ held # "must") ~> (emitted >= n)

\* Frames that no interruption may drop are processed to completion
\* (frames/frames.py): the EndFrame that stop() handles leaves the service.
EndReaches == (process = "stopping") ~> (process = "ended")
==============================================================================
