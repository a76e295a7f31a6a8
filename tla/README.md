# Pipecat in TLA+

Pipecat is a Python framework for real-time voice and multimodal agents. Frames (audio,
text, control) flow through pipelines of *frame processors*; a *worker* runs a pipeline; a
*runner* runs a family of workers that talk over a *bus* and hand each other *jobs*. All of
it is asyncio: one event loop, no threads in the core, and every `await` is a point at which
another task may change the fields that the first one has just read.

This directory models that core. It holds TLA+ modules, the TLC configurations that check
them on small instances, and TLAPS proofs of the safety properties for every instance.
Paths below are relative to `src/src/pipecat/` in the repository.

- [The system](#the-system): its components, their state, what is hard about each
- [The modules](#the-modules): which module models what, and how it corresponds to the code
- [The runs](#the-runs): what each one checks, its bounds, the fairness it assumes
- [Where the code and its documentation differ](#where-the-code-and-its-documentation-differ)
- [Other behaviours worth knowing](#other-behaviours-worth-knowing)
- [The proofs](#the-proofs)
- [What is not modelled](#what-is-not-modelled)
- [Plan](#plan)

To repeat a run: `tlc -config FrameProcessor_safety.cfg MCFrameProcessor.tla`. To repeat a
proof: `tlapm FrameProcessorProofs.tla`.

## The system

### How the parts interact

    WorkerRunner --run()--> PipelineWorker --push task--> Pipeline: source, processors, sink
         |  ^                    |   ^                                   |
         |  +--- bus messages ---+   +------ events set by the sink -----+
         +--- bus messages (add, end, cancel, job request / response / cancel) --- BaseWorker

- A processor hands a frame to its neighbour by calling `queue_frame` on it; it never runs
  the neighbour's code. Each processor has two queues and two tasks of its own.
- A worker feeds the head of its pipeline from a push task and learns from the sink, through
  `asyncio.Event`s, what came out of the tail.
- Workers share no state. They send messages over a bus; each subscriber has a router task
  (system messages first) and a data task (the others).
- In a bot's pipeline the user aggregator turns speech into turns (`UserTurn`), each of which
  begins with an interruption; the LLM service answers with text and function calls
  (`FunctionCalls`); the TTS service speaks the text (`AudioContexts`); the output transport
  reports, upstream, when the bot speaks.
- Pausing, interrupting and tearing down act on the fields of *another* task of the same
  processor, which is where most of the hazards are.

### The components modelled

**Frame processor** (`processors/frame_processor.py`, `utils/frame_queue.py`,
`utils/asyncio/task_manager.py`). State: the input queue (a priority queue: StartFrame,
system frames, the rest), the process queue, the input task and the process task with the
frame each has in hand, two gates (a flag and an event for each task), the pause watcher
task, `_cancelling`. Operations: `queue_frame`, the two task loops, `_start_interruption`,
`broadcast_interruption`, pause and resume (by frame, by call, and with a timeout),
`cleanup`. Hard: an interruption cancels a task that may be at any of its awaits and
replaces its queue and its event; uninterruptible frames must survive that; a wait on a
replaced event can never end; teardown may find one task waiting for the other.
Correct when: no uninterruptible frame is lost, nothing precedes the StartFrame, an
interruption really empties the processor, frames of a tier keep their order, a pause ends,
`cleanup` leaves neither of the two tasks, and a watcher only if a call started it afterwards.

**Pipeline worker** (`pipeline/worker.py`, with `pipeline/pipeline.py`'s source and sink).
State: the push queue and the push task, three events (started, ended, finished),
`_cancelled`, the processors' set-up. Operations: `run`, `cancel`, `queue_frame`,
`stop_when_done`, the push task's waits for the StartFrame, EndFrame, StopFrame and
CancelFrame, what the sink reports, cleanup. Hard: two tasks and the application race for
the events; a processor may never let a frame go; some waits have a timeout and some have
not; the run task itself may be cancelled anywhere.
Correct when: an EndFrame is waited for, data does not enter before the StartFrame has come
out, the end is reported once, `run` leaves nothing behind, and a cancel ends the run.

**Parallel pipeline** (`pipeline/parallel_pipeline.py`). State: a counter per synchronized
frame, the ids already let out, the buffer of held frames, and the gates of the processor it
is. Operations: fan out, let the first copy of a frame out, hold everything while a
StartFrame, EndFrame or CancelFrame is on its way through the branches. Hard: fast and slow
branches, frames that branches push themselves while others still start.
Correct when: the StartFrame goes first, the EndFrame last, no lifecycle frame escapes before
every branch has handled it, nothing is duplicated, lost or reordered, and the pause ends.

**Worker runner and worker bus** (`workers/runner.py`, the lifecycle of
`workers/base_worker.py`, `bus/bus.py`, `bus/queue.py`). State: the entries and their tasks,
the shutdown event, the bus's subscribers, the end and cancel messages under way, each
worker's children and its finished event. Operations: `add_workers`, a worker adding
children, `run`, `end`, `cancel`, the handlers of end and cancel, a worker's task ending by
itself or by an exception. Hard: workers added while the runner starts, runs or shuts down;
end and cancel overtaking each other; families in which only the root is told.
Correct when: `run` returns only after everyone who was there has left, children end before
their parent, and the session ends by itself after the last root.

**Function calls** (`services/llm_service.py`, the function call half of
`processors/aggregators/llm_response_universal.py`). State, in the service: a task and a
timeout task per call, the queue of the sequential runner, whether a call is settled; in the
aggregator: `_function_calls_in_progress`, the outcome of each call in the context, whether
the user and the bot speak, a deferred context push. Operations: `run_function_calls`, a
handler's result, its return, the deadline, an interruption, the cancellation of a task and
its announcement; the aggregator's handlers for them. Hard: four parties may end a call, with
awaits between looking and telling, and what they tell overtakes and is overtaken on its way
to the aggregator, which alone decides when the LLM runs again.
Correct when: a call has one outcome, the answer of a call that waits for it is never
dropped, every started call gets an outcome, and the LLM hears of it.

**Audio contexts** (`services/tts_service.py`, the bot-speaking part of
`transports/base_output.py`). State: the queue of contexts and frames
(`_serialization_queue`), the contexts with what the provider has sent for each, the task that
plays them, the turn's context, the pause of the process task, what the service and the
transport think of the bot's speaking. Operations: text and the end of a turn, a spoken frame,
audio from the provider, playing and timing out, interruptions, `stop`, the transport's
reports. Hard: the provider answers when it likes, also for turns that were interrupted; a
pause is lifted by news that may never come; an interruption cancels the task that plays,
resets its queue, and may hit `stop` while it waits for that task.
Correct when: no audio of before an interruption leaves the service after it, queue and
contexts agree, a pause ends, what must not be dropped gets out, the EndFrame too. The last
four have an exception, which the properties name: a context made again during an interruption.

**User turns** (`turns/user_turn_controller.py`, `turns/user_start/`, `turns/user_stop/`,
`processors/aggregators/llm_response_universal.py`). State: the controller's `_user_turn` and
`_user_speaking`, the stop strategy's text and flags with its two timers, the aggregation.
Operations: VAD frames (input task), transcriptions (process task), the timers, the watchdog.
Hard: those tasks run the same controller and strategy, and meet at the awaits at which a
cancelled timer is waited for; transcriptions are late, early, or missing.
Correct when: a turn that starts stops, what was heard reaches the context, and the strategy
does not lose track of whether the user speaks.

**Job groups** (`pipeline/job_context.py`, `pipeline/job_decorator.py`, the job half of
`workers/base_worker.py`). State: `_job_groups` with each group's responses, timeout task
and outcome at the requester; `_active_jobs` at each member; the messages between them.
Operations: entering and leaving the context, request, answer (urgent or not), error with
`cancel_on_error`, timeout, cancelling by the application, the requester's `stop()` or the
context. Hard: five tasks work on one group, each with an `await` between looking a group
up and removing it.
Correct when: a group is settled once, completes only with every answer, members answer
once, and a caller with a timeout does not wait for ever.

### The components not modelled yet

| Component | State and what is hard about it |
|---|---|
| User idle, user mute | Idle timer against function calls in progress and the bot speaking; first-speech and function-call mutes. |
| Other turn strategies, speculation | Turn analyzers, wake phrases, inference before the end of the turn and its gate. |
| Context summarizer | A pending request against a context that goes on changing. |
| STT base service, reconnection | Mute, keepalive, and a websocket that is opened again while frames arrive. |
| Transports | `MediaSender`'s audio, clock and video tasks and its buffer. |
| Service and LLM switcher | Which service is active while frames for the former are still under way. |
| Synchronous parallel pipeline | Down and up queues and a sync marker per branch. |
| Flows (`flows/`) | Current node, pending transition, functions of the node; a transition waits for all function calls. |
| Observers | Proxy queues and tasks per observer, started and stopped with the worker. |
| Registry and bridge messages (`registry/`, `bus/`) | Local and remote workers, watches; ready announcements. |

The remaining components of `PROJECT.json` (network buses, LLM, proxy and UI workers,
provider services, context utilities, other processors, audio and VAD models, adapters,
serializers, text utilities, command line, evals, examples) are I/O, data conversion, or
clients of the core without concurrency of their own; each has its reason there.

## The modules

| Module | What it is |
|---|---|
| `FrameDelivery` | abstract: what a frame processor promises its neighbours |
| `FrameProcessor` | one processor at the granularity of the event loop; implements `FrameDelivery` |
| `MCFrameProcessor` | frames for TLC |
| `FrameProcessorProofs` | its safety properties and the refinement, proved |
| `PipelineWorker` | the life of one pipeline run |
| `PipelineWorkerProofs` | its safety properties, proved |
| `ParallelPipeline`, `MCParallelPipeline` | branches, synchronization, and the flush probe |
| `ParallelPipelineProofs` | its safety properties for any number of branches, proved |
| `RunnerSession` | abstract: what `WorkerRunner.run()` promises |
| `WorkerRunner`, `MCWorkerRunner` | runner, bus, families of workers; implements `RunnerSession` |
| `WorkerRunnerProofs` | its invariant and the refinement, proved |
| `JobGroups` | one job group, requester and members |
| `JobGroupsProofs` | its safety properties, and that no group is abandoned, proved |
| `FunctionCalls`, `MCFunctionCalls` | the LLM service's function calls and the assistant aggregator |
| `FunctionCallsProofs` | one outcome, results recorded, the context settled, no call or inference forgotten, proved |
| `AudioContexts` | TTS audio contexts, the pause while the bot speaks, the transport's reports |
| `AudioContextsProofs` | queue and contexts agree, no stale audio, proved |
| `UserTurn` | user turns: controller, strategies, timers, watchdog |
| `UserTurnProofs` | controller and strategy agree on the user's speaking, no task is forgotten, proved |

Everywhere a step runs from one suspension point of a coroutine to the next, since asyncio
preempts nowhere else. An `await` that cannot suspend (the local bus's `send`, an unbounded
queue's `put`, an event that is set) does not end a step. Operators marked `(mutant)` are
changed versions of the definition that follows them; the specifications do not use them.
They are listed under `mutants` in `PROJECT.json`, one for each property of a passing run,
and substituting one for its original makes TLC refute that property: each property is one
that a plausible bug would break.

### FrameProcessor, FrameDelivery

| Variables | Code |
|---|---|
| `inq`, `arrived`, `inCount` | `__input_queue`: the heap as a set ordered by tier and counter (`FrameProcessorQueue.put`) |
| `pq`, `place`, `prCount` | `__process_queue` in order of put; `FrameQueue.reset` is `Kept`, an intersection |
| `inTask`, `inFrame` | the input task: waiting for the queue (`idle`), held at the gate, in `process_frame` (`entered`), waiting for a task it cancelled (`cancelling`), in the subclass's code (`user`), being cancelled |
| `prTask`, `cur` | the process task and `__process_current_frame` |
| `blockSystem`, `inEvent`, `inWoken`; `blockFrames`, `prEvent`, `prWoken`, `prStale` | the two gates. An event is its flag plus whether the one waiter has been woken (`set` followed by `clear` wakes it all the same) and whether the waiter is on an event that `__reset_process_task` has since replaced |
| `watcher`, `until` | `__pause_watcher_task`; whose call of `pause_processing_all_frames_until` is replacing it (the input task's, the process task's, or that of a task from outside) |
| `cancelling`, `teardown` | `_cancelling`, the progress of `cleanup` |

`QueueFrame` is `queue_frame`; `InputGet`, `InputWake`, `InputDone` the input task's loop;
`HandleStart`, `HandleInterruption`, `HandleCancel`, `HandleOtherSystem` the branches of
`process_frame`, with `ProcessStopped` the return of `cancel_task`; `ProcessStart`,
`ProcessGet`, `ProcessWake`, `ProcessHandle`, `ProcessDone`, `ProcessDies` the process task;
`UserPause`, `UserResume`, `Broadcast`, `PauseUntil*`, `WatcherFires` the public methods; and
`Cleanup*`, `InputDies` the teardown. A timed pause that finds a live watcher takes it out of the
field (`PauseUntilAgain`), waits for its end, and then pauses and starts its own
(`PauseUntilReplace`), in whichever task the call is made (`Executes`). Meanwhile `cleanup` may
run: it finds no watcher, and the call starts one behind its back, which `late` records. Or the
calling task is cancelled: the call ends with it, and nobody watches the pause (`Abandon`). A frame is a model value whose class (`KindOf`) decides
its tier and handling. The subclass's code is a step that returns at some time.

`FrameDelivery` has none of this: a frame is given, waits, is taken, and is handled or lost.
It says who may be taken next (the first of its tier, while the task that handles its kind has
nothing else, and a StartFrame before all others) and who may be lost to what: to an
interruption only what came before it, is neither a system frame nor uninterruptible, and has
no system frame still ahead of it. `FrameProcessor` implements it under `Fate`, which reads
from its queues and tasks what has become of a frame; a data frame that the input task holds at
its gate, on the way from one queue to the other, still waits.

### PipelineWorker

`run` is how far `run()` is and `push` how far `_process_push_task` is; `pushQueue`, the
three events, `cancelled` and `stopping` (the pending on_pipeline_finished handler, which
calls `stop()`) are the fields of those names. `pipe` is what is between source and sink.
The processors are external: they deliver in order, a CancelFrame ahead of data and control
frames, and may block for ever on the kinds in `MayBlock`, which is how the code's timeouts
come to matter. `CancelOnce` is `_cancel`; `RunCancelled` is the `CancelledError` in each of
the places that `run()` can be suspended. Not in the module: heartbeats, the idle monitor
(which ends in `Cancel`), turn tracking, observers, and the bodies of event handlers.

### ParallelPipeline

It is a frame processor, so its queues, tasks and gates are those of `FrameProcessor`,
reduced to what matters to it. `counter`, `synchronizing`, `buffered` and `left` are
`_frame_counter`, `_synchronizing`, `_buffered_frames` and `_seen_ids`. `Begin` and `FanOut`
are `process_frame`, `ParallelPush` is `_parallel_push_frame`, `Sink` is
`_pipeline_sink_push_frame` with `_flush_buffered_frames` (`Flushed`, `Released`) and the
resume that ends it. The inside of a branch (`BranchOut`, `BranchUp`, `BranchKeeps`,
`BranchPushes`) is external: it keeps the order of data and control frames, lets system
frames pass them, may keep a data frame and may push frames of its own, both ways, once
started. `ProbeBounces` is the worker's `_advance_flush_probe` at the sink.

### WorkerRunner, RunnerSession

`entries`, `task`, `shutdown`, `finished` are the code's fields; `subscribed` is the bus's
subscribers; `attaching` are workers whose `add_workers` is suspended in `subscribe`. Each
worker gets each message from one sender, so `endMessage`, `cancelMessage` and `addMessages`
are states of delivery, from the queue of the router task to the handler's end. `Run`,
`StartWorkers`, `StartWorker`, `StartFails`, `Ready`, `ShutDown`, `RunCancelled` and `Return`
are `run` and what it calls; `AddRoot`, `AddChild`, `HandleAdd`, `Attached` are the adding of
workers; `HandleCancel`, `RouteEnd`, `HandleEnd`, `EndSelf` the base worker's handlers;
`Finish` and `TaskEnds` the end of a worker's task and `_run_worker`.

`RunnerSession` states what this is for in four actions: workers join and leave, the session
closes, and it is over when everyone who was live at that moment has left. `WorkerRunner`
implements it under `Stage`, `Live` and `awaited`.

Assumed of the environment: `run` is called once; the bus is the local one; a worker that
was told to end or cancel finishes (whether a `PipelineWorker` does is the question of that
module).

### JobGroups

`group`, `responses`, `settled`, `timeout` are `_job_groups`, `JobGroup.responses`, its
`_done` event with `_error`, and its timeout task. `step` and `member` say at which `await`
each of the requester's tasks is and whose answer it has in hand: between the look-up of the
group and its removal there is the hook `on_job_response`, the hook `on_job_error`, or the
wait for a cancelled timeout task. `Enter`, `NotReady`, `BodyEnds`, `Leave`, `WaitCancelled`,
`BodyRaises` are the context's `__aenter__` and `__aexit__`; `CancelGroup` and
`GroupCancelled` are `cancel_job_group` before and after that wait; `TakeUrgent`, `TakeData`,
`TakeError`, `ErrorCancelsGroup`, `Track`, `Tracked`, `Complete` are `_handle_job_response`
and `_track_job_group_response`; `RouteRequest`, `TakeRequest`, `Answer`, `HandleCancel`,
`AnswerCancel` are the member's side.

One group; one request and at most one cancel per member; the end of a stream counts as an
answer. Left out: progress updates, the events iterator, sequential handlers' lock, the wait
for members to be registered (it ends in `Enter` or `NotReady`).

### FunctionCalls

`mode` holds `run_in_parallel` and `group_parallel_tools`. In the service, `queue`, `tracked`,
`settled` are `_sequential_runner_queue`, `_function_call_tasks` and each item's `settled`;
`task` and `timer` are the call's task and its timeout task, and then the detached task that
works off the deadline; `sweep` and `cancelling` say how far `_handle_interruptions` and
`_cancel_function_call_tasks` are. `StartBatch` is `run_function_calls`; `RunNext` the
sequential runner; `Begin`, `Report`, `Closed`, `Return`, `Unwind` are `_run_function_call`
with its callback, between their awaits; `Untrack` the end of the task; `Expire` and `TimeOut`
the deadline; `Visit` and `Cancelled` the two halves of a cancellation. In the aggregator,
`progress`, `botSpeaking`, `userSpeaking` and `pushLater` are `_function_calls_in_progress`,
`_bot_speaking`, `_user_speaking` and `_push_context_on_bot_stopped_speaking`; `Deliver` with
`Handle` is `process_frame`; `Settle` and `MaybePush` are what it does with an outcome;
`BotStops` runs what was put off.

`lane` stands for the processors and queues between the two: system frames (the cancellation,
the user's) keep their order and pass data frames (in progress, result), which keep theirs. An
inference reads the context when it is pushed. Results are not empty and leave `run_llm` to
the aggregator; a function is called once in a batch. Left out: results that are not final,
the tool that cancels a call, teardown, speculation.

### AudioContexts

| Variables | Code |
|---|---|
| `turn`, `text`, `held`, `paused`, `process` | `_turn_context_id`, `_processing_text`, the uninterruptible frame that the process task has in hand, its pause, `stop()` |
| `line`, `contexts`, `queue` | `_serialization_queue`; the keys and the queues of `_audio_contexts` |
| `player`, `playing`, `received` | the audio context task, `_playing_context_id`, `received_audio`; a task that a `KeyError` has ended is `dead`, and one that `stop()` has seen the end of is `over` |
| `interrupting`, `botSpeaking` | what an interruption waits for: the audio context task that is `stopping`, or the provider's hook that it is `telling`; `_bot_speaking` |
| `asked`, `flushed`, `chunks` | the provider: external |
| `sent`, `speaking`, `told` | the transport: audio to play, its `_bot_speaking`, its reports under way |

`StartTurn`, `Text`, `EndTurn`, `Speak`, `HandleMust`, `Stop` are the process task's
`process_frame`; `PlayContext`, `PlayFrame`, `PlayItem`, `FinishContext`, `ShutDown` the audio
context task; `Provide` and `ProviderDone` `append_to_audio_context` and
`remove_audio_context`; `Hear` the bot's frames; `TransportPlays` and `TransportIdle` the
transport. `_handle_interruption` is three steps, between its awaits: `Interrupt`, up to the wait
for the cancelled audio context task, with the reset of the process queue; `TellProvider`, which
resets `_serialization_queue` and awaits `on_audio_context_interrupted` for each open context; and
`Interrupted`, which only then forgets the turn and replaces the contexts (`Renew`), with the
transport's cut. With no context open there is no hook to await, and the last two are one step.
What `Provide` makes again during the hooks (`remade`) stays in the queue and loses its entry;
`PlayMissing` is the `KeyError` that ends the new task when it gets there. `StopAtOnce` is a
`stop()` that finds no task to wait for. The hooks of all open contexts are one wait; they
return and raise nothing.

The regime is `pause_frame_processing` with a provider that sends audio when it has it; a
provider that returns it from `run_tts` is synchronous and has none of these races. A turn is
ended before an EndFrame is taken. Frames that an interruption drops are left out of the queue:
only their order among others could tell. Word timestamps, metrics, the frame sequencer and
transcript frames are not modelled.

### UserTurn

The module runs the event loop: `ready` is its queue of tasks, and the task at the head runs
until it waits for a timer it has cancelled or has nothing to do, so two tasks interleave only
where asyncio lets them. `at` is the place in the code a task is at, `next` where it goes after
`_cancel_all_tasks`, `awaited` the timer it waits for. When several tasks wait for the same
timer, they wake in any order. The other variables are the fields of those names, without the
underscore. `TakeVad` and `TakeText` are the aggregator's `process_frame`; `Dispatch` the start
strategies and `_trigger_user_turn_start`; `ReportStart` and `ReportStop` the aggregator's
event handlers; `DecideStart`, `DecideStop`, `DecideText`, `DecideInterim`,
`Complete` the stop strategy's
handlers; `CancelTimers`, `Renew`, `Arm`, `Expire`, `Fire`, `Unwind` its timers; `Check`,
`Infer`, `Stop` the end of a turn; `Watchdog` the stop timeout.

The regime is a cascade (STT, LLM, TTS) without speculation, mute or idle controller, with a
positive wait for the STT and a watchdog that is longer than the other timers. Empty
transcriptions are left out; interim ones start a turn and hold back its end, but are not part
of what was heard.

## The runs

Passing runs, with the number of distinct states:

| Run | Instance | Properties |
|---|---|---|
| `frame_processor` (1,782,568) | a StartFrame, a pause frame, an uninterruptible frame, an interruption, a resume frame, queued in any order at any moment; every user operation but a second timed pause | `MustNotLost`, `StartFirst`, `InterruptionSettles`, `ArrivalOrder`, `ImplementsDelivery` |
| `frame_processor_live` (184,442) | a StartFrame, an uninterruptible frame, an interruption, a CancelFrame; timed pauses that replace each other, in any task, `broadcast_interruption` and `cleanup` | `CleanupStopsTasks`, `MustHandled`, `PauseAlwaysLifted`, `CleanupEnds` |
| `pipeline_worker` (62,254) | three queued frames of any kind, any kind may be blocked, the run task may be cancelled | `EndFlushes`, `StartedFirst`, `ReportedOnce`, `RunLeavesClean`, `WaitsEnd`, `CancelFinishes` |
| `parallel_pipeline` (78,139) | two branches; StartFrame, EndFrame, CancelFrame, interruption, flush probe, and a frame of a branch's own | `StartGoesFirst`, `EndGoesLast`, `AllBranchesFirst`, `OrderKept`, `PauseEnds` |
| `worker_runner` (282,964) | two roots and a child, added in any phase; the helper root and the child may quit or raise | `ChildrenFirst`, `ImplementsSession`, `EndsByItself` |
| `job_groups` (97,606) | two members, one of which may answer urgently; with and without timeout and `cancel_on_error` | `CompletedMeansAll`, `SettledOnce`, `AnsweredOnce`, `WaitEnds` |
| `function_calls` (245,579) | two calls of one response, one of them asynchronous with a deadline, in parallel or in sequence; a user's turn, the bot speaks | `OneOutcome`, `ResultRecorded`, `ContextSettles`, `OutcomeComes`, `LLMHears` |
| `audio_contexts` (451,637) | two turns or utterances, a frame that no interruption drops, an EndFrame, two interruptions, audio at any moment or never | `ContextsReady`, `NoStaleAudio`, `PauseLifted`, `MustEmitted`, `StopDrains` |
| `user_turn` (215,554) | four VAD frames, three transcriptions (interim, text, final), five timers, the watchdog | `HeardAlike`, `TurnEnds`, `Answered` |

The type invariants are theorems (`TypeCorrect` of each proof module) and need no run. The
variables of the abstract modules are functions of those of the modules that implement them.

Deadlock is not checked: all these systems stop when they have been torn down, or wait for
input that need not come.

**Bounds.** Frames are queued at most once each, so a run of `FrameProcessor` ends; each of
the three kinds of hazard (a frame lost, a wait never resolved, an order broken) needs one
uninterruptible frame, one other, and one frame or call that interrupts it, and the
instances have all three at once. Two calls of the timed pause overlap with each other only in
that one replaces the other's watcher; a third call that comes while the second waits for that
is left out (`MayPauseUntil`). While `cleanup` is at work timed pauses may still come, for a
watcher outlives it; the other pauses, resumes and broadcasts may not (`Running`): they start no
task, and the two tasks they could hold or let go are being cancelled. `TakenInOrder` and the other theorems below lift the safety
part to any number of frames. `MaxQueued = 3` lets `PipelineWorker` have data before an
EndFrame and a CancelFrame behind it, and two terminal frames in either order. Two branches
are the fewest with a fast and a slow one; the code compares counters with zero only, so a
third adds nothing but another slow one. In `WorkerRunner` two roots are the fewest for
"the last root", and one child the fewest for the order of ends; in `JobGroups` two members
are the fewest for "all" to differ from "one", and both theorems cover any number. In
`FunctionCalls` two calls are the fewest that have siblings, one of each of the two kinds (an
interruption cancels the one, a deadline ends the other), and one turn of the user brings the
one interruption that can hit each await. They are one batch: with a second one `LLMHears` does
not hold (`FunctionCalls_batches.cfg`). In `AudioContexts` two turns are the fewest with a
context of before an interruption and one of after it; one piece of audio separates a context
that was heard from a silent one; and of two interruptions the second finds what the first has left,
the task that died of it included, and renews that task. In `UserTurn` four VAD frames are two stretches of speech,
so that a turn can end between them or begin anew; three transcriptions can be one before,
one during and one after the end of a turn; three speech timers and two transcription timers
are enough for a task to wait for one that it has cancelled while another task has armed the
next. For safety, the theorems lift these bounds too.

**Fairness.** Weak fairness on each task's steps: asyncio runs every task that is ready. The
rest of it is named per module:

- `FrameProcessor`: `process_frame` of the subclass returns, and a pause's timeout elapses. The
  former is strong fairness (`InputDone`, `ProcessDone`): a task that waits in a timed pause of
  its own is not about to return, but it does in the end. Nobody has to queue a frame, resume,
  or clean up.
- `PipelineWorker`: the pipeline delivers what no processor blocks; the StartFrame's and
  CancelFrame's timeouts elapse. `Block` and `Cancel` are never forced.
- `ParallelPipeline`: a branch lets out, in the end, what it does not keep.
- `WorkerRunner`: a worker that was told to finish does.
- `JobGroups`: hooks return and the timeout, if the group has one, comes. A member need never
  answer; `WaitEnds` rests on the timeout alone.
- `FunctionCalls`: the loop runs what is ready. A handler without a deadline reports some day,
  and one that has reported returns; one with a deadline need do neither. The bot and the user
  stop speaking.
- `AudioContexts`: the loop runs what is ready, timeouts and the provider's hook included. The
  provider need never send anything, and the user may or may not interrupt.
- `UserTurn`: the loop runs what is ready, and a timer that is armed fires. Nobody has to speak,
  and no transcription has to come: `TurnEnds` rests on the timers alone.

**What the passing runs show.**

- *No uninterruptible frame is lost* (`MustNotLost`, `MustHandled`), whichever await of
  whichever task an interruption, a reset or a pause hits, until the processor is cancelled
  or torn down; and after a StartFrame it is handled, unless a pause is latched (next point).
- *Pauses* (`PauseAlwaysLifted`): a task that a pause holds is let go. In a processor that was started
  there are two ways in which it is not, and the property names both (`Latched`; a third, before
  the start, is `FrameProcessor_pause_setup.cfg`): `broadcast_interruption` has replaced
  the event that the process task waits on; or the task that was replacing the watcher of a
  pause was cancelled before it could start the new one, which leaves the pause unwatched. The
  comment of the code names none; `LiftedAsPromised` states it so, and is violated (below).
- *An interruption settles* (`InterruptionSettles`): nothing interruptible is left in the
  process queue or in a live task's hand when `_start_interruption` is over.
- *Order* (`StartFirst`, `ArrivalOrder`): frames of a tier are taken in the order they were
  queued, through two queues, two tasks, interruptions and pauses.
- *Delivery* (`ImplementsDelivery`): all of this seen by a neighbour. Two queues, two tasks,
  gates, pauses and interruptions amount to one step each of `FrameDelivery`, or to none.
- *Teardown* (`CleanupStopsTasks`, `CleanupEnds`): `cleanup` ends and leaves neither the input nor
  the process task, also when it finds the one waiting for the other, which it has cancelled. A
  watcher it leaves only if a timed pause started it after `cleanup` had dealt with watchers
  (`late`), and that watcher ends by its timeout.
- *The pipeline's life* (`EndFlushes`, `StartedFirst`, `ReportedOnce`, `RunLeavesClean`,
  `WaitsEnd`, `CancelFinishes`): the push task waits for the right
  frame, reports once and cleans up once, and each of its waits ends unless a processor blocks
  it, even though the sink, the timeouts, `cancel` and the cancellation of `run` race.
- *Branches* (`StartGoesFirst`, `EndGoesLast`, `AllBranchesFirst`, `OrderKept`, `PauseEnds`): holding everything back while a lifecycle frame is under way
  loses and reorders nothing, and ends.
- *Runner* (`ImplementsSession`, `EndsByItself`, `ChildrenFirst`): `run` waits for everyone
  who was there, returns when they have left, and with `auto_end` needs nobody to end it.
- *Jobs* (`CompletedMeansAll`, `SettledOnce`, `AnsweredOnce`, `WaitEnds`): whoever removes a
  group from `_job_groups` is the only one to settle it.
- *Function calls*: `runner_item.settled` makes the handler, its deadline and an interruption
  agree on one outcome (`OneOutcome`) and there always is one (`OutcomeComes`); the aggregator
  drops no answer that is still waited for and changes none it has recorded (`ResultRecorded`,
  `ContextSettles`); an inference that is put off is not forgotten (`LLMHears`).
- *Audio contexts*: queue and dictionary agree whenever the playing task looks, but for what was
  made again while an interruption told the provider, and nothing else kills that task
  (`ContextsReady`). No audio survives an interruption (`NoStaleAudio`). Unless the task died so
  and no later interruption renewed it (`DiedForGood`), what must not be dropped comes out
  (`MustEmitted`), and neither a silent context nor a late report of the transport keeps the
  service paused or `stop()` waiting (`PauseLifted`, `StopDrains`).
- *User turns*: every turn ends (`TurnEnds`), nothing heard is left out of the context
  (`Answered`), and the strategy's idea of the user's speaking is the controller's whenever the
  input task is done with a frame (`HeardAlike`), though two tasks and three timers reset it.

## Where the code and its documentation differ

Each of these is a run whose property states what a comment or docstring says. TLC finds the
property violated.

| Run | Property | What happens |
|---|---|---|
| `worker_runner_family` | `RemainingAreCancelled` | "Whichever are still running when the runner ends are cancelled" (`runner.py:210`). The cancel goes to roots only (line 443). A root that has finished does not pass it on, so its children are neither told nor done, and `run` waits for them. |
| `function_calls_once` | `GroupOnce` | "The aggregator triggers the LLM exactly once after the last one completes" (`llm_service.py:1506`). A sibling whose in-progress frame has not come yet is not seen (`llm_response_universal.py:1934`): a call that reports before it runs the LLM by itself, and the sibling runs it again. |
| `audio_contexts_end` | `EndReaches` | "The frame is always delivered and processed to completion" (`frames.py:152`). `stop()` awaits the audio context task (`tts_service.py:631`) which an interruption cancels (line 1048): the cancellation is raised in the process task too, and the EndFrame goes no further. |

Further configurations are kept beside these; each of them gives a counterexample with
`tlc -config <file> <module>`:

| Configuration | Property | What happens |
|---|---|---|
| `FrameProcessor_cancel.cfg` | `NothingAfterCancel` | "If we are cancelling we don't want to process any other frame" (`frame_processor.py:713`). Only `queue_frame` refuses. An interruption queued before the CancelFrame was handled creates the process task again (line 1150), and data frames that were in the input queue are then processed. |
| `FrameProcessor_pause_setup.cfg` | `PauseAlwaysLifted` | "The pause is therefore always lifted" (line 775). A pause that begins and times out before the StartFrame has no event to set (line 753), but its flags stay: the first frames after the StartFrame are held. |
| `FrameProcessor_pause_broadcast.cfg` | `LiftedAsPromised` | The same words. `broadcast_interruption` (line 1237) replaces the event on which the process task is held; the watcher then sets the new one, and the task stays held until an interruption or the teardown cancels it. |
| `FrameProcessor_pause_replace.cfg` | `LiftedAsPromised` | The same words. The process task pauses again while a pause is watched and waits for the former watcher's end (line 788). An interruption cancels it there: the former watcher is gone, the new one was never started, and the input task stays held. |
| `AudioContexts_told.cfg` | `NothingLost` | Uninterruptible frames "must not be lost mid-flight" (`tts_service.py:1050`). While an interruption awaits `on_audio_context_interrupted` (line 1055), audio for the turn, whose context had timed out, makes that context again in the queue that was just reset (line 1532). Its entry is then thrown away (line 1619), the new audio context task fails with `KeyError` when it gets there (line 1715), and what is behind it in the queue is not pushed. |
| `PipelineWorker_cancel.cfg` | `CancelAlwaysFinishes` | "This time we have really cancelled, so it should really finish" (`worker.py:871`). If the push task waits for an EndFrame that a processor blocks, the CancelFrame stays behind it in the push queue and that wait has no timeout (line 1238). |
| `ParallelPipeline_flush.cfg` | `FlushComesBack` | "The sink bounces it back upstream, the source turns it around" (`worker.py:928`). A parallel pipeline lets a frame's id out once whatever its direction (`parallel_pipeline.py:173`), so the probe does not come back and `flush_pipeline` times out. |
| `JobGroups_error.cfg` | `ErrorCancels` | "The group is cancelled and `on_job_completed` will not fire" (`base_worker.py:600`). The failing answer is recorded and `on_job_error` awaited before the group is removed (line 1436); an urgent answer handled by the other bus task meanwhile completes the group. `ErrorAlwaysCancels` proves that this needs an urgent answer. |
| `FunctionCalls_settle.cfg` | `CallSettles` | A cancellation is a system frame and overtakes the queued frame that announces its call (`llm_response_universal.py:2034`): it is ignored, the announcement then enters the call as running, and nothing ends it. Flows wait for such a call before a transition (`flows/manager.py:556`). |
| `FunctionCalls_batches.cfg` | `LLMHears` | "The context will be pushed once the last function call in the queue is processed" (`llm_response_universal.py:1971`). A result whose own batch is complete leaves the LLM to one behind it in the queue; if that one is of another batch, with a sibling still in progress, it does not run the LLM either (line 1934). With a sibling that nothing ends, as in `FunctionCalls_settle.cfg`, nobody does. `InferenceNeverForgotten` proves that this is the only way. |
| `UserTurn_alternate.cfg` | `Alternates` | A second turn starts while the task that ended the first still awaits a timer (`user_turn_controller.py:352`, 389): the aggregator hears start, start, stop. |

## Other behaviours worth knowing

Steps of the models that no property rules out, because no text of the repository does, or
because the property that would is one of those above:

- *Frame processor.* A timed pause that waits for the former watcher when `cleanup` comes starts
  its own afterwards (`frame_processor.py:788-793`): it outlives `cleanup`, by its timeout at
  most. A second timed pause that begins as the first ends does not hold a task that the
  first one had held (line 788). Data frames in
  the input queue are behind system frames in it, so an interruption queued after them empties
  a process queue that they have not reached, and they survive it (line 1142).
- *Pipeline worker.* A `run` task cancelled while it sets processors up, or while it awaits the
  push task, cleans nothing up (`worker.py:853`). An exception in the push task leaves
  `run` waiting for an event that is never set (line 1373; not modelled).
- *Runner.* A worker added while `run` starts the others makes it raise "dictionary changed
  size during iteration" (`runner.py:393`, action `StartFails`). `end` or `cancel` before
  `run` is forgotten, but `end`'s messages are delivered. A cancel overtakes an end (line 344).
  A child added before the runner is subscribed is lost. A worker added while the others are
  being cancelled is neither cancelled nor waited for. A child added after its parent passed
  an end or a cancel on is never told; the passing run excludes this (`LateChildren`).
- *Jobs.* A cancel that overtakes its request finds no job, and the job runs all the same
  (`base_worker.py:1482`). A handler that raises answers nothing (line 1397). A caller cancelled
  in `__aexit__`'s wait leaves the group behind (`job_context.py:346`). A group cancelled
  without a reason makes `wait` return normally with the answers there are. When a group is
  removed while its last answer waits for the timeout task, `del` raises `KeyError`; the bus
  logs it, and this keeps the settlement unique (`Tracked`).
- *Function calls.* A handler that returns without having reported takes its deadline with it
  (`llm_service.py:1759`): if what it left behind never reports, the call stays in progress.
- *Audio contexts.* A task that died on a context without an entry is noticed by nobody: its queue
  is emptied again only after the next interruption has started another (`tts_service.py:1048`).
  A pause taken while a context is open all of whose audio has been played
  waits for a report of the transport that was already given (`tts_service.py:1086`), until the
  next one; `PauseLifted` and `StopDrains` exclude it (`Due`).
- *User turns.* The interruption that opens a turn drops transcriptions that wait in the process
  queue (`frame_processor.py:1020`). A timer of the speech-timeout strategy that is over clears
  the field that may hold its successor (`speech_timeout_user_turn_stop_strategy.py:282`), which
  then cannot be cancelled any more; it fires into a strategy that has been reset.

## The proofs

TLAPS proves the following for every value of the constants that satisfies the modules'
assumptions:

| Assumption | The proofs cover |
|---|---|
| `FrameAssumption` (`FrameProcessor`) | any set of frames of any kinds, any user operations |
| `WorkerAssumption` (`PipelineWorker`) | any number of queued frames, any choice of what may be blocked |
| `BranchAssumption` (`ParallelPipeline`) | any finite set of branches, any frames of any kinds, any frames of the branches' own |
| `RunnerAssumption` (`WorkerRunner`) | any workers, families and choices of who quits or fails |
| `JobAssumption` (`JobGroups`) | any members |
| `CallsAssumption` (`FunctionCalls`) | any finite set of calls, in any batches, asynchronous or with a deadline or not, any settings |
| `BoundAssumption` (`AudioContexts`) | any number of turns, interruptions, pieces of audio and uninterruptible frames |
| `TimersAssumption` (`UserTurn`) | any finite sets of timers, any number of frames of the VAD and of transcriptions |

`FrameProcessorProofs`. `Inv` is inductive. The safety properties are not so by themselves;
what had to be added, and why:

- `Hands`: a task that handles a frame has one, and an input task that waits for the queue has
  none. Without it the type is not preserved, and `InputHas` says too much.
- `StartKnown`: an input task exists only because a StartFrame was queued, and the frame is
  ahead of everything, in hand or handled. `StartFirst` rests on it: what `InputGet` takes while
  a StartFrame is queued is that frame.
- `CleanupOrder`: each stage of `cleanup` leaves what the next relies on; in particular the
  input task is gone before the process task is stopped, so nothing recreates the latter. From
  its first stage on a watcher can only be a late one, for every watcher started then is.
- `Numbered`, `Ordered`: numbers are distinct, and the process queue is in order of arrival and
  ahead of every frame still to join it. `ArrivalOrder` is a consequence for each step.
- `Steady`, on top of `Inv`, for the refinement: a frame is in one place only (`Placed`); one that
  has passed the input queue was given before those of its kind that are still there (`Passed`);
  a frame other than the StartFrame is taken when a StartFrame was handled (`StartHandled`); and
  the process task exists, or is being replaced, from the StartFrame on (`Begun`).

The refinement takes each step of the processor to the one of `FrameDelivery` that it is, or shows
that no frame's `Fate` changes. The steps that move frames are few (`Moves`); the hard ones are
the interruption, which must lose nothing that came after it or that is still behind a system
frame, and the steps that take a frame, which must find no earlier one of its tier waiting in
either queue.

| Theorem | States |
|---|---|
| `TypeCorrect` | `Spec => []TypeOK` |
| `Invariance` | `Spec => []Inv` |
| `NothingMustIsLost` | `Spec => []MustNotLost` |
| `StartComesFirst` | `Spec => []StartFirst` |
| `InterruptionsSettle` | `Spec => []InterruptionSettles` |
| `OnlyLateWatcherOutlivesCleanup` | `Spec => []CleanupStopsTasks` |
| `TakenInOrder` | `Spec => ArrivalOrder` |
| `ProcessorImplementsDelivery` | `Spec => ImplementsDelivery`: the whole refinement, `FrameDelivery` having no fairness |

`PipelineWorkerProofs`. `Inv` adds to the properties `Begun` (nothing enters the pipeline before
the push task begins, and only the StartFrame while it waits for it), `Counted` (one frame that
ends the pipeline is pushed; until it is reported it is the only one there, and once it is
reported none is) and `Cleaned` (what each end of the push task leaves). Taking a frame out of
the middle of the pipeline is the lemma `Removed`.

| Theorem | States |
|---|---|
| `TypeCorrect` | `Spec => []TypeOK` |
| `NothingBeforeStart` | `Spec => []StartedFirst` |
| `EndIsFlushed` | `Spec => []EndFlushes` |
| `EndReportedOnce` | `Spec => []ReportedOnce` |
| `NothingLeftBehind` | `Spec => []RunLeavesClean` |

`ParallelPipelineProofs`. The argument counts. A synchronized frame is in the queue, or in
every branch that it has not left, and the counter that the code compares with zero is the number
of those branches; taking a branch out of a finite set of them takes one from the number. `Inv`
has, beside the types:

- `Waits`, `Travels`: a synchronized frame comes from upstream only and is in one place of the
  queues; once it is taken, each branch holds it once or has let it through.
- `Comes`: it is never buffered, and is let out when every branch has handled it.
- `Counts`: its counter is the number of branches that have yet to handle it.
- `OneAtATime`: one frame at a time has a counter, and while it has, both queues are paused; so no
  frame ends another's pause.
- `Opening`, `Closing`: a StartFrame is the first to be taken and nothing comes out before it; no data
  is queued behind an EndFrame or gets behind it in a branch.

`OrderKept` is about positions: what has come out, with what is buffered, is the frames let through
in that order, but that a synchronized frame may come out ahead of the buffered ones (`Follows`).
`Order` says this of every state, and that nothing is buffered but during a pause. A frame is
inserted into such a sequence at its end, or ahead of the buffer (`FollowsInsert`).

| Theorem | States |
|---|---|
| `TypeCorrect` | `Spec => []TypeOK` |
| `StartComesFirst` | `Spec => []StartGoesFirst` |
| `EndComesLast` | `Spec => []EndGoesLast` |
| `EveryBranchFirst` | `Spec => []AllBranchesFirst` |
| `PausedWhileWaiting` | `Spec => []OneAtATime` |
| `ComesOutInOrder` | `Spec => []OrderKept` |

`WorkerRunnerProofs`. `Inv` is `TypeOK` with `Entered` (only an entry has a task, and once the
session is set up every entry has one) and `EndsInOrder` (an end is complete when the
children's are).

| Theorem | States |
|---|---|
| `TypeCorrect` | `Spec => []TypeOK` |
| `ChildrenEndFirst` | `Spec => []ChildrenFirst` |
| `RunnerImplementsSession` | `Spec => Session!Init /\ [][Session!Next]_(Session!vars)`: each step of the runner is a step of the session or leaves it alone. The session's fairness is model-checked only (`ImplementsSession`). |

`JobGroupsProofs`. `Inv` is `TypeOK` with `Begun` (nothing has happened before the context is
entered), `Given` (every answer on its way has been given), `OneOwner` (at most one task has
removed the group and is to settle it; until then it is unsettled and nobody was told to
cancel) and `Full` (who is to complete it has every answer).

Two more are for what `WaitEnds` needs besides fairness. `Minded`: a group that has gone is settled,
or the task that removed it is there to settle it; who waits for the timeout task has cancelled it,
or it is over. `Arriving`: no answer to an open group is lost between the queues and the tasks that
handle it, and who counts the last one is on the way to close the group.

| Theorem | States |
|---|---|
| `TypeCorrect` | `Spec => []TypeOK` |
| `CompletionMeansAll` | `Spec => []CompletedMeansAll` |
| `SettlesOnce` | `Spec => SettledOnce` |
| `AnswersOnce` | `Spec => AnsweredOnce` |
| `ErrorAlwaysCancels` | if no member answers urgently, `Spec => []ErrorCancels`: the reverse of `JobGroups_error.cfg`. Its extra invariant is `OneHandler`: one task handles the answers, so an error leaves the group open only while that task is about to cancel it. |
| `GroupNeverAbandoned` | `Spec => []NeverAbandoned`: while a group is unsettled, its timeout or an answer has yet to come, or a task is there to settle it and waits for nothing that sleeps |

`FunctionCallsProofs`. Two invariants. For the first theorem: a call that is not settled was
announced to nobody (`Unsettled`), a call whose callback awaits its timer is settled and not yet
announced (`ClosingIsFirst`), and whoever cancels a call or meets its deadline has settled it
(`CancelSettles`, `ExpirySettles`); so the one that settles is the one that announces. For the
other two, `Delivery` follows the frames between service and aggregator: nothing was sent of a call
that has not begun (`Untold`); who may still report was told of (`ReportersTold`); the lane says
once that a call is in progress, before anything else is known (`InProgressOnce`), and a result
comes behind it (`ResultsFollow`); the aggregator has a call in progress exactly while the context
waits for it (`WaitsAlike`). A result is a data frame, so it reaches the aggregator only as the
first of the lane, when all that was ahead of it has been handled.

Two more say what `OutcomeComes` and `LLMHears` need besides fairness. `AllMinded` and `Queued`: who
has been settled and not announced is in the care of its callback, its deadline or a canceller, a
cancelled task has its canceller still there, and the sequential runner has every call that waits.
`Quiet`, until the user's first turn: only deadlines cancel (`Silent`); a call is announced once, by
the one who ends its deadline or cancellation (`Once`); so the lane has one outcome of a call, and
none that the context has already (`OutcomesOnce`). Hence a result that an inference was left to
will find its call in progress, and run the LLM or leave it to another (`Owed`).

| Theorem | States |
|---|---|
| `TypeCorrect` | `Spec => []TypeOK` |
| `OneOutcomeHolds` | `Spec => []OneOutcome` |
| `ResultsRecorded` | `Spec => ResultRecorded` |
| `ContextSettlesOnce` | `Spec => ContextSettles` |
| `CallNeverForgotten` | `Spec => []NeverForgotten`: a call without an outcome is queued, can begin, may still report, or somebody who has settled it is about to announce it |
| `InferenceNeverForgotten` | `Spec => []InferenceOwed`: until the user speaks, what no inference has seen is owed one by a sibling in progress, by the end of the bot's speech, or by a result in the lane |

`AudioContextsProofs`. `Matched`: outside of the hooks, the serialization queue has each open context
but the one that is played, and beside them only what was `remade`. `Telling`: during the hooks,
the only contexts in it are remade; so `Interrupted`, which throws the
entries away, leaves nothing in the queue but that. `Single`: each entry is there once, the sentinel
only while `stop()` waits. `Hands`: which context the task has in hand when it plays, is over, or is
dead. `Fresh`: no context that an interruption has put behind it is open, or is the turn's, from
which it could be opened again. `NoStaleAudio` follows for each step: what is sent is the audio of
the context that plays, which is open; a remade context has no entry, so none of its audio is sent.

| Theorem | States |
|---|---|
| `TypeCorrect` | `Spec => []TypeOK` |
| `ContextsStayReady` | `Spec => []ContextsReady`: the only contexts without an entry, and the only ones the task dies of, are those remade in an interruption |
| `AudioIsFresh` | `Spec => NoStaleAudio` |

`UserTurnProofs`. `HeardAlike` speaks of the moments when the input task is done. The invariant
follows it through its frame: only that task handles frames of the VAD, and its frame says what
the controller has recorded (`Frames`); from the place where the strategy decides on, the two flags
agree (`Agree`). The end of a turn resets the strategy from any task, but only when the user is
silent.

The types of this module say more than types: a field that holds a timer task holds one that is not
over, so that to cancel it has an effect, and a timer that somebody waits for has yet to run. The
proof follows the handles of the timers from `Arm` to the end of the task.

Tasks wait for each other here: one that cancels a timer waits for its end, and the timer's own
task cancels others. `Served`: whoever has something to do is in the loop's queue or waits for a
timer that was cancelled. `Still`: a timer that has not fired has not begun, and waits for nobody;
one that was cancelled is itself in the queue. So no task waits for ever and there is no circle, which is what `TurnEnds` and `Answered`
need besides fairness.

| Theorem | States |
|---|---|
| `TypeCorrect` | `Spec => []TypeOK` |
| `HeardAlikeHolds` | `Spec => []HeardAlike` |
| `NobodyForgotten` | `Spec => []Scheduled` |

**Only model-checked.** All liveness, the session's fairness in `ImplementsSession` with it: fairness
and `ENABLED` are beyond the prover. For three of the liveness properties (`WaitEnds`,
`OutcomeComes`, `LLMHears`) and for the waiting in `UserTurn`, the theorems above prove the part
that is no matter of fairness: in every state what has to happen is in somebody's hands. Every
safety property of a passing run is a theorem. No module declares a recursive operator.

## What is not modelled

Within the modelled components: the task manager's bookkeeping and its uncaught-exception
path; `push_frame` to the neighbours and its observers; error frames; metrics;
direct mode; the worker's heartbeats, idle monitor, turn tracking, RTVI and observers; setup
files and signal handlers of the runner; job streams' updates and the events iterator; remote
buses. A subclass's `process_frame` is a step that returns: an exception in it is reported
and counts as its end. Time is a timeout that may fire at any moment; no duration is modelled.

Whole components: the table above and the notes in `PROJECT.json`. Hazards of the modelled code
that no property covers are listed there with the reason.

## Plan

Done: the eight components of the modules above, each modelled, checked and with every safety
property of its runs proved; two refinements.
Next, in order of what it would add:

1. Proofs of what the remaining liveness properties need besides fairness, as `NeverAbandoned` and
   `NeverForgotten` are: `AudioContexts` (who lifts a pause, what `stop()` waits for),
   `PipelineWorker` (what the push task and `run` wait for), `FrameProcessor` (who opens a gate).
2. `PipelineWorker`: heartbeats, the idle monitor and flush probes as actions.
3. `WorkerRunner`: the registry and its watches, so that late and remote members come in.
4. `UserTurn`: the other start and stop strategies (turn analyzer, transcription, minimum words),
   user idle and user mute.
5. `FunctionCalls` and `UserTurn` composed: a user's turn is one action there and a machine here.
6. `AudioContexts`: word timestamps, and services that reuse a context across sentences.
7. `ServiceSwitcher`, `SyncParallelPipeline`, `FlowManager`: each a module of its own.
