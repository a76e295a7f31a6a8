---------------------------- MODULE FunctionCalls ----------------------------
(***************************************************************************)
(* The function calls of an LLM service (services/llm_service.py) and what *)
(* the assistant's context aggregator makes of them                        *)
(* (processors/aggregators/llm_response_universal.py).                     *)
(*                                                                         *)
(* The service runs each call in a task, in parallel or one after another, *)
(* may arm a deadline for it, and cancels it when the deadline passes or   *)
(* the user interrupts. It tells the aggregator by frames: that the calls  *)
(* of a batch started, that a call is in progress, its results, its        *)
(* cancellation. The aggregator writes the outcome in the context and runs *)
(* the LLM again. An await that can suspend ends an action.                *)
(*                                                                         *)
(* The processors between the two are one lane: system frames keep their   *)
(* order and overtake data frames, which keep theirs. All the data frames  *)
(* here are uninterruptible, so an interruption drops none of them.        *)
(***************************************************************************)
EXTENDS Naturals, Sequences, SequencesExt, FiniteSets

CONSTANTS
  Calls,     \* the tool_call_ids
  Batch,     \* the batch (one LLM response) of each call: 1, 2, ...
  Async,     \* the calls registered with cancel_on_interruption = False
  Timed,     \* the calls with a timeout
  Modes,     \* the settings of run_in_parallel and group_parallel_tools
  MaxTurns   \* bound: the turns the user takes

ASSUME CallsAssumption ==
  /\ IsFiniteSet(Calls) /\ Calls # {}
  /\ Batch \in [Calls -> Nat \ {0}]
  /\ Async \subseteq Calls /\ Timed \subseteq Calls
  /\ Modes \subseteq [parallel : BOOLEAN, grouped : BOOLEAN] /\ Modes # {}
  /\ MaxTurns \in Nat

VARIABLES
  mode,      \* run_in_parallel and group_parallel_tools
  batches,   \* how many batches the LLM has asked for
  \* The service
  queue,     \* _sequential_runner_queue
  task,      \* the task of each call; "closing": awaits the end of its timer
  tracked,   \* the keys of _function_call_tasks
  settled,   \* the runner items with settled set
  timer,     \* the timeout task of each call, then the detached one
  sweep,     \* the functions _handle_interruptions has yet to visit
  cancelling,\* who waits for a cancelled task to end, to announce it
  lane,      \* the frames on their way to the aggregator
  \* The aggregator
  progress,  \* _function_calls_in_progress; "none" is the value None
  context,   \* what the context says of each call
  userSpeaking, botSpeaking,
  pushLater, \* _push_context_on_bot_stopped_speaking
  \* The user
  turn,      \* "ended" until the turn's own inference has begun
  turns,
  \* History
  announced, \* the outcomes the service broadcast, in order
  unheard,   \* the outcomes in the context that no inference has seen
  pushes     \* the inferences run because a call of the batch settled

service    == <<queue, task, tracked, settled, timer, sweep, cancelling, announced>>
aggregator == <<progress, context, userSpeaking, botSpeaking, pushLater, pushes>>
user       == <<turn, turns>>
vars == <<mode, batches, service, lane, aggregator, user, unheard>>

Batches == {Batch[c] : c \in Calls}
Members(b) == {c \in Calls : Batch[c] = b}
SystemFrames == {"cancel", "user started", "user stopped"}

\* What the service and the user's turns send; run: whether a cancellation makes
\* the LLM run.
Frames ==
  [kind : {"in progress", "result", "cancel"}, of : Calls, run : BOOLEAN]
    \cup [kind : {"user started", "user stopped"}, of : {0}, run : {FALSE}]

TypeOK ==
  /\ mode \in Modes /\ batches \in Nat
  /\ queue \in Seq(Calls)
  /\ task \in [Calls -> {"no", "queued", "created", "running", "closing",
                         "reported", "cancelled", "over"}]
  /\ tracked \subseteq Calls /\ settled \subseteq Calls
  /\ timer \in [Calls -> {"off", "armed", "expired"}]
  /\ sweep \subseteq Calls \ Async
  /\ cancelling \subseteq Calls \X {"sweep", "timeout"}
  /\ lane \in Seq(Frames) /\ announced \in [Calls -> Seq({"result", "cancel"})]
  /\ progress \in [Calls -> {"absent", "none", "running"}]
  /\ context \in [Calls -> {"absent", "pending", "result", "cancelled"}]
  /\ userSpeaking \in BOOLEAN /\ botSpeaking \in BOOLEAN /\ pushLater \in BOOLEAN
  /\ turn \in {"quiet", "speaking", "ended"} /\ turns \in 0..MaxTurns
  /\ unheard \subseteq Calls /\ pushes \in [Batches -> Nat]

Init ==
  /\ mode \in Modes /\ batches = 0
  /\ queue = <<>> /\ lane = <<>>
  /\ task = [c \in Calls |-> "no"] /\ timer = [c \in Calls |-> "off"]
  /\ tracked = {} /\ settled = {} /\ sweep = {} /\ cancelling = {} /\ unheard = {}
  /\ progress = [c \in Calls |-> "absent"] /\ context = [c \in Calls |-> "absent"]
  /\ userSpeaking = FALSE /\ botSpeaking = FALSE /\ pushLater = FALSE
  /\ turn = "quiet" /\ turns = 0
  /\ announced = [c \in Calls |-> <<>>] /\ pushes = [b \in Batches |-> 0]

(***************************************************************************)
(* The service                                                             *)
(***************************************************************************)
Broadcast(kind, of, run) == lane' = Append(lane, [kind |-> kind, of |-> of, run |-> run])

\* The outcome of a call, broadcast.
Announce(c, kind, run) ==
  /\ Broadcast(kind, c, run)
  /\ announced' = [announced EXCEPT ![c] = Append(@, kind)]

\* run_function_calls: the batch the LLM asks for is announced; its calls get
\* a task each, or go to the sequential runner. The announcement is a system
\* frame ahead of every frame of the calls, so the aggregator notes it at once
\* (_handle_function_calls_started).
StartBatch(b) ==
  /\ b = batches + 1
  /\ batches' = b
  /\ progress' = [c \in Calls |-> IF Batch[c] = b THEN "none" ELSE progress[c]]
  /\ task' = [c \in Calls |-> IF Batch[c] # b THEN task[c]
                              ELSE IF mode.parallel THEN "created" ELSE "queued"]
  /\ IF mode.parallel
     THEN tracked' = tracked \cup Members(b) /\ UNCHANGED queue
     ELSE queue' = queue \o SetToSeq(Members(b)) /\ UNCHANGED tracked
  /\ UNCHANGED <<mode, settled, timer, sweep, cancelling, announced, lane, context,
                 userSpeaking, botSpeaking, pushLater, pushes, user, unheard>>

\* _sequential_runner_handler: the next call, once the last one is over.
RunNext ==
  /\ queue # <<>>
  /\ \A c \in Calls : task[c] \in {"no", "queued", "over"}
  /\ task' = [task EXCEPT ![Head(queue)] = "created"]
  /\ tracked' = tracked \cup {Head(queue)}
  /\ queue' = Tail(queue)
  /\ UNCHANGED <<mode, batches, settled, timer, sweep, cancelling, announced, lane,
                 aggregator, user, unheard>>

\* _run_function_call up to the handler.
Begin(c) ==
  /\ task[c] = "created"
  /\ task' = [task EXCEPT ![c] = "running"]
  /\ Broadcast("in progress", c, FALSE)
  /\ timer' = IF c \in Timed THEN [timer EXCEPT ![c] = "armed"] ELSE timer
  /\ UNCHANGED <<mode, batches, queue, tracked, settled, sweep, cancelling, announced,
                 aggregator, user, unheard>>

\* function_call_result_callback with a final result, by the handler, on its
\* behalf when it raised, or by what the handler left behind when it returned:
\* the call is settled, then the result is broadcast, at once or when the
\* timeout task has been cancelled.
Report(c) ==
  /\ task[c] \in {"running", "over"} /\ c \notin settled
  /\ settled' = settled \cup {c}
  /\ timer' = [timer EXCEPT ![c] = "off"]
  /\ IF timer[c] = "armed"
     THEN task' = [task EXCEPT ![c] = "closing"] /\ UNCHANGED <<lane, announced>>
     ELSE /\ task' = IF task[c] = "running" THEN [task EXCEPT ![c] = "reported"] ELSE task
          /\ Announce(c, "result", FALSE)
  /\ UNCHANGED <<mode, batches, queue, tracked, sweep, cancelling, aggregator, user, unheard>>

Closed(c) ==
  /\ task[c] = "closing"
  /\ task' = [task EXCEPT ![c] = "reported"]
  /\ Announce(c, "result", FALSE)
  /\ UNCHANGED <<mode, batches, queue, tracked, settled, timer, sweep, cancelling,
                 aggregator, user, unheard>>

\* The handler returns, having reported or leaving that for later: the timeout
\* task is cancelled either way.
Return(c) ==
  /\ task[c] \in {"running", "reported"}
  /\ task' = [task EXCEPT ![c] = "over"]
  /\ timer' = IF timer[c] = "armed" THEN [timer EXCEPT ![c] = "off"] ELSE timer
  /\ UNCHANGED <<mode, batches, queue, tracked, settled, sweep, cancelling, announced, lane,
                 aggregator, user, unheard>>

\* The cancelled task ends: a call that never began has nothing to unwind.
Unwind(c) ==
  /\ task[c] = "cancelled"
  /\ task' = [task EXCEPT ![c] = "over"]
  /\ timer' = IF timer[c] = "armed" THEN [timer EXCEPT ![c] = "off"] ELSE timer
  /\ UNCHANGED <<mode, batches, queue, tracked, settled, sweep, cancelling, announced, lane,
                 aggregator, user, unheard>>

\* _function_call_task_finished as the task's done callback, which a canceller
\* removes, or the sequential runner dropping its entry.
Untrack(c) ==
  /\ task[c] = "over" /\ c \in tracked
  /\ mode.parallel => \A by \in {"sweep", "timeout"} : <<c, by>> \notin cancelling
  /\ tracked' = tracked \ {c}
  /\ UNCHANGED <<mode, batches, queue, task, settled, timer, sweep, cancelling, announced, lane,
                 aggregator, user, unheard>>

\* (mutant) the deadline leaves the call unsettled
AtDeadlineNothing(c) == settled

AtDeadline(c) == settled \cup {c}

\* timeout_handler: the deadline settles the call and leaves the rest to a
\* detached task.
Expire(c) ==
  /\ timer[c] = "armed"
  /\ timer' = [timer EXCEPT ![c] = "expired"]
  /\ settled' = AtDeadline(c)
  /\ UNCHANGED <<mode, batches, queue, task, tracked, sweep, cancelling, announced, lane,
                 aggregator, user, unheard>>

\* The first half of _cancel_function_call_tasks: settle the call and cancel
\* its task.
CancelTask(c, by) ==
  /\ settled' = settled \cup {c}
  /\ task' = IF task[c] = "over" THEN task ELSE [task EXCEPT ![c] = "cancelled"]
  /\ cancelling' = cancelling \cup {<<c, by>>}

\* (mutant) a task that is gone has nothing left to announce
TellNobody(c) == UNCHANGED <<lane, announced>>

TellTimeOut(c) == Announce(c, "cancel", TRUE)

\* _timeout_function_call: a call whose task is gone is announced at once.
TimeOut(c) ==
  /\ timer[c] = "expired"
  /\ timer' = [timer EXCEPT ![c] = "off"]
  /\ IF c \in tracked
     THEN CancelTask(c, "timeout") /\ UNCHANGED <<lane, announced>>
     ELSE TellTimeOut(c) /\ UNCHANGED <<settled, task, cancelling>>
  /\ UNCHANGED <<mode, batches, queue, tracked, sweep, aggregator, user, unheard>>

\* _handle_interruptions: the functions to be cancelled, one after the other.
Visit(c) ==
  /\ c \in sweep /\ \A d \in Calls : <<d, "sweep">> \notin cancelling
  /\ sweep' = sweep \ {c}
  /\ IF c \in tracked THEN CancelTask(c, "sweep") ELSE UNCHANGED <<settled, task, cancelling>>
  /\ UNCHANGED <<mode, batches, queue, tracked, timer, announced, lane, aggregator, user, unheard>>

\* The second half of _cancel_function_call_tasks, when the task has ended.
Cancelled(c, by) ==
  /\ <<c, by>> \in cancelling /\ task[c] = "over"
  /\ cancelling' = cancelling \ {<<c, by>>}
  /\ tracked' = tracked \ {c}
  /\ Announce(c, "cancel", by = "timeout")
  /\ UNCHANGED <<mode, batches, queue, task, settled, timer, sweep, aggregator, user, unheard>>

(***************************************************************************)
(* The aggregator                                                          *)
(***************************************************************************)
Push == unheard' = {} /\ pushLater' = FALSE

\* Whether the batch still waits for a call, of those the aggregator knows to
\* be in progress.
SiblingRunning(c) ==
  mode.grouped /\ \E d \in Members(Batch[c]) \ {c} : progress[d] = "running"

\* (mutant) the inference is dropped while the bot speaks
Forgotten == pushLater

PutOff == TRUE

\* _maybe_push_context_after_function_result: another result that is queued is
\* left to run the LLM; one that is on its way may be queued already.
MaybePush(c, rest) ==
  \/ /\ \E j \in 1..Len(rest) : rest[j].kind = "result"
     /\ unheard' = unheard \cup {c} /\ UNCHANGED <<pushLater, pushes>>
  \/ /\ botSpeaking
     /\ pushLater' = PutOff /\ unheard' = unheard \cup {c} /\ UNCHANGED pushes
  \/ /\ ~botSpeaking
     /\ Push /\ pushes' = [pushes EXCEPT ![Batch[c]] = @ + 1]

\* The outcome of a call goes to the context, and the LLM may run.
Settle(c, outcome, mayRun, rest) ==
  /\ context' = [context EXCEPT ![c] = outcome]
  /\ progress' = [progress EXCEPT ![c] = "absent"]
  /\ IF mayRun /\ ~userSpeaking /\ ~SiblingRunning(c)
     THEN MaybePush(c, rest)
     ELSE unheard' = unheard \cup {c} /\ UNCHANGED <<pushLater, pushes>>
  /\ UNCHANGED <<userSpeaking, botSpeaking>>

\* (mutant) a call that was announced counts as in progress
Started(c) == progress[c] # "absent"

\* Results and cancellations of other calls are ignored.
InProgress(c) == progress[c] = "running"

Ignore == UNCHANGED <<aggregator, unheard>>

\* process_frame for the frame f, with the rest of the lane behind it.
Handle(f, rest) ==
  CASE f.kind = "in progress" ->
         /\ progress' = [progress EXCEPT ![f.of] = "running"]
         /\ context' = [context EXCEPT ![f.of] = "pending"]
         /\ UNCHANGED <<userSpeaking, botSpeaking, pushLater, pushes, unheard>>
    [] f.kind = "result" ->
         IF InProgress(f.of) THEN Settle(f.of, "result", TRUE, rest) ELSE Ignore
    [] f.kind = "cancel" ->
         IF InProgress(f.of) THEN Settle(f.of, "cancelled", f.run, rest) ELSE Ignore
    [] f.kind = "user started" ->
         /\ userSpeaking' = TRUE /\ pushLater' = FALSE
         /\ UNCHANGED <<progress, context, botSpeaking, pushes, unheard>>
    [] f.kind = "user stopped" ->
         /\ userSpeaking' = FALSE
         /\ UNCHANGED <<progress, context, botSpeaking, pushLater, pushes, unheard>>

\* (mutant) data frames overtake each other
OvertakesAny(f, g) == g.kind \notin SystemFrames

Overtakes(f, g) == f.kind \in SystemFrames /\ g.kind \notin SystemFrames

\* The next frame is the first system frame, or the first data frame if no
\* system frame is ahead of it.
Deliver(i) ==
  /\ \A j \in 1..(i - 1) : Overtakes(lane[i], lane[j])
  /\ lane' = RemoveAt(lane, i)
  /\ Handle(lane[i], RemoveAt(lane, i))
  /\ UNCHANGED <<mode, batches, service, user>>

BotStarts ==
  /\ ~botSpeaking /\ botSpeaking' = TRUE
  /\ UNCHANGED <<mode, batches, service, lane, progress, context, userSpeaking, pushLater,
                 pushes, user, unheard>>

\* BotStoppedSpeakingFrame: the inference put off until now.
BotStops ==
  /\ botSpeaking /\ botSpeaking' = FALSE
  /\ IF pushLater /\ ~userSpeaking THEN Push ELSE UNCHANGED <<unheard, pushLater>>
  /\ UNCHANGED <<mode, batches, service, lane, progress, context, userSpeaking, pushes, user>>

(***************************************************************************)
(* The user                                                                *)
(***************************************************************************)
CancelOnInterruption == Calls \ Async

\* A turn starts with an interruption, which the service handles on its way.
UserStarts ==
  /\ turn = "quiet" /\ turns < MaxTurns
  /\ sweep = {} /\ \A c \in Calls : <<c, "sweep">> \notin cancelling
  /\ turn' = "speaking" /\ turns' = turns + 1
  /\ sweep' = {c \in CancelOnInterruption : task[c] # "over" \/ c \in tracked}
  /\ Broadcast("user started", 0, FALSE)
  /\ UNCHANGED <<mode, batches, queue, task, tracked, settled, timer, cancelling, announced,
                 aggregator, unheard>>

UserStops ==
  /\ turn = "speaking" /\ turn' = "ended"
  /\ Broadcast("user stopped", 0, FALSE)
  /\ UNCHANGED <<mode, batches, service, aggregator, turns, unheard>>

\* The LLM runs on the user's turn and reads the context.
UserInference ==
  /\ turn = "ended" /\ turn' = "quiet"
  /\ unheard' = {}
  /\ UNCHANGED <<mode, batches, service, lane, aggregator, turns>>

\* What the event loop runs by itself, and what a handler does.
EventLoop ==
  \/ RunNext
  \/ \E c \in Calls : \/ Begin(c) \/ Closed(c) \/ Unwind(c) \/ Untrack(c)
                      \/ Expire(c) \/ TimeOut(c) \/ Visit(c)
                      \/ \E by \in {"sweep", "timeout"} : Cancelled(c, by)
  \/ \E i \in 1..Len(lane) : Deliver(i)

Next ==
  \/ \E b \in Batches : StartBatch(b)
  \/ EventLoop
  \/ \E c \in Calls : Report(c) \/ Return(c)
  \/ BotStarts \/ BotStops \/ UserStarts \/ UserStops \/ UserInference

(***************************************************************************)
(* The event loop runs some task that can run. A handler that no deadline  *)
(* guards reports some day, and one that has reported returns: nothing in  *)
(* the code makes it. The bot and the user do not speak for ever.          *)
(***************************************************************************)
Fairness ==
  /\ WF_vars(EventLoop)
  /\ WF_vars(\E c \in Calls : \/ timer[c] = "off" /\ Report(c)
                              \/ task[c] = "reported" /\ Return(c))
  /\ WF_vars(BotStops) /\ WF_vars(UserStops \/ UserInference)

Spec == Init /\ [][Next]_vars /\ Fairness

------------------------------------------------------------------------------
(***************************************************************************)
(* Properties                                                              *)
(***************************************************************************)
\* The service announces one result at most, and none once it has announced a
\* cancellation, however the handler, its deadline, an interruption and the
\* unwinding of its task are ordered (runner_item.settled).
OneOutcome ==
  \A c \in Calls : \A i \in 2..Len(announced[c]) : announced[c][i] # "result"

\* No answer is lost on its way: when a result reaches the aggregator, its call
\* is in progress there and the result goes to the context, unless the context
\* says that the call was cancelled. The aggregator's "is not running" and "is
\* not in progress" never drop the answer of a call that still waits for it.
Coming(frames) == {f.of : f \in {g \in Range(frames) : g.kind = "result"}}

ResultRecorded ==
  [][\A c \in Coming(lane) \ Coming(lane') : context'[c] \in {"result", "cancelled"}]_vars

\* What the context says of a call is settled once: a cancellation that comes
\* after the result, or a second one, changes nothing.
ContextSettles ==
  [][\A c \in Calls : context[c] \in {"result", "cancelled"} => context'[c] = context[c]]_vars

\* Every call that was started gets an outcome: its result, or a cancellation
\* by the user or by its deadline.
OutcomeComes ==
  \A c \in Calls : (task[c] # "no") ~> (announced[c] # <<>>)

\* While the user is silent, what a call came to is seen by an inference once it
\* is in the context and its batch waits for no other call: an inference that
\* is put off, for a result in the queue or until the bot is silent, is not
\* forgotten.
LLMHears ==
  \A c \in Calls : []<>(c \notin unheard \/ SiblingRunning(c) \/ turns > 0)

\* The aggregator stops tracking every call it was told of.
CallSettles == \A c \in Calls : (progress[c] # "absent") ~> (progress[c] = "absent")

\* With group_parallel_tools the calls of a batch make the LLM run once.
GroupOnce == mode.grouped => \A b \in Batches : pushes[b] <= 1
==============================================================================
