------------------------------- MODULE JobGroups -------------------------------
(***************************************************************************)
(* A job group: one worker asks others to do a job and waits for their     *)
(* answers (src/src/pipecat/workers/base_worker.py and                     *)
(* pipeline/job_context.py), over a local bus (bus/bus.py, bus/queue.py).  *)
(*                                                                         *)
(* At the requester, four tasks work on the group: the bus's router task,  *)
(* which handles urgent answers ahead of the others, its data task, which  *)
(* handles the others, the application cancelling the group, and the       *)
(* context that was left with an error. The group's timeout is a fifth     *)
(* task. Whoever removes the group from _job_groups is to settle it. An    *)
(* await in a hook or of the timeout task ends an action.                  *)
(*                                                                         *)
(* Each member gets one request and at most one cancel, so these are the   *)
(* state of their delivery. The end of a stream is an answer; updates and  *)
(* the rest of a stream change nothing here and are left out.              *)
(***************************************************************************)
EXTENDS Sequences

CONSTANTS
  Members,  \* the workers the job is sent to
  None,
  Urgent,   \* those that may answer with urgent = True
  GivesReason  \* whether the application gives a reason when it cancels

ASSUME JobAssumption ==
  /\ Members # {} /\ None \notin Members
  /\ Urgent \subseteq Members /\ GivesReason \in BOOLEAN

Tasks == {"router", "data", "application", "context"}

VARIABLES
  group,      \* "none", "open" while it is a key of _job_groups, then "gone"
  responses,  \* the keys of group.responses
  settled,    \* group._done and _error; "silent": failed without a reason
  errored,    \* history: on_job_error was called
  timeout,    \* the timeout task; "none" when the group has none
  cancelOnError,
  caller,     \* where the coroutine that opened the context is
  step,       \* where each task of the requester is
  member,     \* whose answer the router and the data task handle
  urgentQueue, plainQueue,  \* the requester's bus queue, by priority
  dataQueue,  \* what its router task has handed to its data task
  request,    \* a member's BusJobRequestMessage
  cancel,     \* a member's BusJobCancelMessage; "stopping" while its handler is awaited
  active,     \* the members with the job in _active_jobs
  answer      \* the status a member has answered with

state  == <<group, responses, settled, errored, timeout, cancelOnError, caller>>
queues == <<urgentQueue, plainQueue, dataQueue>>
peers  == <<request, cancel, active, answer>>
vars   == <<state, step, member, queues, peers>>

Statuses == {"completed", "failed", "cancelled"}

TypeOK ==
  /\ group \in {"none", "open", "gone"}
  /\ responses \subseteq Members
  /\ settled \in {"no", "completed", "failed", "silent"}
  /\ errored \in BOOLEAN /\ cancelOnError \in BOOLEAN
  /\ timeout \in {"none", "asleep", "cancelled", "ended"}
  /\ caller \in {"before", "body", "waiting", "returned", "raised"}
  /\ step \in [Tasks -> {"idle", "response", "error", "cancelling", "tracking", "completing"}]
  /\ member \in [Tasks -> Members \cup {None}]
  /\ \A t \in Tasks : step[t] \in {"response", "error", "tracking", "completing"}
                        => member[t] \in Members
  /\ urgentQueue \in Seq(Urgent) /\ plainQueue \in Seq(Members) /\ dataQueue \in Seq(Members)
  /\ request \in [Members -> {"none", "sent", "routed", "taken"}]
  /\ cancel \in [Members -> {"none", "sent", "stopping", "handled"}]
  /\ active \subseteq Members
  /\ answer \in [Members -> Statuses \cup {"none"}]
  /\ \A m \in active : request[m] = "taken" /\ answer[m] = "none"

Init ==
  /\ group = "none" /\ responses = {} /\ settled = "no" /\ errored = FALSE
  /\ timeout = "none" /\ cancelOnError \in BOOLEAN /\ caller = "before"
  /\ step = [t \in Tasks |-> "idle"] /\ member = [t \in Tasks |-> None]
  /\ urgentQueue = <<>> /\ plainQueue = <<>> /\ dataQueue = <<>>
  /\ request = [m \in Members |-> "none"] /\ cancel = [m \in Members |-> "none"]
  /\ active = {} /\ answer = [m \in Members |-> "none"]
-----------------------------------------------------------------------------
(***************************************************************************)
(* The caller                                                              *)
(***************************************************************************)
\* create_job_group_and_request_job, when all members are ready. A timeout is optional.
Enter ==
  /\ caller = "before" /\ caller' = "body"
  /\ group' = "open"
  /\ timeout' \in {"none", "asleep"}
  /\ request' = [m \in Members |-> "sent"]
  /\ UNCHANGED <<responses, settled, errored, cancelOnError, step, member, queues,
                 cancel, active, answer>>

\* They are not ready in time: no group is made.
NotReady ==
  /\ caller = "before" /\ caller' = "raised"
  /\ UNCHANGED <<group, responses, settled, errored, timeout, cancelOnError, step, member,
                 queues, peers>>

BodyEnds ==
  /\ caller = "body" /\ caller' = "waiting"
  /\ UNCHANGED <<group, responses, settled, errored, timeout, cancelOnError, step, member,
                 queues, peers>>

\* wait(): raises when the group has failed for a reason.
Leave ==
  /\ caller = "waiting" /\ settled # "no"
  /\ caller' = IF settled = "failed" THEN "raised" ELSE "returned"
  /\ UNCHANGED <<group, responses, settled, errored, timeout, cancelOnError, step, member,
                 queues, peers>>

\* The caller's task is cancelled while it waits: __aexit__ had no error to clean up for.
WaitCancelled ==
  /\ caller = "waiting" /\ settled = "no" /\ caller' = "raised"
  /\ UNCHANGED <<group, responses, settled, errored, timeout, cancelOnError, step, member,
                 queues, peers>>
-----------------------------------------------------------------------------
(***************************************************************************)
(* Cancelling a group                                                      *)
(***************************************************************************)
TellMembers == cancel' = [m \in Members |-> "sent"]

\* task.cancel() on the timeout task.
TimeoutCancelled == IF timeout = "asleep" THEN "cancelled" ELSE timeout

At(t, s) == step' = [step EXCEPT ![t] = s]
Done(t) == At(t, "idle") /\ member' = [member EXCEPT ![t] = None]

Reason(t) == IF t = "application" /\ ~GivesReason THEN "silent" ELSE "failed"

\* (mutant) cancel_job_group leaves the group where it is
CancelGroupKept(t) ==
  IF group # "open" \/ timeout = "none"
  THEN /\ Done(t)
       /\ IF group = "open"
          THEN group' = group /\ TellMembers /\ settled' = Reason(t)
          ELSE UNCHANGED <<group, cancel, settled>>
       /\ UNCHANGED timeout
  ELSE /\ group' = group /\ timeout' = TimeoutCancelled
       /\ At(t, "cancelling") /\ UNCHANGED <<member, cancel, settled>>

\* cancel_job_group up to the await of the timeout task, or to its end if there is none.
CancelGroup(t) ==
  IF group # "open" \/ timeout = "none"
  THEN /\ Done(t)
       /\ IF group = "open"
          THEN group' = "gone" /\ TellMembers /\ settled' = Reason(t)
          ELSE UNCHANGED <<group, cancel, settled>>
       /\ UNCHANGED timeout
  ELSE /\ group' = "gone" /\ timeout' = TimeoutCancelled
       /\ At(t, "cancelling") /\ UNCHANGED <<member, cancel, settled>>

\* ... and from there on.
GroupCancelled(t) ==
  /\ step[t] = "cancelling" /\ timeout = "ended"
  /\ TellMembers /\ settled' = Reason(t) /\ Done(t)
  /\ UNCHANGED <<group, responses, errored, timeout, cancelOnError, caller, queues,
                 request, active, answer>>

\* The application, or the requester's stop(), cancels the group.
ApplicationCancels ==
  /\ step["application"] = "idle" /\ group = "open"
  /\ CancelGroup("application")
  /\ UNCHANGED <<responses, errored, cancelOnError, caller, queues, request, active, answer>>

\* The body of the context raises, or is cancelled; the clean-up is shielded.
BodyRaises ==
  /\ caller = "body" /\ caller' = "raised"
  /\ CancelGroup("context")
  /\ UNCHANGED <<responses, errored, cancelOnError, queues, request, active, answer>>

\* (mutant) the timeout task cancels itself, as any other task of the group would
TimeoutCancelsItself ==
  /\ timeout = "asleep" /\ timeout' = "ended"
  /\ group' = IF group = "open" THEN "gone" ELSE group
  /\ UNCHANGED <<cancel, settled, responses, errored, cancelOnError, caller, step, member,
                 queues, request, active, answer>>

\* _task_timeout, whose cancel_job_group does not await itself.
TimeoutFires ==
  /\ timeout = "asleep" /\ timeout' = "ended"
  /\ IF group = "open"
     THEN group' = "gone" /\ TellMembers /\ settled' = "failed"
     ELSE UNCHANGED <<group, cancel, settled>>
  /\ UNCHANGED <<responses, errored, cancelOnError, caller, step, member, queues,
                 request, active, answer>>

TimeoutStops ==
  /\ timeout = "cancelled" /\ timeout' = "ended"
  /\ UNCHANGED <<group, responses, settled, errored, cancelOnError, caller, step, member,
                 queues, peers>>
-----------------------------------------------------------------------------
(***************************************************************************)
(* The requester's bus tasks                                               *)
(***************************************************************************)
\* The router task hands on what is not urgent, when nothing urgent waits.
Route ==
  /\ step["router"] = "idle" /\ urgentQueue = <<>> /\ plainQueue # <<>>
  /\ plainQueue' = Tail(plainQueue)
  /\ dataQueue' = Append(dataQueue, Head(plainQueue))
  /\ UNCHANGED <<state, step, member, urgentQueue, peers>>

\* _handle_job_response begins: on_job_response and its event handler are awaited.
TakeUrgent ==
  /\ step["router"] = "idle" /\ urgentQueue # <<>>
  /\ member' = [member EXCEPT !["router"] = Head(urgentQueue)] /\ At("router", "response")
  /\ urgentQueue' = Tail(urgentQueue)
  /\ UNCHANGED <<state, plainQueue, dataQueue, peers>>

TakeData ==
  /\ step["data"] = "idle" /\ dataQueue # <<>>
  /\ member' = [member EXCEPT !["data"] = Head(dataQueue)] /\ At("data", "response")
  /\ dataQueue' = Tail(dataQueue)
  /\ UNCHANGED <<state, urgentQueue, plainQueue, peers>>

Errs(m) == answer[m] = "failed" /\ group = "open" /\ cancelOnError

\* The answer is an error that cancels the group: on_job_error is awaited first.
TakeError(t) ==
  /\ step[t] = "response" /\ Errs(member[t])
  /\ responses' = responses \cup {member[t]}
  /\ errored' = TRUE /\ At(t, "error")
  /\ UNCHANGED <<group, settled, timeout, cancelOnError, caller, member, queues, peers>>

ErrorCancelsGroup(t) ==
  /\ step[t] = "error"
  /\ CancelGroup(t)
  /\ UNCHANGED <<responses, errored, cancelOnError, caller, queues, request, active, answer>>

\* (mutant) one answer is enough
TrackAny(t) ==
  /\ step[t] = "response" /\ ~Errs(member[t])
  /\ responses' = IF group = "open" THEN responses \cup {member[t]} ELSE responses
  /\ IF group # "open" THEN Done(t) /\ UNCHANGED <<group, timeout>>
     ELSE IF timeout = "none"
     THEN group' = "gone" /\ At(t, "completing") /\ UNCHANGED <<timeout, member>>
     ELSE timeout' = TimeoutCancelled /\ At(t, "tracking") /\ UNCHANGED <<group, member>>
  /\ UNCHANGED <<settled, errored, cancelOnError, caller, queues, peers>>

\* _track_job_group_response: the last answer closes the group, after its timeout.
Track(t) ==
  /\ step[t] = "response" /\ ~Errs(member[t])
  /\ responses' = IF group = "open" THEN responses \cup {member[t]} ELSE responses
  /\ IF group # "open" \/ responses' # Members THEN Done(t) /\ UNCHANGED <<group, timeout>>
     ELSE IF timeout = "none"
     THEN group' = "gone" /\ At(t, "completing") /\ UNCHANGED <<timeout, member>>
     ELSE timeout' = TimeoutCancelled /\ At(t, "tracking") /\ UNCHANGED <<group, member>>
  /\ UNCHANGED <<settled, errored, cancelOnError, caller, queues, peers>>

\* (mutant) a group that has gone meanwhile is completed like any other
TrackedUnchecked(t) ==
  /\ step[t] = "tracking" /\ timeout = "ended"
  /\ group' = "gone" /\ At(t, "completing") /\ UNCHANGED member
  /\ UNCHANGED <<responses, settled, errored, timeout, cancelOnError, caller, queues, peers>>

\* The timeout task has ended. If the group has gone meanwhile, its "del" raises.
Tracked(t) ==
  /\ step[t] = "tracking" /\ timeout = "ended"
  /\ IF group = "open" THEN group' = "gone" /\ At(t, "completing") /\ UNCHANGED member
     ELSE Done(t) /\ UNCHANGED group
  /\ UNCHANGED <<responses, settled, errored, timeout, cancelOnError, caller, queues, peers>>

\* on_job_completed has been awaited.
Complete(t) ==
  /\ step[t] = "completing"
  /\ settled' = "completed" /\ Done(t)
  /\ UNCHANGED <<group, responses, errored, timeout, cancelOnError, caller, queues, peers>>
-----------------------------------------------------------------------------
(***************************************************************************)
(* A member                                                                *)
(***************************************************************************)
\* The member's router task takes a cancel ahead of the request.
RouteRequest(m) ==
  /\ request[m] = "sent" /\ cancel[m] \notin {"sent", "stopping"}
  /\ request' = [request EXCEPT ![m] = "routed"]
  /\ UNCHANGED <<state, step, member, queues, cancel, active, answer>>

\* _handle_job_request: the handler gets a task of its own.
TakeRequest(m) ==
  /\ request[m] = "routed"
  /\ request' = [request EXCEPT ![m] = "taken"]
  /\ active' = active \cup {m}
  /\ UNCHANGED <<state, step, member, queues, cancel, answer>>

\* The message goes into the requester's queue.
Sent(m, status, urgent) ==
  /\ answer' = [answer EXCEPT ![m] = status]
  /\ IF urgent THEN urgentQueue' = Append(urgentQueue, m) /\ UNCHANGED plainQueue
     ELSE plainQueue' = Append(plainQueue, m) /\ UNCHANGED urgentQueue
  /\ UNCHANGED dataQueue

\* send_job_response, from the handler or, with status "cancelled", from stop(). Without an
\* active job it raises.
Answer(m, status, urgent) ==
  /\ m \in active /\ (urgent => m \in Urgent)
  /\ Sent(m, status, urgent) /\ active' = active \ {m}
  /\ UNCHANGED <<state, step, member, request, cancel>>

\* _handle_job_cancel: a job that has not begun, or has been answered, is nothing to cancel.
HandleCancel(m) ==
  /\ cancel[m] = "sent"
  /\ cancel' = [cancel EXCEPT ![m] = IF m \in active THEN "stopping" ELSE "handled"]
  /\ UNCHANGED <<state, step, member, queues, request, active, answer>>

\* (mutant) the answer to the cancel is sent whether or not the job was answered meanwhile
AnswerCancelAnyway(m) ==
  /\ cancel[m] = "stopping"
  /\ cancel' = [cancel EXCEPT ![m] = "handled"]
  /\ Sent(m, "cancelled", FALSE) /\ active' = active \ {m}
  /\ UNCHANGED <<state, step, member, request>>

\* The handler's task has ended and on_job_cancelled has run. A job answered in the meantime
\* makes send_job_response raise.
AnswerCancel(m) ==
  /\ cancel[m] = "stopping"
  /\ cancel' = [cancel EXCEPT ![m] = "handled"]
  /\ IF m \in active THEN Sent(m, "cancelled", FALSE) /\ active' = active \ {m}
     ELSE UNCHANGED <<queues, active, answer>>
  /\ UNCHANGED <<state, step, member, request>>
-----------------------------------------------------------------------------
TaskStep(t) ==
  \/ TakeError(t) \/ ErrorCancelsGroup(t) \/ GroupCancelled(t)
  \/ Track(t) \/ Tracked(t) \/ Complete(t)

BusStep == Route \/ TakeUrgent \/ TakeData
TimeoutStep == TimeoutFires \/ TimeoutStops
MemberStep(m) == RouteRequest(m) \/ TakeRequest(m) \/ HandleCancel(m) \/ AnswerCancel(m)

Next ==
  \/ Enter \/ NotReady \/ BodyEnds \/ Leave \/ WaitCancelled
  \/ ApplicationCancels \/ BodyRaises
  \/ TimeoutFires \/ TimeoutStops
  \/ Route \/ TakeUrgent \/ TakeData
  \/ \E t \in Tasks :
       \/ TakeError(t) \/ ErrorCancelsGroup(t) \/ GroupCancelled(t)
       \/ Track(t) \/ Tracked(t) \/ Complete(t)
  \/ \E m \in Members :
       \/ RouteRequest(m) \/ TakeRequest(m) \/ HandleCancel(m) \/ AnswerCancel(m)
       \/ \E status \in Statuses, urgent \in BOOLEAN : Answer(m, status, urgent)

\* The loop runs every task that can run, hooks return and the timeout comes. Nothing is
\* asked of the handlers: they may never answer.
Fairness ==
  /\ WF_vars(BusStep) /\ WF_vars(TimeoutStep) /\ WF_vars(Leave)
  /\ \A t \in Tasks : WF_vars(TaskStep(t))
  /\ \A m \in Members : WF_vars(MemberStep(m))

Spec == Init /\ [][Next]_vars /\ Fairness
-----------------------------------------------------------------------------
(***************************************************************************)
(* What a group promises                                                   *)
(***************************************************************************)
\* A group completes only with an answer of every member, and then no member was told to
\* cancel, whoever else was at work on the group.
CompletedMeansAll ==
  settled = "completed"
    => responses = Members /\ \A m \in Members : cancel[m] = "none" /\ answer[m] # "none"

\* A group is settled once: an end of the event stream, a completion, or a failure, and
\* never one after the other.
SettledOnce == [][settled # "no" => settled' = settled]_vars

\* A member answers once, though its handler, its stop() and the cancel may all try.
AnsweredOnce == [][\A m \in Members : answer[m] # "none" => answer'[m] = answer[m]]_vars

\* A caller that waits for a group with a timeout does not wait for ever.
WaitEnds == caller = "waiting" /\ timeout # "none" ~> caller # "waiting"

\* on_job_error: "The group is cancelled and on_job_completed will not fire."
ErrorCancels == errored => settled # "completed"
=============================================================================
