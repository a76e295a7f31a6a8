---------------------------- MODULE WorkerRunner ----------------------------
(***************************************************************************)
(* WorkerRunner (src/src/pipecat/workers/runner.py) with the bus and the   *)
(* lifecycle of the workers it runs (bus/bus.py, workers/base_worker.py).  *)
(*                                                                         *)
(* The runner starts its workers, waits for shutdown, cancels the workers  *)
(* that are left and waits for them. A worker may have children: it has    *)
(* them added to the runner over the bus and passes end and cancel on.     *)
(* Every subscriber of the bus has a router task, which handles system     *)
(* messages (cancel, add) ahead of the others and hands the others (end)   *)
(* to its data task; the two run concurrently.                             *)
(*                                                                         *)
(* A worker gets each message from one sender, so a message is the state   *)
(* of its delivery. run() is called once, over a local bus, whose send     *)
(* does not suspend. What a worker does between starting and ending is its *)
(* own; told to end or to cancel, it finishes (PipelineWorker looks into   *)
(* that).                                                                  *)
(***************************************************************************)
CONSTANTS
  Workers, None,
  Parent,   \* who adds a worker: another worker, or None for the application
  AutoEnd,  \* run()'s auto_end
  AddedIn,  \* the phases in which workers are added
  Quits,    \* the workers that may finish without being told
  Fails,    \* the workers whose run() may raise
  LateChildren  \* whether a worker that has passed an end or a cancel on adds children

Phases == {"idle", "setup", "starting", "ready", "cancelling", "returned", "failed"}

ASSUME RunnerAssumption ==
  /\ None \notin Workers
  /\ Parent \in [Workers -> Workers \cup {None}]
  /\ AutoEnd \in BOOLEAN
  /\ AddedIn \subseteq {"idle", "setup", "starting", "ready", "cancelling"}
  /\ Quits \subseteq Workers /\ Fails \subseteq Workers
  /\ LateChildren \in BOOLEAN

VARIABLES
  phase,     \* how far run() is; "failed" when it raised
  entries,   \* the keys of _entries
  iterated,  \* the keys it had when _setup_session began to start them
  task,      \* an entry's runner_task: "none" (or no entry), "running" or "done"
  subscribed,  \* the workers subscribed to the bus
  attaching,   \* workers that add_workers attaches right now
  children,    \* the workers their parent has taken as children
  addMessages, \* children whose BusAddWorkerMessage the runner has not handled
  endMessage,  \* how far a worker's BusEndWorkerMessage is
  cancelMessage, \* the same for its BusCancelWorkerMessage
  waitsFor,    \* the children a worker waits for before it ends
  finished,    \* _finished_event
  shutdown,    \* _shutdown_event
  awaited      \* the workers whose tasks run() waits for

runner   == <<phase, iterated, shutdown, awaited>>
adding   == <<entries, subscribed, attaching, children, addMessages>>
messages == <<endMessage, cancelMessage, waitsFor>>
workers  == <<task, finished>>
vars     == <<runner, adding, messages, workers>>

TypeOK ==
  /\ phase \in Phases
  /\ entries \subseteq Workers /\ iterated \subseteq Workers
  /\ task \in [Workers -> {"none", "running", "done"}]
  /\ subscribed \subseteq Workers /\ attaching \subseteq Workers \ entries
  /\ children \subseteq Workers /\ addMessages \subseteq children
  /\ endMessage \in [Workers -> {"none", "sent", "routed", "waiting", "handled"}]
  /\ cancelMessage \in [Workers -> {"none", "sent", "handled"}]
  /\ waitsFor \in [Workers -> SUBSET children]
  /\ finished \in [Workers -> BOOLEAN]
  /\ shutdown \in BOOLEAN
  /\ awaited \subseteq entries

Init ==
  /\ phase = "idle" /\ entries = {} /\ iterated = {} /\ shutdown = FALSE /\ awaited = {}
  /\ subscribed = {} /\ attaching = {} /\ children = {} /\ addMessages = {}
  /\ endMessage = [w \in Workers |-> "none"]
  /\ cancelMessage = [w \in Workers |-> "none"]
  /\ waitsFor = [w \in Workers |-> {}]
  /\ task = [w \in Workers |-> "none"]
  /\ finished = [w \in Workers |-> FALSE]

Roots == {w \in Workers : Parent[w] = None}
Children(w) == {c \in children : Parent[c] = w}

\* A worker has told its children to end or to cancel.
PassedOn(w) == endMessage[w] \in {"waiting", "handled"} \/ cancelMessage[w] = "handled"

\* The bus dispatches from start() to stop(), which a run() that raised does not reach.
BusRuns == phase \notin {"idle", "returned"}

\* _running
Running == phase \in {"ready", "cancelling"}

\* send() puts a message into the queues of the workers that are subscribed.
Sent(message, ws) ==
  [w \in Workers |-> IF w \in ws \cap subscribed /\ message[w] = "none"
                     THEN "sent" ELSE message[w]]
-----------------------------------------------------------------------------
(***************************************************************************)
(* Adding workers                                                          *)
(***************************************************************************)
\* The end of add_workers: the worker has an entry, and a task if the runner runs.
Added(w) ==
  /\ subscribed' = subscribed \cup {w} /\ entries' = entries \cup {w}
  /\ task' = IF Running THEN [task EXCEPT ![w] = "running"] ELSE task

\* add_workers: subscribing to a bus that runs suspends it.
AddWorker(w) ==
  /\ w \notin entries \cup attaching
  /\ IF BusRuns
     THEN attaching' = attaching \cup {w} /\ UNCHANGED <<entries, subscribed, task>>
     ELSE Added(w) /\ UNCHANGED attaching

\* The application adds a worker.
AddRoot(w) ==
  /\ w \in Roots /\ phase \in AddedIn
  /\ AddWorker(w)
  /\ UNCHANGED <<runner, children, addMessages, messages, finished>>

\* A worker adds a child; the message is lost on a runner that is not subscribed yet.
AddChild(c) ==
  /\ c \notin Roots \cup children /\ phase \in AddedIn
  /\ phase = "idle" \/ (task[Parent[c]] = "running" /\ ~finished[Parent[c]])
  /\ LateChildren \/ ~PassedOn(Parent[c])
  /\ children' = children \cup {c}
  /\ addMessages' = IF BusRuns THEN addMessages \cup {c} ELSE addMessages
  /\ UNCHANGED <<runner, entries, subscribed, attaching, messages, workers>>

\* on_bus_message: the runner's router task adds one child after the other.
HandleAdd(c) ==
  /\ BusRuns /\ c \in addMessages /\ attaching \subseteq Roots
  /\ addMessages' = addMessages \ {c}
  /\ AddWorker(c)
  /\ UNCHANGED <<runner, children, messages, finished>>

Attached(w) ==
  /\ w \in attaching
  /\ attaching' = attaching \ {w}
  /\ Added(w)
  /\ UNCHANGED <<runner, children, addMessages, messages, finished>>
-----------------------------------------------------------------------------
(***************************************************************************)
(* run()                                                                   *)
(***************************************************************************)
\* The event is cleared: an end() or cancel() before run() is forgotten, though end()'s
\* messages are not. Then the bus starts.
Run ==
  /\ phase = "idle" /\ phase' = "setup" /\ shutdown' = FALSE
  /\ UNCHANGED <<iterated, awaited, adding, messages, workers>>

\* _setup_session, after the setup files: start every entry.
StartWorkers ==
  /\ phase = "setup" /\ phase' = "starting" /\ iterated' = entries
  /\ UNCHANGED <<shutdown, awaited, adding, messages, workers>>

StartWorker(w) ==
  /\ phase = "starting" /\ entries = iterated
  /\ w \in entries /\ task[w] = "none"
  /\ task' = [task EXCEPT ![w] = "running"]
  /\ UNCHANGED <<runner, adding, messages, finished>>

\* The dictionary has grown since: Python raises, and run() with it.
StartFails ==
  /\ phase = "starting" /\ entries # iterated
  /\ phase' = "failed"
  /\ UNCHANGED <<iterated, shutdown, awaited, adding, messages, workers>>

Ready ==
  /\ phase = "starting" /\ entries = iterated
  /\ \A w \in entries : task[w] # "none"
  /\ phase' = "ready"
  /\ UNCHANGED <<iterated, shutdown, awaited, adding, messages, workers>>

\* _finish_running_workers: whoever has not finished, also one that has not started.
Unfinished == {w \in entries : task[w] # "done"}

\* (mutant) only the workers that were told are waited for
AwaitedRoots == Unfinished \cap Roots

\* The tasks that _cancel_spawned_workers waits for.
Awaited == {w \in Unfinished : task[w] # "none"}

\* run() is woken, by the event or because its own task is cancelled: the roots that
\* have not finished are told, and everyone is waited for.
CancelSpawnedWorkers ==
  /\ phase = "ready"
  /\ phase' = "cancelling"
  /\ cancelMessage' = Sent(cancelMessage, Unfinished \cap Roots)
  /\ awaited' = Awaited
  /\ UNCHANGED <<iterated, shutdown, adding, endMessage, waitsFor, workers>>

ShutDown == shutdown /\ CancelSpawnedWorkers
RunCancelled == CancelSpawnedWorkers

Return ==
  /\ phase = "cancelling" /\ \A w \in awaited : task[w] = "done"
  /\ phase' = "returned"
  /\ UNCHANGED <<iterated, shutdown, awaited, adding, messages, workers>>
-----------------------------------------------------------------------------
(***************************************************************************)
(* end() and cancel(), called or asked for over the bus                    *)
(***************************************************************************)
End ==
  /\ ~shutdown /\ phase \notin {"returned", "failed"}
  /\ shutdown' = TRUE
  /\ endMessage' = Sent(endMessage, Unfinished \cap Roots)
  /\ UNCHANGED <<phase, iterated, awaited, adding, cancelMessage, waitsFor, workers>>

Cancel ==
  /\ ~shutdown /\ phase \notin {"returned", "failed"}
  /\ shutdown' = TRUE
  /\ UNCHANGED <<phase, iterated, awaited, adding, messages, workers>>
-----------------------------------------------------------------------------
(***************************************************************************)
(* A worker and its messages                                               *)
(***************************************************************************)
\* _handle_worker_cancel, in the router task: the children, then the worker itself.
HandleCancel(w) ==
  /\ BusRuns /\ cancelMessage[w] = "sent"
  /\ cancelMessage' = [Sent(cancelMessage, Children(w)) EXCEPT ![w] = "handled"]
  /\ UNCHANGED <<runner, adding, endMessage, waitsFor, workers>>

\* The router task takes system messages first, and leaves the others to the data task.
RouteEnd(w) ==
  /\ BusRuns /\ endMessage[w] = "sent" /\ cancelMessage[w] # "sent"
  /\ endMessage' = [endMessage EXCEPT ![w] = "routed"]
  /\ UNCHANGED <<runner, adding, cancelMessage, waitsFor, workers>>

\* _handle_worker_end: the children are told ...
HandleEnd(w) ==
  /\ BusRuns /\ endMessage[w] = "routed"
  /\ endMessage' = [Sent(endMessage, Children(w)) EXCEPT ![w] = "waiting"]
  /\ waitsFor' = [waitsFor EXCEPT ![w] = Children(w)]
  /\ UNCHANGED <<runner, adding, cancelMessage, workers>>

\* (mutant) ... and not waited for
EndWithoutWaiting(w) ==
  /\ BusRuns /\ endMessage[w] = "waiting"
  /\ endMessage' = [endMessage EXCEPT ![w] = "handled"]
  /\ UNCHANGED <<runner, adding, cancelMessage, waitsFor, workers>>

\* ... and waited for, before the worker itself ends.
EndSelf(w) ==
  /\ BusRuns /\ endMessage[w] = "waiting"
  /\ \A c \in waitsFor[w] : finished[c]
  /\ endMessage' = [endMessage EXCEPT ![w] = "handled"]
  /\ UNCHANGED <<runner, adding, cancelMessage, waitsFor, workers>>

Told(w) == endMessage[w] = "handled" \/ cancelMessage[w] = "handled"

\* The worker's finished event: it was told, or comes to its end by itself.
Finish(w) ==
  /\ ~finished[w]
  /\ Told(w) \/ (w \in Quits /\ task[w] = "running")
  /\ finished' = [finished EXCEPT ![w] = TRUE]
  /\ UNCHANGED <<runner, adding, messages, task>>

\* (mutant) the worker whose task ends counts as running
NobodyRuns(w) == \A v \in entries \cap Roots : task[v] # "running"

NobodyElseRuns(w) == \A v \in (entries \cap Roots) \ {w} : task[v] # "running"

\* _run_worker: the last root to leave ends the session.
TaskEnds(w) ==
  /\ task[w] = "running"
  /\ finished[w] \/ w \in Fails
  /\ task' = [task EXCEPT ![w] = "done"]
  /\ shutdown' = (shutdown \/ (AutoEnd /\ w \in Roots /\ NobodyElseRuns(w)))
  /\ UNCHANGED <<phase, iterated, awaited, adding, messages, finished>>
-----------------------------------------------------------------------------
RunStep == Run \/ StartWorkers \/ Ready \/ ShutDown \/ Return \/ \E w \in Workers : StartWorker(w)

\* What the event loop does for a worker, once it can.
WorkerStep(w) ==
  \/ HandleAdd(w) \/ Attached(w)
  \/ HandleCancel(w) \/ RouteEnd(w) \/ HandleEnd(w) \/ EndSelf(w)
  \/ (Told(w) /\ Finish(w)) \/ (finished[w] /\ TaskEnds(w))

Next ==
  \/ RunStep \/ StartFails \/ RunCancelled
  \/ End \/ Cancel
  \/ \E w \in Workers :
       \/ AddRoot(w) \/ AddChild(w) \/ HandleAdd(w) \/ Attached(w)
       \/ HandleCancel(w) \/ RouteEnd(w) \/ HandleEnd(w) \/ EndSelf(w)
       \/ Finish(w) \/ TaskEnds(w)

\* The loop runs every task that can run, and a worker that was told to finish does.
Fairness == WF_vars(RunStep) /\ \A w \in Workers : WF_vars(WorkerStep(w))

Spec == Init /\ [][Next]_vars /\ Fairness
-----------------------------------------------------------------------------
(***************************************************************************)
(* What the runner promises                                                *)
(***************************************************************************)
\* run() waits, from the moment it wakes, for every worker that is there, the children
\* too, and returns when they have all finished.
Stage == IF phase = "cancelling" THEN "closing"
         ELSE IF phase = "returned" THEN "over" ELSE "open"
Live == {w \in Workers : task[w] = "running"}

Session == INSTANCE RunnerSession WITH stage <- Stage, live <- Live, waited <- awaited

ImplementsSession == Session!Spec

\* A worker that was told to end, and not to cancel, finishes after the children it has
\* told: their last frames still find it there.
ChildrenFirst ==
  \A w \in Workers \ Quits : finished[w] /\ cancelMessage[w] # "handled"
    => \A c \in Children(w) \cap waitsFor[w] : finished[c]

\* With auto_end, the runner ends once every root worker has finished.
EndsByItself ==
  phase = "ready" /\ AutoEnd /\ entries # {} /\ (\A w \in entries \cap Roots : task[w] = "done")
    ~> phase = "returned"

\* "Whichever are still running when the runner ends are cancelled": they come to an end.
RemainingAreCancelled ==
  \A w \in Workers : phase = "cancelling" /\ w \in awaited ~> task[w] = "done"
=============================================================================
