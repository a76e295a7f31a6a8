------------------------- MODULE WorkerRunnerProofs -------------------------
(***************************************************************************)
(* Proofs about WorkerRunner, for any workers, family, and choice of what  *)
(* may happen when. Inv is inductive: Entered is what the refinement of    *)
(* RunnerSession rests on, EndsInOrder what ChildrenFirst rests on.        *)
(***************************************************************************)
EXTENDS WorkerRunner, TLAPS

\* Only an entry has a task, and once run() has set the session up every entry has one.
Entered ==
  /\ \A w \in Workers : task[w] # "none" => w \in entries
  /\ Running => \A w \in entries : task[w] # "none"

\* An end is complete when the children are; nobody else finishes without being told.
EndsInOrder ==
  \A w \in Workers :
    /\ endMessage[w] = "handled" => \A c \in waitsFor[w] : finished[c]
    /\ finished[w] /\ w \notin Quits => Told(w)

Inv == TypeOK /\ Entered /\ EndsInOrder
-----------------------------------------------------------------------------
\* The invariant holds at the start.
LEMMA InitInv == Init => Inv
BY DEF Init, Inv, TypeOK, Phases, Entered, Running, EndsInOrder

\* A message that is sent has the state "sent" afterwards, or one it had before.
LEMMA SentMessage ==
  ASSUME NEW message, NEW ws, NEW w \in Workers
  PROVE  /\ Sent(message, ws)[w] = message[w] \/ Sent(message, ws)[w] = "sent"
         /\ message[w] # "none" => Sent(message, ws)[w] = message[w]
BY DEF Sent

\* Sending keeps the type of a message.
LEMMA SentType ==
  ASSUME NEW S, NEW message \in [Workers -> S], "sent" \in S, NEW ws
  PROVE  Sent(message, ws) \in [Workers -> S]
BY DEF Sent

\* The steps that only add workers, start them or move run() on.
LEMMA RunnerSteps ==
  ASSUME Inv,
         \/ Run \/ StartWorkers \/ StartFails \/ Ready \/ Return \/ Cancel
         \/ \E w \in Workers : \/ StartWorker(w) \/ AddRoot(w) \/ AddChild(w)
                               \/ HandleAdd(w) \/ Attached(w)
  PROVE  Inv'
<1> USE DEF Inv, TypeOK, Phases, Entered, Running, EndsInOrder, Told, runner, adding, messages,
            workers
<1>1. CASE Run \/ StartWorkers \/ StartFails \/ Ready \/ Return \/ Cancel
  BY <1>1 DEF Run, StartWorkers, StartFails, Ready, Return, Cancel
<1>2. ASSUME NEW w \in Workers, StartWorker(w) PROVE Inv'
  BY <1>2 DEF StartWorker
<1>3. ASSUME NEW w \in Workers, AddRoot(w) PROVE Inv'
  BY <1>3 DEF AddRoot, AddWorker, Added
<1>4. ASSUME NEW w \in Workers, AddChild(w) PROVE Inv'
  BY <1>4 DEF AddChild
<1>5. ASSUME NEW w \in Workers, HandleAdd(w) PROVE Inv'
  BY <1>5 DEF HandleAdd, AddWorker, Added
<1>6. ASSUME NEW w \in Workers, Attached(w) PROVE Inv'
  BY <1>6 DEF Attached, Added
<1> QED
  BY <1>1, <1>2, <1>3, <1>4, <1>5, <1>6

\* The steps that send and handle messages.
LEMMA MessageSteps ==
  ASSUME Inv,
         \/ CancelSpawnedWorkers \/ End
         \/ \E w \in Workers : HandleCancel(w) \/ RouteEnd(w) \/ HandleEnd(w) \/ EndSelf(w)
  PROVE  Inv'
<1> USE DEF Inv, TypeOK, Phases, Entered, Running, EndsInOrder, Told, runner, adding, messages,
            workers
<1>1. CASE CancelSpawnedWorkers
  BY <1>1, SentMessage, SentType DEF CancelSpawnedWorkers, Awaited, Unfinished
<1>2. CASE End
  BY <1>2, SentMessage, SentType DEF End
<1>3. ASSUME NEW w \in Workers, HandleCancel(w) PROVE Inv'
  <2> DEFINE sent == Sent(cancelMessage, Children(w))
  <2>1. sent \in [Workers -> {"none", "sent", "handled"}]
    BY SentType
  <2>2. cancelMessage' = [sent EXCEPT ![w] = "handled"]
    BY <1>3 DEF HandleCancel
  <2>3. \A v \in Workers : cancelMessage[v] = "handled" => sent[v] = "handled"
    BY SentMessage
  <2> HIDE DEF sent
  <2>4. /\ cancelMessage' \in [Workers -> {"none", "sent", "handled"}]
        /\ \A v \in Workers : cancelMessage[v] = "handled" => cancelMessage'[v] = "handled"
    BY <2>1, <2>2, <2>3
  <2> QED
    BY <1>3, <2>4 DEF HandleCancel
<1>4. ASSUME NEW w \in Workers, RouteEnd(w) PROVE Inv'
  BY <1>4 DEF RouteEnd
<1>5. ASSUME NEW w \in Workers, HandleEnd(w) PROVE Inv'
  <2> DEFINE sent == Sent(endMessage, Children(w))
  <2>1. sent \in [Workers -> {"none", "sent", "routed", "waiting", "handled"}]
    BY SentType
  <2>2. endMessage' = [sent EXCEPT ![w] = "waiting"] /\ endMessage[w] = "routed"
    BY <1>5 DEF HandleEnd
  <2>3. \A v \in Workers : sent[v] = "handled" <=> endMessage[v] = "handled"
    BY SentMessage
  <2> HIDE DEF sent
  <2>4. /\ endMessage' \in [Workers -> {"none", "sent", "routed", "waiting", "handled"}]
        /\ \A v \in Workers : endMessage'[v] = "handled" <=> endMessage[v] = "handled"
    BY <2>1, <2>2, <2>3
  <2>5. Children(w) \subseteq children
    BY DEF Children
  <2> QED
    BY <1>5, <2>2, <2>4, <2>5 DEF HandleEnd
<1>6. ASSUME NEW w \in Workers, EndSelf(w) PROVE Inv'
  BY <1>6 DEF EndSelf
<1> QED
  BY <1>1, <1>2, <1>3, <1>4, <1>5, <1>6

\* The steps with which a worker's messages are handled and its task ends.
LEMMA FinishSteps ==
  ASSUME Inv, \E w \in Workers : Finish(w) \/ TaskEnds(w)
  PROVE  Inv'
<1> USE DEF Inv, TypeOK, Phases, Entered, Running, EndsInOrder, Told, runner, adding, messages,
            workers
<1>1. ASSUME NEW w \in Workers, Finish(w) PROVE Inv'
  BY <1>1 DEF Finish
<1>2. ASSUME NEW w \in Workers, TaskEnds(w) PROVE Inv'
  <2>1. (shutdown \/ (AutoEnd /\ w \in Roots /\ NobodyElseRuns(w))) \in BOOLEAN
    OBVIOUS
  <2> QED
    BY <1>2, <2>1 DEF TaskEnds
<1> QED
  BY <1>1, <1>2

\* What Inv says holds in every state of the runner.
THEOREM Invariance == Spec => []Inv
<1>1. Inv /\ [Next]_vars => Inv'
  <2> SUFFICES ASSUME Inv, [Next]_vars PROVE Inv'
    OBVIOUS
  <2>1. CASE UNCHANGED vars
    BY <2>1 DEF vars, runner, adding, messages, workers, Inv, TypeOK, Entered, Running,
       EndsInOrder, Told
  <2>2. CASE Next
    BY <2>2, RunnerSteps, MessageSteps, FinishSteps DEF Next, RunStep, ShutDown, RunCancelled
  <2> QED
    BY <2>1, <2>2
<1> QED
  BY <1>1, InitInv, PTL DEF Spec

\* The variables of the runner keep their types.
THEOREM TypeCorrect == Spec => []TypeOK
<1>1. Inv => TypeOK
  BY DEF Inv
<1> QED
  BY <1>1, Invariance, PTL

\* A worker told to end finishes after the children it has told.
THEOREM ChildrenEndFirst == Spec => []ChildrenFirst
<1>1. Inv => ChildrenFirst
  BY DEF Inv, EndsInOrder, Told, ChildrenFirst
<1> QED
  BY <1>1, Invariance, PTL
-----------------------------------------------------------------------------
\* Each step of the runner is one of the session or leaves the session alone.
LEMMA SessionStep == Inv /\ [Next]_vars => [Session!Next]_(Session!vars)
<1> USE DEF Inv, TypeOK, Phases, Entered, Running, Session!vars, Stage, Live, runner, adding,
            messages, workers
<1> SUFFICES ASSUME Inv, [Next]_vars PROVE [Session!Next]_(Session!vars)
  OBVIOUS
<1>1. ASSUME UNCHANGED <<phase, awaited, task>> PROVE UNCHANGED Session!vars
  BY <1>1
<1>2. ASSUME NEW w \in Workers, task[w] = "none", task' = [task EXCEPT ![w] = "running"],
             UNCHANGED <<phase, awaited>>
      PROVE  Session!Join(w)
  BY <1>2 DEF Session!Join
<1>3. CASE CancelSpawnedWorkers
  BY <1>3 DEF CancelSpawnedWorkers, Awaited, Unfinished, Session!Next, Session!Close
<1>4. CASE Return
  BY <1>4 DEF Return, Session!Next, Session!Over
<1>5. ASSUME NEW w \in Workers, TaskEnds(w) PROVE Session!Next
  <2>1. Session!Leave(w)
    BY <1>5 DEF TaskEnds, Session!Leave
  <2> QED
    BY <2>1 DEF Session!Next
<1>6. CASE Run \/ StartWorkers \/ StartFails \/ Ready
  BY <1>6 DEF Run, StartWorkers, StartFails, Ready
<1>7. ASSUME NEW w \in Workers, Added(w), w \notin entries, UNCHANGED <<phase, awaited>>
      PROVE  [Session!Next]_(Session!vars)
  BY <1>7, <1>1, <1>2 DEF Added, Session!Next
<1>8. ASSUME NEW w \in Workers, StartWorker(w) PROVE Session!Next
  BY <1>8, <1>2 DEF StartWorker, Session!Next
<1>9. ASSUME NEW w \in Workers, AddRoot(w) \/ HandleAdd(w) \/ Attached(w)
      PROVE  [Session!Next]_(Session!vars)
  BY <1>9, <1>7, <1>1 DEF AddRoot, HandleAdd, Attached, AddWorker
<1>10. CASE End \/ Cancel
  BY <1>10, <1>1 DEF End, Cancel
<1>11. ASSUME NEW w \in Workers,
              \/ AddChild(w) \/ HandleCancel(w) \/ RouteEnd(w) \/ HandleEnd(w) \/ EndSelf(w)
              \/ Finish(w)
       PROVE  UNCHANGED Session!vars
  BY <1>11, <1>1 DEF AddChild, HandleCancel, RouteEnd, HandleEnd, EndSelf, Finish
<1>12. CASE UNCHANGED vars
  BY <1>12, <1>1 DEF vars
<1> QED
  BY <1>3, <1>4, <1>5, <1>6, <1>8, <1>9, <1>10, <1>11, <1>12
     DEF Next, RunStep, ShutDown, RunCancelled

\* run() waits for every worker that is there when it wakes, and for nobody else.
THEOREM RunnerImplementsSession == Spec => Session!Init /\ [][Session!Next]_(Session!vars)
<1>1. Init => Session!Init
  BY DEF Init, Session!Init, Stage, Live
<1> QED
  BY <1>1, Invariance, SessionStep, PTL DEF Spec
=============================================================================
