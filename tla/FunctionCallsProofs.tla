------------------------- MODULE FunctionCallsProofs -------------------------
(***************************************************************************)
(* For any calls, batches, deadlines and settings: a function call is      *)
(* announced with one result at most, and with none after a cancellation;  *)
(* no result is lost between the service and the aggregator; what the      *)
(* context says of a call is settled once; no call is left without an      *)
(* outcome by those who settle it; and an inference that is put off is     *)
(* left to something that is still to come.                                *)
(*                                                                         *)
(* The first rests on who settles a call. The others follow the lane: it   *)
(* says once that a call is in progress, before its result, and the        *)
(* aggregator tracks the call until the context has its outcome.           *)
(***************************************************************************)
EXTENDS FunctionCalls, FiniteSetTheorems, TLAPS

Kinds == {"result", "cancel"}

Types ==
  /\ task \in [Calls -> {"no", "queued", "created", "running", "closing",
                         "reported", "cancelled", "over"}]
  /\ timer \in [Calls -> {"off", "armed", "expired"}]
  /\ settled \subseteq Calls
  /\ announced \in [Calls -> Seq(Kinds)]

\* A call that is not settled has been told of to nobody; one whose callback
\* awaits its timer neither, and its timer is past firing; one that somebody
\* cancels or that the deadline has met is settled, and its callback is not
\* about to report.
Unsettled == \A c \in Calls : c \notin settled => announced[c] = <<>>
ClosingIsFirst ==
  \A c \in Calls : task[c] = "closing" =>
    c \in settled /\ timer[c] = "off" /\ announced[c] = <<>>
CancelSettles ==
  \A c \in Calls, by \in {"sweep", "timeout"} :
    <<c, by>> \in cancelling => c \in settled /\ task[c] # "closing"
ExpirySettles == \A c \in Calls : timer[c] = "expired" => c \in settled

Settling == Types /\ Unsettled /\ ClosingIsFirst /\ CancelSettles /\ ExpirySettles

IInv == Settling /\ OneOutcome

\* What the service has not changed keeps the invariant.
LEMMA Unchanged ==
  ASSUME IInv, UNCHANGED <<task, timer, settled, announced, cancelling>>
  PROVE  IInv'
BY DEF IInv, Settling, Types, Unsettled, ClosingIsFirst, CancelSettles, ExpirySettles,
   OneOutcome

\* Initially no call is known.
LEMMA InitInv == Init => IInv
BY DEF Init, IInv, Settling, Types, Unsettled, ClosingIsFirst, CancelSettles, ExpirySettles,
       OneOutcome, Kinds

\* An announcement is added to those of its call.
LEMMA Announced ==
  ASSUME Types, NEW c \in Calls, NEW kind \in Kinds, NEW run, Announce(c, kind, run)
  PROVE  /\ announced' \in [Calls -> Seq(Kinds)]
         /\ announced'[c] = Append(announced[c], kind)
         /\ \A d \in Calls \ {c} : announced'[d] = announced[d]
<1>1. Append(announced[c], kind) \in Seq(Kinds)
  BY DEF Types
<1> QED
  BY <1>1 DEF Types, Announce

\* Cancelling the task of a call settles the call and ends its callback.
LEMMA Cancelling ==
  ASSUME Settling, NEW c \in Calls, NEW by \in {"sweep", "timeout"}, CancelTask(c, by),
         announced' = announced, timer' \in {timer, [timer EXCEPT ![c] = "off"]}
  PROVE  Settling'
<1> USE DEF Settling, CancelTask
<1>1. Types'
  BY DEF Types
<1>2. \A d \in Calls : /\ d # c => task'[d] = task[d] /\ timer'[d] = timer[d]
                       /\ task'[d] = task[d] \/ task'[d] = "cancelled"
                       /\ timer'[d] = timer[d] \/ timer'[d] = "off"
                       /\ settled' = settled \cup {c}
                       /\ task'[c] # "closing"
  BY DEF Types
<1>3. Unsettled' /\ ClosingIsFirst' /\ CancelSettles' /\ ExpirySettles'
  BY <1>2 DEF Unsettled, ClosingIsFirst, CancelSettles, ExpirySettles
<1> QED
  BY <1>1, <1>3

\* Every step keeps what the argument rests on: whoever settles a call is the
\* one to announce its outcome.
LEMMA SettlingStep ==
  ASSUME Settling, [Next]_vars
  PROVE  Settling'
<1>1. ASSUME NEW b \in Batches, StartBatch(b) PROVE Settling'
  BY <1>1 DEF StartBatch, Settling, Types, Unsettled, ClosingIsFirst, CancelSettles,
     ExpirySettles, Kinds
<1>2. ASSUME RunNext PROVE Settling'
  BY <1>2 DEF RunNext, Settling, Types, Unsettled, ClosingIsFirst, CancelSettles, ExpirySettles,
     Kinds
<1>3. ASSUME NEW c \in Calls, Begin(c) PROVE Settling'
  BY <1>3 DEF Begin, Broadcast, Settling, Types, Unsettled, ClosingIsFirst, CancelSettles,
     ExpirySettles, Kinds
<1>4. ASSUME NEW c \in Calls, Closed(c) PROVE Settling'
  BY <1>4 DEF Closed, Announce, Settling, Types, Unsettled, ClosingIsFirst, CancelSettles,
     ExpirySettles, Kinds
<1>5. ASSUME NEW c \in Calls, Return(c) PROVE Settling'
  BY <1>5 DEF Return, Settling, Types, Unsettled, ClosingIsFirst, CancelSettles, ExpirySettles,
     Kinds
<1>6. ASSUME NEW c \in Calls, Unwind(c) PROVE Settling'
  BY <1>6 DEF Unwind, Settling, Types, Unsettled, ClosingIsFirst, CancelSettles, ExpirySettles,
     Kinds
<1>7. ASSUME NEW c \in Calls, Untrack(c) PROVE Settling'
  BY <1>7 DEF Untrack, vars, service, user, Settling, Types, Unsettled, ClosingIsFirst,
     CancelSettles, ExpirySettles
<1>8. ASSUME NEW c \in Calls, Expire(c) PROVE Settling'
  BY <1>8 DEF Expire, AtDeadline, Settling, Types, Unsettled, ClosingIsFirst, CancelSettles,
     ExpirySettles, Kinds
<1>9. ASSUME NEW c \in Calls, TimeOut(c) PROVE Settling'
  <2>1. CASE c \in tracked
    BY <1>9, <2>1, Cancelling DEF TimeOut, Settling
  <2>2. CASE c \notin tracked
    <3>1. Announce(c, "cancel", TRUE) /\ Types
      BY <1>9, <2>2 DEF TimeOut, TellTimeOut, Settling
    <3>2. /\ announced' \in [Calls -> Seq(Kinds)]
          /\ \A d \in Calls \ {c} : announced'[d] = announced[d]
      BY <3>1, Announced DEF Kinds
    <3>3. timer[c] = "expired" /\ timer' = [timer EXCEPT ![c] = "off"]
      BY <1>9 DEF TimeOut
    <3>4. UNCHANGED <<settled, task, cancelling>>
      BY <1>9, <2>2 DEF TimeOut
    <3> QED
      BY <3>2, <3>3, <3>4 DEF Settling, Types, Unsettled, ClosingIsFirst, CancelSettles,
         ExpirySettles
  <2> QED
    BY <2>1, <2>2
<1>10. ASSUME NEW c \in Calls, Visit(c) PROVE Settling'
  <2>1. CASE c \in tracked
    BY <1>10, <2>1, Cancelling DEF Visit
  <2>2. CASE c \notin tracked
    BY <1>10, <2>2 DEF Visit, Settling, Types, Unsettled, ClosingIsFirst, CancelSettles,
       ExpirySettles
  <2> QED
    BY <2>1, <2>2
<1>11. ASSUME NEW c \in Calls, NEW by \in {"sweep", "timeout"}, Cancelled(c, by) PROVE Settling'
  <2>1. Announce(c, "cancel", by = "timeout") /\ Types
    BY <1>11 DEF Cancelled, Settling
  <2>2. /\ announced' \in [Calls -> Seq(Kinds)]
        /\ \A d \in Calls \ {c} : announced'[d] = announced[d]
    BY <2>1, Announced DEF Kinds
  <2> QED
    BY <1>11, <2>2 DEF Cancelled, Settling, Types, Unsettled, ClosingIsFirst, CancelSettles,
       ExpirySettles
<1>12. ASSUME NEW i \in 1..Len(lane), Deliver(i) PROVE Settling'
  BY <1>12 DEF Deliver, vars, service, user, Settling, Types, Unsettled, ClosingIsFirst,
     CancelSettles, ExpirySettles
<1>13. ASSUME NEW c \in Calls, Report(c) PROVE Settling'
  <2>1. CASE timer[c] = "armed"
    BY <1>13, <2>1 DEF Report, Settling, Types, Unsettled, ClosingIsFirst,
       CancelSettles, ExpirySettles
  <2>2. CASE timer[c] # "armed"
    <3>1. Announce(c, "result", FALSE) /\ Types
      BY <1>13, <2>2 DEF Report, Settling
    <3>2. /\ announced' \in [Calls -> Seq(Kinds)]
          /\ announced'[c] = Append(announced[c], "result")
          /\ \A d \in Calls \ {c} : announced'[d] = announced[d]
      BY <3>1, Announced DEF Kinds
    <3>3. /\ c \notin settled /\ settled' = settled \cup {c} /\ cancelling' = cancelling
          /\ timer' = [timer EXCEPT ![c] = "off"]
          /\ task' \in {task, [task EXCEPT ![c] = "reported"]} /\ task[c] # "closing"
      BY <1>13, <2>2 DEF Report
    <3> QED
      BY <3>2, <3>3 DEF Settling, Types, Unsettled, ClosingIsFirst,
       CancelSettles, ExpirySettles
  <2> QED
    BY <2>1, <2>2
<1>14. ASSUME BotStarts PROVE Settling'
  BY <1>14 DEF BotStarts, vars, service, user, Settling, Types, Unsettled, ClosingIsFirst,
     CancelSettles, ExpirySettles
<1>15. ASSUME BotStops PROVE Settling'
  BY <1>15 DEF BotStops, vars, service, user, Settling, Types, Unsettled, ClosingIsFirst,
     CancelSettles, ExpirySettles
<1>16. ASSUME UserStarts PROVE Settling'
  BY <1>16 DEF UserStarts, vars, service, user, Settling, Types, Unsettled, ClosingIsFirst,
     CancelSettles, ExpirySettles
<1>17. ASSUME UserStops PROVE Settling'
  BY <1>17 DEF UserStops, vars, service, user, Settling, Types, Unsettled, ClosingIsFirst,
     CancelSettles, ExpirySettles
<1>18. ASSUME UserInference PROVE Settling'
  BY <1>18 DEF UserInference, vars, service, user, Settling, Types, Unsettled, ClosingIsFirst,
     CancelSettles, ExpirySettles
<1>19. ASSUME UNCHANGED vars PROVE Settling'
  BY <1>19 DEF vars, service, user, Settling, Types, Unsettled, ClosingIsFirst, CancelSettles,
     ExpirySettles
<1>20. QED
  BY <1>1, <1>2, <1>3, <1>4, <1>5, <1>6, <1>7, <1>8, <1>9, <1>10, <1>11, <1>12, <1>13, <1>14,
     <1>15, <1>16, <1>17, <1>18, <1>19 DEF Next, EventLoop

\* An announcement that is the first or a cancellation keeps the outcomes as
\* they should be.
LEMMA OutcomeKept ==
  ASSUME Types, OneOutcome, NEW c \in Calls, NEW kind \in Kinds, NEW run,
         Announce(c, kind, run), kind = "cancel" \/ announced[c] = <<>>
  PROVE  OneOutcome'
<1> SUFFICES ASSUME NEW d \in Calls, NEW i \in 2..Len(announced'[d])
             PROVE  announced'[d][i] # "result"
  BY DEF OneOutcome
<1>1. announced'[c] = Append(announced[c], kind) /\ (d # c => announced'[d] = announced[d])
  BY Announced
<1>2. CASE d # c
  BY <1>1, <1>2 DEF OneOutcome
<1>3. CASE d = c
  <2> DEFINE old == announced[c]
  <2>1. old \in Seq(Kinds)
    BY DEF Types
  <2> HIDE DEF old
  <2>2. Len(Append(old, kind)) = Len(old) + 1 /\ Len(old) \in Nat
    BY <2>1
  <2>3. CASE i = Len(old) + 1
    <3>1. Append(old, kind)[i] = kind
      BY <2>1, <2>3
    <3>2. Len(old) # 0
      BY <2>1, <2>2, <2>3
    <3>3. old # <<>>
      BY <3>2
    <3> QED
      BY <1>1, <1>3, <3>1, <3>3 DEF old
  <2>4. CASE i \in 2..Len(old)
    <3>1. Append(old, kind)[i] = old[i]
      BY <2>1, <2>4
    <3> QED
      BY <1>1, <1>3, <2>4, <3>1 DEF old, OneOutcome
  <2> QED
    BY <1>1, <1>3, <2>2, <2>3, <2>4 DEF old
<1> QED
  BY <1>2, <1>3

\* Every step keeps the outcomes as they should be: a result is announced only
\* of a call of which nothing was.
LEMMA OutcomeStep ==
  ASSUME IInv, [Next]_vars
  PROVE  OneOutcome'
<1> USE DEF IInv
<1>1. ASSUME NEW b \in Batches, StartBatch(b) PROVE OneOutcome'
  BY <1>1 DEF StartBatch, Settling, Types, Unsettled, ClosingIsFirst, CancelSettles,
     ExpirySettles, OneOutcome, Kinds
<1>2. ASSUME RunNext PROVE OneOutcome'
  BY <1>2 DEF RunNext, Settling, Types, Unsettled, ClosingIsFirst, CancelSettles, ExpirySettles,
     OneOutcome, Kinds
<1>3. ASSUME NEW c \in Calls, Begin(c) PROVE OneOutcome'
  BY <1>3 DEF Begin, Broadcast, Settling, Types, Unsettled, ClosingIsFirst, CancelSettles,
     ExpirySettles, OneOutcome, Kinds
<1>4. ASSUME NEW c \in Calls, Closed(c) PROVE OneOutcome'
  BY <1>4 DEF Closed, Announce, Settling, Types, Unsettled, ClosingIsFirst, CancelSettles,
     ExpirySettles, OneOutcome, Kinds
<1>5. ASSUME NEW c \in Calls, Return(c) PROVE OneOutcome'
  BY <1>5 DEF Return, Settling, Types, Unsettled, ClosingIsFirst, CancelSettles, ExpirySettles,
     OneOutcome, Kinds
<1>6. ASSUME NEW c \in Calls, Unwind(c) PROVE OneOutcome'
  BY <1>6 DEF Unwind, Settling, Types, Unsettled, ClosingIsFirst, CancelSettles, ExpirySettles,
     OneOutcome, Kinds
<1>7. ASSUME NEW c \in Calls, Untrack(c) PROVE OneOutcome'
  BY <1>7 DEF Untrack, vars, service, user, Settling, Types, Unsettled, ClosingIsFirst,
     CancelSettles, ExpirySettles, OneOutcome
<1>8. ASSUME NEW c \in Calls, Expire(c) PROVE OneOutcome'
  BY <1>8 DEF Expire, AtDeadline, Settling, Types, Unsettled, ClosingIsFirst, CancelSettles,
     ExpirySettles, OneOutcome, Kinds
<1>9. ASSUME NEW c \in Calls, TimeOut(c) PROVE OneOutcome'
  <2>1. CASE c \in tracked
    BY <1>9, <2>1 DEF TimeOut, OneOutcome
  <2>2. CASE c \notin tracked
    <3>1. Announce(c, "cancel", TRUE) /\ Types
      BY <1>9, <2>2 DEF TimeOut, TellTimeOut, Settling
    <3> QED
      BY <3>1, OutcomeKept DEF Kinds
  <2> QED
    BY <2>1, <2>2
<1>10. ASSUME NEW c \in Calls, Visit(c) PROVE OneOutcome'
  BY <1>10 DEF Visit, CancelTask, Settling, Types, Unsettled, ClosingIsFirst, CancelSettles,
     ExpirySettles, OneOutcome, Kinds
<1>11. ASSUME NEW c \in Calls, NEW by \in {"sweep", "timeout"}, Cancelled(c, by) PROVE OneOutcome'
  BY <1>11 DEF Cancelled, Announce, Settling, Types, Unsettled, ClosingIsFirst, CancelSettles,
     ExpirySettles, OneOutcome, Kinds
<1>12. ASSUME NEW i \in 1..Len(lane), Deliver(i) PROVE OneOutcome'
  BY <1>12 DEF Deliver, vars, service, user, Settling, Types, Unsettled, ClosingIsFirst,
     CancelSettles, ExpirySettles, OneOutcome
<1>13. ASSUME NEW c \in Calls, Report(c) PROVE OneOutcome'
  <2>1. CASE timer[c] = "armed"
    BY <1>13, <2>1 DEF Report, OneOutcome
  <2>2. CASE timer[c] # "armed"
    <3>1. Announce(c, "result", FALSE) /\ Types
      BY <1>13, <2>2 DEF Report, Settling
    <3>2. announced[c] = <<>>
      BY <1>13 DEF Report, Settling, Unsettled
    <3> QED
      BY <3>1, <3>2, OutcomeKept DEF Kinds, Settling
  <2> QED
    BY <2>1, <2>2
<1>14. ASSUME BotStarts PROVE OneOutcome'
  BY <1>14 DEF BotStarts, vars, service, user, Settling, Types, Unsettled, ClosingIsFirst,
     CancelSettles, ExpirySettles, OneOutcome
<1>15. ASSUME BotStops PROVE OneOutcome'
  BY <1>15 DEF BotStops, vars, service, user, Settling, Types, Unsettled, ClosingIsFirst,
     CancelSettles, ExpirySettles, OneOutcome
<1>16. ASSUME UserStarts PROVE OneOutcome'
  BY <1>16 DEF UserStarts, vars, service, user, Settling, Types, Unsettled, ClosingIsFirst,
     CancelSettles, ExpirySettles, OneOutcome
<1>17. ASSUME UserStops PROVE OneOutcome'
  BY <1>17 DEF UserStops, vars, service, user, Settling, Types, Unsettled, ClosingIsFirst,
     CancelSettles, ExpirySettles, OneOutcome
<1>18. ASSUME UserInference PROVE OneOutcome'
  BY <1>18 DEF UserInference, vars, service, user, Settling, Types, Unsettled, ClosingIsFirst,
     CancelSettles, ExpirySettles, OneOutcome
<1>19. ASSUME UNCHANGED vars PROVE OneOutcome'
  BY <1>19 DEF vars, service, user, Settling, Types, Unsettled, ClosingIsFirst, CancelSettles,
     ExpirySettles, OneOutcome
<1>20. QED
  BY <1>1, <1>2, <1>3, <1>4, <1>5, <1>6, <1>7, <1>8, <1>9, <1>10, <1>11, <1>12, <1>13, <1>14,
     <1>15, <1>16, <1>17, <1>18, <1>19 DEF Next, EventLoop

\* The service announces one result of a call at most, and none once it has
\* announced its cancellation (runner_item.settled).
THEOREM OneOutcomeHolds == Spec => []OneOutcome
<1>1. Init => IInv
  BY InitInv
<1>2. IInv /\ [Next]_vars => IInv'
  BY SettlingStep, OutcomeStep DEF IInv
<1>3. IInv => OneOutcome
  BY DEF IInv
<1>4. QED
  BY <1>1, <1>2, <1>3, PTL DEF Spec

-----------------------------------------------------------------------------
(***************************************************************************)
(* Types                                                                   *)
(***************************************************************************)
\* The lane without one of its frames.
LEMMA Removed ==
  ASSUME NEW S, NEW q \in Seq(S), NEW i \in 1..Len(q)
  PROVE  /\ RemoveAt(q, i) \in Seq(S)
         /\ Len(RemoveAt(q, i)) = Len(q) - 1
         /\ \A j \in 1..Len(q) - 1 : RemoveAt(q, i)[j] = IF j < i THEN q[j] ELSE q[j + 1]
<1> DEFINE a == SubSeq(q, 1, i - 1)
           b == SubSeq(q, i + 1, Len(q))
<1>1. a \in Seq(S) /\ Len(a) = i - 1 /\ \A j \in 1..i - 1 : a[j] = q[j]
  OBVIOUS
<1>2. b \in Seq(S) /\ Len(b) = Len(q) - i /\ \A j \in 1..Len(q) - i : b[j] = q[j + i]
  OBVIOUS
<1>3. RemoveAt(q, i) = a \o b
  BY DEF RemoveAt
<1> HIDE DEF a, b
<1>4. a \o b \in Seq(S) /\ Len(a \o b) = Len(q) - 1 /\ Len(q) \in Nat
  <2>1. a \o b \in Seq(S) /\ Len(a \o b) = Len(a) + Len(b)
    <3>1. a \in Seq(S) /\ b \in Seq(S)
      BY <1>1, <1>2
    <3> QED
      BY <3>1
  <2>2. Len(q) \in Nat
    OBVIOUS
  <2> QED
    BY <1>1, <1>2, <2>1, <2>2
<1>5. \A j \in 1..Len(q) - 1 : (a \o b)[j] = IF j < i THEN q[j] ELSE q[j + 1]
  <2> SUFFICES ASSUME NEW j \in 1..Len(q) - 1
               PROVE  (a \o b)[j] = IF j < i THEN q[j] ELSE q[j + 1]
    OBVIOUS
  <2>1. CASE j < i
    BY <1>1, <1>2, <1>4, <2>1
  <2>2. CASE j >= i
    <3>1. (a \o b)[j] = b[j - (i - 1)]
      BY <1>1, <1>2, <1>4, <2>2
    <3>2. b[j - (i - 1)] = q[(j - (i - 1)) + i]
      BY <1>2, <1>4, <2>2
    <3> QED
      BY <1>4, <2>2, <3>1, <3>2
  <2> QED
    BY <1>4, <2>1, <2>2
<1> QED
  BY <1>3, <1>4, <1>5

\* The sequential runner is given each call of a batch once.
LEMMA RunnerGiven ==
  ASSUME NEW b
  PROVE  LET s == SetToSeq(Members(b))
         IN  /\ s \in Seq(Calls)
             /\ \A i \in 1..Len(s) : s[i] \in Members(b)
             /\ \A i, j \in 1..Len(s) : s[i] = s[j] => i = j
<1> DEFINE M == Members(b)
           n == Cardinality(M)
<1>1. M \subseteq Calls /\ IsFiniteSet(M)
  BY CallsAssumption, FS_Subset DEF Members
<1> HIDE DEF M
<1>2. n \in Nat /\ ExistsBijection(1..n, M)
  BY <1>1, FS_CardinalityType
<1>3. PICK f : f \in Bijection(1..n, M)
  BY <1>2 DEF ExistsBijection
<1>4. f \in [1..n -> M] /\ IsInjective(f)
  BY <1>3 DEF Bijection, Injection
<1>5. SetToSeq(M) = CHOOSE g \in [1..n -> M] : IsInjective(g)
  BY DEF SetToSeq
<1>6. SetToSeq(M) \in [1..n -> M] /\ IsInjective(SetToSeq(M))
  BY <1>4, <1>5
<1>7. SetToSeq(M) \in Seq(M) /\ Len(SetToSeq(M)) = n
  BY <1>2, <1>6
<1>8. \A i, j \in 1..n : SetToSeq(M)[i] = SetToSeq(M)[j] => i = j
  BY <1>6 DEF IsInjective
<1> QED
  BY <1>1, <1>6, <1>7, <1>8 DEF M

\* What a frame says.
LEMMA FrameFields ==
  ASSUME NEW f \in Frames
  PROVE  /\ f.kind \in {"in progress", "result", "cancel", "user started", "user stopped"}
         /\ f.kind \in {"in progress", "result", "cancel"} => f.of \in Calls
BY DEF Frames

\* What is broadcast is added to the lane.
LEMMA Sent ==
  ASSUME TypeOK, NEW kind, NEW of, NEW run, Broadcast(kind, of, run),
         [kind |-> kind, of |-> of, run |-> run] \in Frames
  PROVE  /\ lane' \in Seq(Frames) /\ Len(lane') = Len(lane) + 1
         /\ \A i \in 1..Len(lane) : lane'[i] = lane[i]
         /\ lane'[Len(lane) + 1] = [kind |-> kind, of |-> of, run |-> run]
<1> DEFINE f == [kind |-> kind, of |-> of, run |-> run]
<1>1. lane \in Seq(Frames) /\ lane' = Append(lane, f) /\ f \in Frames
  BY DEF TypeOK, Broadcast
<1> HIDE DEF f
<1>2. /\ lane' \in Seq(Frames) /\ Len(lane') = Len(lane) + 1
      /\ \A i \in 1..Len(lane) : lane'[i] = lane[i]
      /\ lane'[Len(lane) + 1] = f
  BY <1>1
<1> QED
  BY <1>2 DEF f

\* An announcement keeps the types of the lane and of the history.
LEMMA AnnouncedTypes ==
  ASSUME TypeOK, NEW c \in Calls, NEW kind \in Kinds, NEW run \in BOOLEAN,
         Announce(c, kind, run)
  PROVE  lane' \in Seq(Frames) /\ announced' \in [Calls -> Seq(Kinds)]
<1>1. Types
  BY DEF TypeOK, Types, Kinds
<1>2. [kind |-> kind, of |-> c, run |-> run] \in Frames
  BY DEF Frames, Kinds
<1> QED
  BY <1>1, <1>2, Announced, Sent DEF Announce

\* Initially every variable has its type.
LEMMA InitTypes == Init => TypeOK
<1> SUFFICES ASSUME Init PROVE TypeOK
  OBVIOUS
<1>1. queue \in Seq(Calls) /\ lane \in Seq(Frames) /\ announced \in [Calls -> Seq(Kinds)]
  BY DEF Init
<1>2. turns \in 0..MaxTurns /\ batches \in Nat /\ pushes \in [Batches -> Nat]
  BY CallsAssumption DEF Init
<1>3. /\ task \in [Calls -> {"no", "queued", "created", "running", "closing",
                             "reported", "cancelled", "over"}]
      /\ timer \in [Calls -> {"off", "armed", "expired"}]
      /\ progress \in [Calls -> {"absent", "none", "running"}]
      /\ context \in [Calls -> {"absent", "pending", "result", "cancelled"}]
  BY DEF Init
<1> QED
  BY <1>1, <1>2, <1>3 DEF Init, TypeOK, Kinds

\* Putting an outcome in the context keeps the aggregator's types.
LEMMA SettleTypes ==
  ASSUME TypeOK, NEW c \in Calls, NEW outcome \in {"result", "cancelled"}, NEW mayRun, NEW rest,
         Settle(c, outcome, mayRun, rest)
  PROVE  /\ progress' \in [Calls -> {"absent", "none", "running"}]
         /\ context' \in [Calls -> {"absent", "pending", "result", "cancelled"}]
         /\ userSpeaking' = userSpeaking /\ botSpeaking' = botSpeaking
         /\ pushLater' \in BOOLEAN
         /\ unheard' \subseteq Calls /\ pushes' \in [Batches -> Nat]
<1>1. /\ progress' \in [Calls -> {"absent", "none", "running"}]
      /\ context' \in [Calls -> {"absent", "pending", "result", "cancelled"}]
      /\ userSpeaking' = userSpeaking /\ botSpeaking' = botSpeaking
  BY DEF Settle, TypeOK
<1>2. \/ unheard' = unheard \cup {c} /\ UNCHANGED <<pushLater, pushes>>
      \/ MaybePush(c, rest)
  BY DEF Settle
<1>3. \/ unheard' = unheard \cup {c} /\ pushLater' \in {pushLater, TRUE} /\ UNCHANGED pushes
      \/ unheard' = {} /\ pushLater' = FALSE /\ pushes' = [pushes EXCEPT ![Batch[c]] = @ + 1]
  BY <1>2 DEF MaybePush, Push, PutOff
<1>4. Batch[c] \in Batches
  BY DEF Batches
<1>5. pushes' \in [Batches -> Nat]
  <2>1. pushes \in [Batches -> Nat]
    BY DEF TypeOK
  <2>2. pushes[Batch[c]] + 1 \in Nat
    BY <1>4, <2>1
  <2> QED
    BY <1>3, <1>4, <2>1, <2>2
<1> QED
  BY <1>1, <1>3, <1>5 DEF TypeOK

\* Handling a frame keeps the aggregator's types.
LEMMA HandleTypes ==
  ASSUME TypeOK, NEW f \in Frames, NEW rest, Handle(f, rest)
  PROVE  /\ progress' \in [Calls -> {"absent", "none", "running"}]
         /\ context' \in [Calls -> {"absent", "pending", "result", "cancelled"}]
         /\ userSpeaking' \in BOOLEAN /\ botSpeaking' \in BOOLEAN /\ pushLater' \in BOOLEAN
         /\ unheard' \subseteq Calls /\ pushes' \in [Batches -> Nat]
<1>1. CASE f.kind = "in progress"
  BY <1>1 DEF Handle, TypeOK
<1>2. CASE f.kind = "result"
  <2>1. CASE InProgress(f.of)
    <3>1. Settle(f.of, "result", TRUE, rest) /\ f.of \in Calls
      BY <1>2, <2>1, FrameFields DEF Handle
    <3> QED
      BY <3>1, SettleTypes DEF TypeOK
  <2>2. CASE ~InProgress(f.of)
    BY <1>2, <2>2 DEF Handle, Ignore, aggregator, TypeOK
  <2> QED
    BY <2>1, <2>2
<1>3. CASE f.kind = "cancel"
  <2>1. CASE InProgress(f.of)
    <3>1. Settle(f.of, "cancelled", f.run, rest) /\ f.of \in Calls
      BY <1>3, <2>1, FrameFields DEF Handle
    <3> QED
      BY <3>1, SettleTypes DEF TypeOK
  <2>2. CASE ~InProgress(f.of)
    BY <1>3, <2>2 DEF Handle, Ignore, aggregator, TypeOK
  <2> QED
    BY <2>1, <2>2
<1>4. CASE f.kind = "user started"
  BY <1>4 DEF Handle, TypeOK
<1>5. CASE f.kind = "user stopped"
  BY <1>5 DEF Handle, TypeOK
<1> QED
  BY <1>1, <1>2, <1>3, <1>4, <1>5, FrameFields

\* Every step keeps the types.
LEMMA TypesStep ==
  ASSUME TypeOK, [Next]_vars
  PROVE  TypeOK'
<1>1. ASSUME NEW b \in Batches, StartBatch(b) PROVE TypeOK'
  <2>1. queue' \in Seq(Calls)
    <3>1. queue \in Seq(Calls) /\ SetToSeq(Members(b)) \in Seq(Calls)
      BY RunnerGiven DEF TypeOK
    <3>2. queue \o SetToSeq(Members(b)) \in Seq(Calls)
      BY <3>1
    <3> QED
      BY <1>1, <3>1, <3>2 DEF StartBatch
  <2>2. tracked' \subseteq Calls
    BY <1>1 DEF StartBatch, TypeOK, Members
  <2> QED
    BY <1>1, <2>1, <2>2 DEF StartBatch, TypeOK, user
<1>2. ASSUME RunNext PROVE TypeOK'
  <2>1. queue \in Seq(Calls) /\ queue # <<>>
    BY <1>2 DEF RunNext, TypeOK
  <2>2. Head(queue) \in Calls /\ Tail(queue) \in Seq(Calls)
    BY <2>1
  <2> QED
    BY <1>2, <2>2 DEF RunNext, TypeOK, aggregator, user
<1>3. ASSUME NEW c \in Calls, Begin(c) PROVE TypeOK'
  <2>1. lane' \in Seq(Frames)
    <3>1. [kind |-> "in progress", of |-> c, run |-> FALSE] \in Frames
      BY DEF Frames
    <3> QED
      BY <1>3, <3>1, Sent DEF Begin
  <2> QED
    BY <1>3, <2>1 DEF Begin, TypeOK, aggregator, user
<1>4. ASSUME NEW c \in Calls, Closed(c) PROVE TypeOK'
  <2>1. lane' \in Seq(Frames) /\ announced' \in [Calls -> Seq(Kinds)]
    BY <1>4, AnnouncedTypes DEF Closed, Kinds
  <2> QED
    BY <1>4, <2>1 DEF Closed, TypeOK, aggregator, user, Kinds
<1>5. ASSUME NEW c \in Calls, Report(c) PROVE TypeOK'
  <2>1. lane' \in Seq(Frames) /\ announced' \in [Calls -> Seq(Kinds)]
    <3>1. CASE timer[c] = "armed"
      BY <1>5, <3>1 DEF Report, TypeOK, Kinds
    <3>2. CASE timer[c] # "armed"
      BY <1>5, <3>2, AnnouncedTypes DEF Report, Kinds
    <3> QED
      BY <3>1, <3>2
  <2>2. /\ settled' = settled \cup {c} /\ timer' = [timer EXCEPT ![c] = "off"]
        /\ task' \in {task, [task EXCEPT ![c] = "closing"], [task EXCEPT ![c] = "reported"]}
        /\ UNCHANGED <<mode, batches, queue, tracked, sweep, cancelling, aggregator, user, unheard>>
    BY <1>5 DEF Report
  <2> QED
    BY <2>1, <2>2 DEF TypeOK, aggregator, user, Kinds
<1>6. ASSUME NEW c \in Calls, Return(c) \/ Unwind(c) PROVE TypeOK'
  BY <1>6 DEF Return, Unwind, TypeOK, aggregator, user
<1>7. ASSUME NEW c \in Calls, Untrack(c) \/ Expire(c) PROVE TypeOK'
  BY <1>7 DEF Untrack, Expire, AtDeadline, TypeOK, aggregator, user
<1>8. ASSUME NEW c \in Calls, TimeOut(c) PROVE TypeOK'
  <2>1. CASE c \in tracked
    BY <1>8, <2>1 DEF TimeOut, CancelTask, TypeOK, aggregator, user
  <2>2. CASE c \notin tracked
    <3>1. lane' \in Seq(Frames) /\ announced' \in [Calls -> Seq(Kinds)]
      BY <1>8, <2>2, AnnouncedTypes DEF TimeOut, TellTimeOut, Kinds
    <3> QED
      BY <1>8, <2>2, <3>1 DEF TimeOut, TypeOK, aggregator, user, Kinds
  <2> QED
    BY <2>1, <2>2
<1>9. ASSUME NEW c \in Calls, Visit(c) PROVE TypeOK'
  <2>1. CASE c \in tracked
    <3>1. CancelTask(c, "sweep")
      BY <1>9, <2>1 DEF Visit
    <3>2. /\ settled' \subseteq Calls
          /\ task' \in [Calls -> {"no", "queued", "created", "running", "closing",
                                 "reported", "cancelled", "over"}]
          /\ cancelling' \subseteq Calls \X {"sweep", "timeout"}
      BY <3>1 DEF CancelTask, TypeOK
    <3>3. sweep' \subseteq Calls \ Async
      BY <1>9 DEF Visit, TypeOK
    <3> QED
      BY <1>9, <3>2, <3>3 DEF Visit, TypeOK, aggregator, user
  <2>2. CASE c \notin tracked
    BY <1>9, <2>2 DEF Visit, TypeOK, aggregator, user
  <2> QED
    BY <2>1, <2>2
<1>10. ASSUME NEW c \in Calls, NEW by \in {"sweep", "timeout"}, Cancelled(c, by) PROVE TypeOK'
  <2>1. lane' \in Seq(Frames) /\ announced' \in [Calls -> Seq(Kinds)]
    BY <1>10, AnnouncedTypes DEF Cancelled, Kinds
  <2> QED
    BY <1>10, <2>1 DEF Cancelled, TypeOK, aggregator, user, Kinds
<1>11. ASSUME NEW i \in 1..Len(lane), Deliver(i) PROVE TypeOK'
  <2>1. lane \in Seq(Frames) /\ lane[i] \in Frames
    BY DEF TypeOK
  <2>2. lane' \in Seq(Frames)
    BY <1>11, <2>1, Removed DEF Deliver
  <2>3. Handle(lane[i], RemoveAt(lane, i)) /\ UNCHANGED <<mode, batches, service, user>>
    BY <1>11 DEF Deliver
  <2>4. /\ progress' \in [Calls -> {"absent", "none", "running"}]
        /\ context' \in [Calls -> {"absent", "pending", "result", "cancelled"}]
        /\ userSpeaking' \in BOOLEAN /\ botSpeaking' \in BOOLEAN /\ pushLater' \in BOOLEAN
        /\ unheard' \subseteq Calls /\ pushes' \in [Batches -> Nat]
    BY <2>1, <2>3, HandleTypes
  <2> QED
    BY <2>2, <2>3, <2>4 DEF TypeOK, service, user
<1>12. ASSUME BotStarts \/ BotStops PROVE TypeOK'
  BY <1>12 DEF BotStarts, BotStops, Push, TypeOK, service, user
<1>13. ASSUME UserStarts \/ UserStops PROVE TypeOK'
  <2>1. lane' \in Seq(Frames)
    <3>1. \A k \in {"user started", "user stopped"} :
            [kind |-> k, of |-> 0, run |-> FALSE] \in Frames
      BY DEF Frames
    <3> QED
      BY <1>13, <3>1, Sent DEF UserStarts, UserStops
  <2>2. turns' \in 0..MaxTurns
    <3>1. turns \in 0..MaxTurns /\ MaxTurns \in Nat
      BY CallsAssumption DEF TypeOK
    <3>2. turns' = turns \/ (turns < MaxTurns /\ turns' = turns + 1)
      BY <1>13 DEF UserStarts, UserStops
    <3> QED
      BY <3>1, <3>2
  <2>3. sweep' \subseteq Calls \ Async
    BY <1>13 DEF UserStarts, UserStops, TypeOK, service, CancelOnInterruption
  <2> QED
    BY <1>13, <2>1, <2>2, <2>3 DEF UserStarts, UserStops, TypeOK, service, aggregator
<1>14. ASSUME UserInference PROVE TypeOK'
  BY <1>14 DEF UserInference, TypeOK, service, aggregator
<1>15. ASSUME UNCHANGED vars PROVE TypeOK'
  BY <1>15 DEF vars, TypeOK, service, aggregator, user
<1>16. QED
  BY <1>1, <1>2, <1>3, <1>4, <1>5, <1>6, <1>7, <1>8, <1>9, <1>10, <1>11, <1>12, <1>13, <1>14,
     <1>15 DEF Next, EventLoop

\* Every variable keeps its type.
THEOREM TypeCorrect == Spec => []TypeOK
<1>1. Init => TypeOK
  BY InitTypes
<1>2. TypeOK /\ [Next]_vars => TypeOK'
  BY TypesStep
<1>3. QED
  BY <1>1, <1>2, PTL DEF Spec
-----------------------------------------------------------------------------
(***************************************************************************)
(* Delivery: a call is told of before its outcome, once, and the           *)
(* aggregator has it in progress exactly while the context waits for it.   *)
(***************************************************************************)
Early == {"no", "queued", "created"}

\* The frame says kind of the call.
Says(f, kind, c) == f.kind = kind /\ f.of = c

\* The aggregator knows that the call is in progress, or will before what the
\* service sends from now on.
Told(c) == context[c] # "absent" \/ \E j \in 1..Len(lane) : Says(lane[j], "in progress", c)

\* A batch to come has not begun; the sequential runner waits with each call once.
Ahead == \A c \in Calls : Batch[c] > batches => task[c] = "no"
Waiting ==
  \A i \in 1..Len(queue) : /\ task[queue[i]] = "queued"
                           /\ \A j \in 1..Len(queue) : queue[i] = queue[j] => i = j
TrackedBegun == \A c \in tracked : task[c] \notin {"no", "queued"}
CancelledSettled == \A c \in Calls : task[c] = "cancelled" => c \in settled

\* Of a call that has not begun nothing was sent; of one that may still report,
\* that it is in progress.
Untold ==
  \A c \in Calls : task[c] \in Early =>
    /\ context[c] = "absent"
    /\ \A i \in 1..Len(lane) : ~Says(lane[i], "in progress", c) /\ ~Says(lane[i], "result", c)
ReportersTold ==
  \A c \in Calls :
    \/ task[c] \in {"running", "closing", "reported"}
    \/ task[c] = "over" /\ c \notin settled
    => Told(c)

\* The lane says once that a call is in progress, before anything else is known.
InProgressOnce ==
  \A c \in Calls : \A i \in 1..Len(lane) : Says(lane[i], "in progress", c) =>
    /\ context[c] = "absent"
    /\ \A j \in 1..Len(lane) : Says(lane[j], "in progress", c) => i = j
ResultsFollow ==
  \A c \in Calls : \A i \in 1..Len(lane) : Says(lane[i], "result", c) =>
    \/ context[c] # "absent"
    \/ \E j \in 1..(i - 1) : Says(lane[j], "in progress", c)

WaitsAlike == \A c \in Calls : progress[c] = "running" <=> context[c] = "pending"

Service == Ahead /\ Waiting /\ TrackedBegun /\ CancelledSettled
Lane == Untold /\ ReportersTold /\ InProgressOnce /\ ResultsFollow
Delivery == TypeOK /\ Service /\ Lane /\ WaitsAlike

\* The places before a place.
LEMMA Earlier ==
  ASSUME NEW n \in Nat, NEW i \in 1..n
  PROVE  1..(i - 1) \subseteq 1..n
OBVIOUS

\* Initially nothing was sent.
LEMMA InitDelivery == Init => Delivery
<1>1. Init => TypeOK
  BY InitTypes
<1>2. Init => Service /\ WaitsAlike
  BY CallsAssumption DEF Init, Service, Ahead, Waiting, TrackedBegun, CancelledSettled, WaitsAlike
<1>3. Init => Lane
  BY DEF Init, Lane, Untold, ReportersTold, InProgressOnce, ResultsFollow
<1> QED
  BY <1>1, <1>2, <1>3 DEF Delivery

\* The task of a call goes on, and what may still report was told of.
Advances ==
  \A c \in Calls :
    \/ task'[c] = task[c]
    \/ /\ task[c] \notin {"no", "queued"} /\ task'[c] \notin Early
       /\ task'[c] = "cancelled" => c \in settled'
       /\ task'[c] \in {"running", "closing", "reported"} => Told(c)
       /\ task'[c] = "over" /\ c \notin settled' => Told(c)

\* The service, or the user, sends nothing or one frame that may be sent.
Sends ==
  \/ lane' = lane
  \/ \E f \in Frames :
       /\ lane' = Append(lane, f)
       /\ \A c \in Calls : /\ ~Says(f, "in progress", c)
                           /\ Says(f, "result", c) => Told(c) /\ task'[c] \notin Early

\* The calls of the service go on: what the aggregator knows stays what it was.
LEMMA ServiceStep ==
  ASSUME TypeOK, Service, Lane, Advances, Sends, UNCHANGED <<context, queue, batches>>,
         tracked' \subseteq tracked, settled \subseteq settled'
  PROVE  Service' /\ Lane'
<1>1. \A c \in Calls : /\ task'[c] \in {"no", "queued"} <=> task[c] \in {"no", "queued"}
                       /\ task[c] \in {"no", "queued"} => task'[c] = task[c]
                       /\ task'[c] \in Early => task'[c] = task[c]
  BY DEF Advances, Early
<1>2. Service'
  <2>1. \A i \in 1..Len(queue) : queue[i] \in Calls
    BY DEF TypeOK
  <2>2. Ahead' /\ Waiting'
    BY <1>1, <2>1 DEF Service, Ahead, Waiting
  <2>3. TrackedBegun'
    BY <1>1 DEF Service, TrackedBegun, TypeOK
  <2>4. CancelledSettled'
    BY DEF Service, CancelledSettled, Advances
  <2> QED
    BY <2>2, <2>3, <2>4 DEF Service
<1>3. PICK new \in SUBSET Frames :
        /\ lane' = lane \/ \E f \in new : lane' = Append(lane, f)
        /\ \A f \in new, c \in Calls : /\ ~Says(f, "in progress", c)
                                       /\ Says(f, "result", c) => Told(c) /\ task'[c] \notin Early
  <2>1. CASE lane' = lane
    <3>1. {} \in SUBSET Frames
      OBVIOUS
    <3> QED
      BY <2>1, <3>1
  <2>2. CASE lane' # lane
    <3>1. PICK f \in Frames :
            /\ lane' = Append(lane, f)
            /\ \A c \in Calls : /\ ~Says(f, "in progress", c)
                                /\ Says(f, "result", c) => Told(c) /\ task'[c] \notin Early
      BY <2>2 DEF Sends
    <3>2. {f} \in SUBSET Frames
      OBVIOUS
    <3> QED
      BY <3>1, <3>2
  <2> QED
    BY <2>1, <2>2
<1>4. /\ \A i \in 1..Len(lane) : i \in 1..Len(lane') /\ lane'[i] = lane[i]
      /\ \A i \in 1..Len(lane') : i \notin 1..Len(lane) => i = Len(lane) + 1 /\ lane'[i] \in new
      /\ Len(lane) \in Nat
  <2>1. lane \in Seq(Frames)
    BY DEF TypeOK
  <2>2. CASE lane' = lane
    BY <2>1, <2>2
  <2>3. ASSUME NEW f \in new, lane' = Append(lane, f) PROVE <1>4!:
    BY <2>1, <2>3
  <2>4. lane' = lane \/ \E f \in new : lane' = Append(lane, f)
    BY <1>3
  <2> QED
    BY <2>2, <2>3, <2>4
<1>5. \A c \in Calls : Told(c) => Told(c)'
  BY <1>3, <1>4 DEF Told
<1>6. Untold'
  <2> SUFFICES ASSUME NEW c \in Calls, task'[c] \in Early
               PROVE  /\ context[c] = "absent"
                      /\ \A i \in 1..Len(lane') :
                           ~Says(lane'[i], "in progress", c) /\ ~Says(lane'[i], "result", c)
    BY DEF Untold
  <2>1. /\ context[c] = "absent"
        /\ \A i \in 1..Len(lane) : ~Says(lane[i], "in progress", c) /\ ~Says(lane[i], "result", c)
    BY <1>1 DEF Lane, Untold
  <2>2. \A f \in new : ~Says(f, "in progress", c) /\ ~Says(f, "result", c)
    BY <1>3
  <2> QED
    BY <1>4, <2>1, <2>2
<1>7. ReportersTold'
  BY <1>5 DEF Lane, ReportersTold, Advances
<1>8. InProgressOnce'
  <2> SUFFICES ASSUME NEW c \in Calls, NEW i \in 1..Len(lane'), Says(lane'[i], "in progress", c)
               PROVE  /\ context[c] = "absent"
                      /\ \A j \in 1..Len(lane') : Says(lane'[j], "in progress", c) => i = j
    BY DEF InProgressOnce
  <2>1. \A j \in 1..Len(lane') : Says(lane'[j], "in progress", c) =>
          j \in 1..Len(lane) /\ lane'[j] = lane[j]
    BY <1>3, <1>4
  <2> QED
    BY <2>1 DEF Lane, InProgressOnce
<1>9. ResultsFollow'
  <2> SUFFICES ASSUME NEW c \in Calls, NEW i \in 1..Len(lane'), Says(lane'[i], "result", c),
                      context[c] = "absent"
               PROVE  \E j \in 1..(i - 1) : Says(lane'[j], "in progress", c)
    BY DEF ResultsFollow
  <2>1. PICK j \in 1..Len(lane) : j \in 1..(i - 1) /\ Says(lane[j], "in progress", c)
    <3>1. CASE i \in 1..Len(lane)
      <4>1. PICK j \in 1..(i - 1) : Says(lane[j], "in progress", c)
        BY <1>4, <3>1 DEF Lane, ResultsFollow
      <4>2. j \in 1..Len(lane)
        BY <1>4, <3>1, Earlier
      <4> QED
        BY <4>1, <4>2
    <3>2. CASE i \notin 1..Len(lane)
      <4>1. i = Len(lane) + 1
        BY <1>4, <3>2
      <4>2. Told(c)
        <5>1. lane'[i] \in new
          BY <1>4, <3>2
        <5> QED
          BY <1>3, <5>1
      <4>3. PICK j \in 1..Len(lane) : Says(lane[j], "in progress", c)
        BY <4>2 DEF Told
      <4>4. i - 1 = Len(lane)
        BY <1>4, <4>1
      <4> QED
        BY <4>3, <4>4
    <3> QED
      BY <3>1, <3>2
  <2>2. j \in 1..Len(lane') /\ lane'[j] = lane[j]
    BY <1>4
  <2> QED
    BY <2>1, <2>2
<1> QED
  BY <1>2, <1>6, <1>7, <1>8, <1>9 DEF Lane

\* The actions that are such steps.
LEMMA ServiceActions ==
  ASSUME Delivery, NEW c \in Calls,
         \/ Closed(c) \/ Report(c) \/ Return(c) \/ Unwind(c) \/ Untrack(c) \/ Expire(c)
         \/ TimeOut(c) \/ Visit(c) \/ \E by \in {"sweep", "timeout"} : Cancelled(c, by)
  PROVE  Service' /\ Lane' /\ UNCHANGED <<context, progress>>
<1> USE DEF Delivery
<1>1. ASSUME NEW kind \in {"result", "cancel"}, NEW run \in BOOLEAN, Announce(c, kind, run)
      PROVE  \E f \in Frames :
               /\ lane' = Append(lane, f) /\ f.kind = kind /\ f.of = c
  <2>1. [kind |-> kind, of |-> c, run |-> run] \in Frames
    BY DEF Frames
  <2> QED
    BY <1>1, <2>1 DEF Announce, Broadcast
<1>2. ASSUME NEW run \in BOOLEAN, Announce(c, "cancel", run) PROVE Sends
  <2>1. PICK f \in Frames : lane' = Append(lane, f) /\ f.kind = "cancel"
    BY <1>1, <1>2
  <2>2. \A d \in Calls : ~Says(f, "in progress", d) /\ ~Says(f, "result", d)
    BY <2>1 DEF Says
  <2> QED
    BY <2>1, <2>2 DEF Sends
<1>3. ASSUME Announce(c, "result", FALSE), Told(c), task'[c] \notin Early PROVE Sends
  <2>1. PICK f \in Frames : lane' = Append(lane, f) /\ f.kind = "result" /\ f.of = c
    BY <1>1, <1>3
  <2>2. \A d \in Calls : ~Says(f, "in progress", d) /\ (Says(f, "result", d) => d = c)
    BY <2>1 DEF Says
  <2> QED
    BY <1>3, <2>1, <2>2 DEF Sends
<1>4. ASSUME c \in tracked, NEW by, CancelTask(c, by) PROVE Advances /\ settled \subseteq settled'
  <2>1. task[c] \notin {"no", "queued"}
    BY <1>4 DEF Service, TrackedBegun
  <2> QED
    BY <1>4, <2>1 DEF CancelTask, Advances, TypeOK, Early
<1>5. ASSUME UNCHANGED task PROVE Advances
  BY <1>5 DEF Advances
<1>6. ASSUME Closed(c) PROVE Advances /\ Sends /\ settled \subseteq settled'
  <2>1. Told(c)
    BY <1>6 DEF Closed, Lane, ReportersTold
  <2>2. Advances /\ task'[c] \notin Early
    BY <1>6, <2>1 DEF Closed, Advances, TypeOK, Early
  <2> QED
    BY <1>3, <1>6, <2>1, <2>2 DEF Closed
<1>7. ASSUME Report(c) PROVE Advances /\ Sends /\ settled \subseteq settled'
  <2>1. Told(c)
    BY <1>7 DEF Report, Lane, ReportersTold
  <2>2. Advances /\ task'[c] \notin Early /\ settled \subseteq settled'
    BY <1>7, <2>1 DEF Report, Advances, TypeOK, Early
  <2> QED
    BY <1>3, <1>7, <2>1, <2>2 DEF Report, Sends
<1>8. ASSUME Return(c) PROVE Advances /\ Sends /\ settled \subseteq settled'
  <2>1. Told(c)
    BY <1>8 DEF Return, Lane, ReportersTold
  <2> QED
    BY <1>8, <2>1 DEF Return, Advances, Sends, TypeOK, Early
<1>9. ASSUME Unwind(c) PROVE Advances /\ Sends /\ settled \subseteq settled'
  <2>1. c \in settled
    BY <1>9 DEF Unwind, Service, CancelledSettled
  <2> QED
    BY <1>9, <2>1 DEF Unwind, Advances, Sends, TypeOK, Early
<1>10. ASSUME Untrack(c) \/ Expire(c) PROVE Advances /\ Sends /\ settled \subseteq settled'
  BY <1>5, <1>10 DEF Untrack, Expire, AtDeadline, Sends
<1>11. ASSUME TimeOut(c) PROVE Advances /\ Sends /\ settled \subseteq settled'
  <2>1. CASE c \in tracked
    BY <1>4, <1>11, <2>1 DEF TimeOut, Sends
  <2>2. CASE c \notin tracked
    BY <1>2, <1>5, <1>11, <2>2 DEF TimeOut, TellTimeOut
  <2> QED
    BY <2>1, <2>2
<1>12. ASSUME Visit(c) PROVE Advances /\ Sends /\ settled \subseteq settled'
  BY <1>4, <1>5, <1>12 DEF Visit, Sends
<1>13. ASSUME NEW by \in {"sweep", "timeout"}, Cancelled(c, by)
       PROVE  Advances /\ Sends /\ settled \subseteq settled'
  BY <1>2, <1>5, <1>13 DEF Cancelled
<1>14. Advances /\ Sends /\ settled \subseteq settled'
  BY <1>6, <1>7, <1>8, <1>9, <1>10, <1>11, <1>12, <1>13
<1>15. UNCHANGED <<context, progress, queue, batches>> /\ tracked' \subseteq tracked
  BY DEF Closed, Report, Return, Unwind, Untrack, Expire, TimeOut, Visit, Cancelled, aggregator
<1> QED
  BY <1>14, <1>15, ServiceStep

\* A batch that begins is new to everybody.
LEMMA StartBatchDelivery ==
  ASSUME Delivery, NEW b \in Batches, StartBatch(b)
  PROVE  Service' /\ Lane' /\ WaitsAlike' /\ UNCHANGED context
<1> USE DEF Delivery
<1> DEFINE s == SetToSeq(Members(b))
<1>1. \A c \in Calls : /\ Batch[c] \in Nat /\ batches \in Nat /\ b = batches + 1 /\ batches' = b
                       /\ Batch[c] # b => task'[c] = task[c]
                       /\ Batch[c] = b =>
                            task'[c] = (IF mode.parallel THEN "created" ELSE "queued")
  BY CallsAssumption DEF StartBatch, TypeOK
<1>2. \A c \in Calls : Batch[c] = b => task[c] = "no"
  BY <1>1 DEF Service, Ahead
<1>3. \A c \in Calls : /\ task'[c] \in Early <=> task[c] \in Early
                       /\ task'[c] \notin Early => task'[c] = task[c]
                       /\ task'[c] \in {"no", "queued"} /\ Batch[c] # b <=>
                            task[c] \in {"no", "queued"} /\ Batch[c] # b
  BY <1>1, <1>2 DEF Early
<1>4. UNCHANGED <<context, lane, settled>>
  BY DEF StartBatch
<1>5. Lane'
  <2>1. Untold'
    BY <1>3, <1>4 DEF Lane, Untold
  <2>2. \A c \in Calls : Told(c)' <=> Told(c)
    BY <1>4 DEF Told
  <2>3. ReportersTold'
    BY <1>3, <1>4, <2>2 DEF Lane, ReportersTold, Early
  <2>4. InProgressOnce' /\ ResultsFollow'
    BY <1>4 DEF Lane, InProgressOnce, ResultsFollow
  <2> QED
    BY <2>1, <2>3, <2>4 DEF Lane
<1>6. WaitsAlike'
  <2>1. \A c \in Calls : progress'[c] = (IF Batch[c] = b THEN "none" ELSE progress[c])
    BY DEF StartBatch
  <2>2. \A c \in Calls : Batch[c] = b => context[c] = "absent"
    BY <1>2 DEF Lane, Untold, Early
  <2> QED
    BY <1>4, <2>1, <2>2 DEF WaitsAlike
<1>7. Ahead'
  BY <1>1 DEF Service, Ahead
<1>8. CancelledSettled'
  BY <1>3, <1>4 DEF Service, CancelledSettled, Early
<1>9. TrackedBegun'
  <2>1. CASE mode.parallel
    <3>1. tracked' = tracked \cup Members(b)
      BY <2>1 DEF StartBatch
    <3> QED
      BY <1>1, <2>1, <3>1 DEF Service, TrackedBegun, Members, TypeOK
  <2>2. CASE ~mode.parallel
    <3>1. tracked' = tracked
      BY <2>2 DEF StartBatch
    <3> QED
      BY <1>1, <1>2, <3>1 DEF Service, TrackedBegun, TypeOK
  <2> QED
    BY <2>1, <2>2
<1>10. Waiting'
  <2>1. \A i \in 1..Len(queue) : /\ queue[i] \in Calls /\ task'[queue[i]] = "queued"
                                 /\ Batch[queue[i]] # b
    <3>1. \A i \in 1..Len(queue) : queue[i] \in Calls
      BY DEF TypeOK
    <3> QED
      BY <1>1, <1>2, <3>1 DEF Service, Waiting
  <2>2. CASE mode.parallel
    <3>1. queue' = queue
      BY <2>2 DEF StartBatch
    <3> QED
      BY <2>1, <3>1 DEF Service, Waiting
  <2>3. CASE ~mode.parallel
    <3>1. /\ s \in Seq(Calls) /\ queue \in Seq(Calls)
          /\ \A i \in 1..Len(s) : s[i] \in Calls /\ Batch[s[i]] = b
          /\ \A i, j \in 1..Len(s) : s[i] = s[j] => i = j
      <4>1. \A x \in Members(b) : x \in Calls /\ Batch[x] = b
        BY DEF Members
      <4>2. queue \in Seq(Calls)
        BY DEF TypeOK
      <4> QED
        BY <4>1, <4>2, RunnerGiven
    <3>2. queue' = queue \o s
      BY <2>3 DEF StartBatch
    <3> HIDE DEF s
    <3>3. /\ Len(queue) \in Nat /\ Len(s) \in Nat /\ Len(queue') = Len(queue) + Len(s)
          /\ \A i \in 1..Len(queue') :
               queue'[i] = IF i <= Len(queue) THEN queue[i] ELSE s[i - Len(queue)]
      BY <3>1, <3>2
    <3>4. ASSUME NEW i \in 1..Len(queue') PROVE task'[queue'[i]] = "queued"
      <4>1. CASE i <= Len(queue)
        BY <2>1, <3>3, <4>1
      <4>2. CASE i > Len(queue)
        <5>1. i - Len(queue) \in 1..Len(s) /\ queue'[i] = s[i - Len(queue)]
          BY <3>3, <4>2
        <5> QED
          BY <1>1, <2>3, <3>1, <5>1
      <4> QED
        BY <3>3, <4>1, <4>2
    <3>5. ASSUME NEW i \in 1..Len(queue'), NEW j \in 1..Len(queue'), queue'[i] = queue'[j]
          PROVE  i = j
      <4>1. CASE i <= Len(queue) /\ j <= Len(queue)
        BY <3>3, <3>5, <4>1 DEF Service, Waiting
      <4>2. CASE i > Len(queue) /\ j > Len(queue)
        <5>1. /\ i - Len(queue) \in 1..Len(s) /\ j - Len(queue) \in 1..Len(s)
              /\ s[i - Len(queue)] = s[j - Len(queue)]
          BY <3>3, <3>5, <4>2
        <5>2. i - Len(queue) = j - Len(queue)
          BY <3>1, <5>1
        <5> QED
          BY <3>3, <5>2
      <4>3. ASSUME NEW m \in 1..Len(queue'), NEW n \in 1..Len(queue'),
                   m <= Len(queue), n > Len(queue)
            PROVE  queue'[m] # queue'[n]
        <5>1. n - Len(queue) \in 1..Len(s) /\ queue'[n] = s[n - Len(queue)]
          BY <3>3, <4>3
        <5>2. m \in 1..Len(queue) /\ queue'[m] = queue[m]
          BY <3>3, <4>3
        <5> QED
          BY <2>1, <3>1, <5>1, <5>2
      <4> QED
        BY <3>3, <3>5, <4>1, <4>2, <4>3
    <3> QED
      BY <3>4, <3>5 DEF Waiting
  <2> QED
    BY <2>2, <2>3
<1> QED
  BY <1>4, <1>5, <1>6, <1>7, <1>8, <1>9, <1>10 DEF Service

\* The sequential runner gives the next call a task.
LEMMA RunNextDelivery ==
  ASSUME Delivery, RunNext
  PROVE  Service' /\ Lane' /\ UNCHANGED <<context, progress>>
<1> USE DEF Delivery
<1> DEFINE h == Head(queue)
<1>1. /\ queue \in Seq(Calls) /\ queue # <<>> /\ queue' = Tail(queue)
      /\ tracked' = tracked \cup {h} /\ task' = [task EXCEPT ![h] = "created"]
      /\ UNCHANGED <<batches, lane, context, progress, settled>>
  BY DEF RunNext, TypeOK, aggregator
<1>2. /\ Len(queue) \in Nat \ {0} /\ h = queue[1] /\ h \in Calls
      /\ Len(Tail(queue)) = Len(queue) - 1
      /\ \A i \in 1..(Len(queue) - 1) : Tail(queue)[i] = queue[i + 1] /\ queue[i + 1] \in Calls
  BY <1>1
<1>3. task[h] = "queued" /\ \A i \in 1..Len(queue) : queue[i] = h => i = 1
  BY <1>2 DEF Service, Waiting
<1> HIDE DEF h
<1>4. /\ task'[h] = "created"
      /\ \A c \in Calls : c # h => task'[c] = task[c]
  BY <1>1, <1>2 DEF TypeOK
<1>5. Waiting'
  <2> SUFFICES ASSUME NEW i \in 1..Len(queue')
               PROVE  /\ task'[queue'[i]] = "queued"
                      /\ \A j \in 1..Len(queue') : queue'[i] = queue'[j] => i = j
    BY DEF Waiting
  <2>1. i + 1 \in 1..Len(queue) /\ queue'[i] = queue[i + 1] /\ queue[i + 1] \in Calls
    BY <1>1, <1>2
  <2>2. task'[queue'[i]] = "queued"
    BY <1>2, <1>3, <1>4, <2>1 DEF Service, Waiting
  <2>3. ASSUME NEW j \in 1..Len(queue'), queue'[i] = queue'[j] PROVE i = j
    <3>1. j + 1 \in 1..Len(queue) /\ queue'[j] = queue[j + 1]
      BY <1>1, <1>2
    <3>2. i + 1 = j + 1
      BY <2>1, <2>3, <3>1 DEF Service, Waiting
    <3> QED
      BY <1>1, <1>2, <3>2
  <2> QED
    BY <2>2, <2>3
<1>6. Ahead' /\ TrackedBegun' /\ CancelledSettled'
  BY <1>1, <1>2, <1>3, <1>4 DEF Service, Ahead, TrackedBegun, CancelledSettled, TypeOK
<1>7. Untold'
  BY <1>1, <1>3, <1>4 DEF Lane, Untold, Early
<1>8. ReportersTold'
  BY <1>1, <1>4 DEF Lane, ReportersTold, Told
<1>9. InProgressOnce' /\ ResultsFollow'
  BY <1>1 DEF Lane, InProgressOnce, ResultsFollow
<1> QED
  BY <1>1, <1>5, <1>6, <1>7, <1>8, <1>9 DEF Service, Lane

\* A call that begins is told of for the first time.
LEMMA BeginDelivery ==
  ASSUME Delivery, NEW c \in Calls, Begin(c)
  PROVE  Service' /\ Lane' /\ UNCHANGED <<context, progress>>
<1> USE DEF Delivery
<1>1. /\ task[c] = "created" /\ task' = [task EXCEPT ![c] = "running"]
      /\ UNCHANGED <<batches, queue, tracked, settled, context, progress>>
  BY DEF Begin, aggregator
<1>2. task'[c] = "running" /\ \A d \in Calls : d # c => task'[d] = task[d]
  BY <1>1 DEF TypeOK
<1>3. [kind |-> "in progress", of |-> c, run |-> FALSE] \in Frames
  BY DEF Frames
<1>4. /\ \A i \in 1..Len(lane) : lane'[i] = lane[i]
      /\ Says(lane'[Len(lane) + 1], "in progress", c)
      /\ \A d \in Calls : /\ ~Says(lane'[Len(lane) + 1], "result", d)
                          /\ d # c => ~Says(lane'[Len(lane) + 1], "in progress", d)
  <2>1. Len(lane) \in Nat
    BY DEF TypeOK
  <2>2. /\ Len(lane') = Len(lane) + 1
        /\ \A i \in 1..Len(lane) : lane'[i] = lane[i]
        /\ lane'[Len(lane) + 1] = [kind |-> "in progress", of |-> c, run |-> FALSE]
    <3>1. TypeOK /\ Broadcast("in progress", c, FALSE)
      BY DEF Begin
    <3> QED
      BY <1>3, <3>1, Sent
  <2> DEFINE f == [kind |-> "in progress", of |-> c, run |-> FALSE]
  <2>3. /\ Says(f, "in progress", c)
        /\ \A d \in Calls : ~Says(f, "result", d) /\ (d # c => ~Says(f, "in progress", d))
    BY DEF Says
  <2>4. lane'[Len(lane) + 1] = f
    BY <2>2
  <2> HIDE DEF f
  <2> QED
    BY <2>2, <2>3, <2>4
<1>5. context[c] = "absent" /\ \A i \in 1..Len(lane) : ~Says(lane[i], "in progress", c)
  BY <1>1 DEF Lane, Untold, Early
<1>6. /\ \A i \in 1..Len(lane') : i \in 1..Len(lane) \/ i = Len(lane) + 1
      /\ \A i \in 1..Len(lane) : i \in 1..Len(lane')
      /\ Len(lane) + 1 \in 1..Len(lane') /\ Len(lane) + 1 \notin 1..Len(lane)
      /\ Len(lane) \in Nat
  <2>1. Len(lane) \in Nat
    BY DEF TypeOK
  <2>2. Len(lane') = Len(lane) + 1
    <3>1. TypeOK /\ Broadcast("in progress", c, FALSE)
      BY DEF Begin
    <3> QED
      BY <1>3, <3>1, Sent
  <2> QED
    BY <2>1, <2>2
<1>7. Service'
  <2>1. \A i \in 1..Len(queue) : queue[i] \in Calls
    BY DEF TypeOK
  <2> QED
    BY <1>1, <1>2, <2>1 DEF Service, Ahead, Waiting, TrackedBegun, CancelledSettled, TypeOK
<1>8. Untold'
  BY <1>1, <1>2, <1>4, <1>6 DEF Lane, Untold, Early
<1>9. ReportersTold'
  <2>1. Told(c)'
    BY <1>4, <1>6 DEF Told
  <2>2. \A d \in Calls : Told(d) => Told(d)'
    BY <1>1, <1>4, <1>6 DEF Told
  <2> QED
    BY <1>1, <1>2, <2>1, <2>2 DEF Lane, ReportersTold
<1>10. InProgressOnce'
  <2> SUFFICES ASSUME NEW d \in Calls, NEW i \in 1..Len(lane'), Says(lane'[i], "in progress", d)
               PROVE  /\ context[d] = "absent"
                      /\ \A j \in 1..Len(lane') : Says(lane'[j], "in progress", d) => i = j
    BY <1>1 DEF InProgressOnce
  <2>1. CASE d = c
    <3>1. \A j \in 1..Len(lane') : Says(lane'[j], "in progress", c) => j = Len(lane) + 1
      BY <1>4, <1>5, <1>6
    <3> QED
      BY <1>5, <2>1, <3>1
  <2>2. CASE d # c
    <3>1. ~Says(lane'[Len(lane) + 1], "in progress", d)
      BY <1>4, <2>2
    <3>2. \A j \in 1..Len(lane') : Says(lane'[j], "in progress", d) =>
            j \in 1..Len(lane) /\ Says(lane[j], "in progress", d)
      BY <1>4, <1>6, <3>1
    <3> QED
      BY <3>2 DEF Lane, InProgressOnce
  <2> QED
    BY <2>1, <2>2
<1>11. ResultsFollow'
  <2> SUFFICES ASSUME NEW d \in Calls, NEW i \in 1..Len(lane'), Says(lane'[i], "result", d),
                      context[d] = "absent"
               PROVE  \E j \in 1..(i - 1) : Says(lane'[j], "in progress", d)
    BY <1>1 DEF ResultsFollow
  <2>1. i \in 1..Len(lane) /\ Says(lane[i], "result", d)
    <3>1. ~Says(lane'[Len(lane) + 1], "result", d)
      BY <1>4
    <3>2. i \in 1..Len(lane)
      BY <1>6, <3>1
    <3> QED
      BY <1>4, <3>2
  <2>2. PICK j \in 1..(i - 1) : Says(lane[j], "in progress", d)
    BY <2>1 DEF Lane, ResultsFollow
  <2>3. j \in 1..Len(lane)
    BY <1>6, <2>1, Earlier
  <2> QED
    BY <1>4, <2>2, <2>3
<1> QED
  BY <1>1, <1>7, <1>8, <1>9, <1>10, <1>11 DEF Lane

\* What handling a frame does to the context: the frame that says a call is in
\* progress opens its entry; an outcome is written in an entry that waits for it.
LEMMA Handled ==
  ASSUME TypeOK, WaitsAlike, NEW f \in Frames, NEW rest, Handle(f, rest)
  PROVE  /\ f.kind = "in progress" =>
              /\ context' = [context EXCEPT ![f.of] = "pending"]
              /\ progress' = [progress EXCEPT ![f.of] = "running"]
         /\ f.kind # "in progress" =>
              \A d \in Calls :
                \/ context'[d] = context[d] /\ progress'[d] = progress[d]
                \/ /\ context[d] = "pending" /\ context'[d] \in {"result", "cancelled"}
                   /\ progress'[d] = "absent"
         /\ f.kind = "result" /\ context[f.of] = "pending" =>
              context'[f.of] = "result"
<1>1. CASE f.kind = "in progress"
  BY <1>1 DEF Handle
<1>2. ASSUME NEW outcome \in {"result", "cancelled"}, NEW mayRun, f.of \in Calls,
             InProgress(f.of), Settle(f.of, outcome, mayRun, rest)
      PROVE  /\ context' = [context EXCEPT ![f.of] = outcome]
             /\ progress' = [progress EXCEPT ![f.of] = "absent"]
             /\ context[f.of] = "pending"
  BY <1>2 DEF Settle, InProgress, WaitsAlike
<1>3. CASE f.kind = "result"
  <2>1. CASE InProgress(f.of)
    <3>1. Settle(f.of, "result", TRUE, rest) /\ f.of \in Calls
      BY <1>3, <2>1, FrameFields DEF Handle
    <3>2. /\ context' = [context EXCEPT ![f.of] = "result"]
          /\ progress' = [progress EXCEPT ![f.of] = "absent"]
          /\ context[f.of] = "pending"
      BY <1>2, <2>1, <3>1
    <3> QED
      BY <1>3, <3>1, <3>2 DEF TypeOK
  <2>2. CASE ~InProgress(f.of)
    BY <1>3, <2>2, FrameFields DEF Handle, Ignore, aggregator, InProgress, WaitsAlike
  <2> QED
    BY <2>1, <2>2
<1>4. CASE f.kind = "cancel"
  <2>1. CASE InProgress(f.of)
    <3>1. Settle(f.of, "cancelled", f.run, rest) /\ f.of \in Calls
      BY <1>4, <2>1, FrameFields DEF Handle
    <3>2. /\ context' = [context EXCEPT ![f.of] = "cancelled"]
          /\ progress' = [progress EXCEPT ![f.of] = "absent"]
          /\ context[f.of] = "pending"
      BY <1>2, <2>1, <3>1
    <3> QED
      BY <1>4, <3>1, <3>2 DEF TypeOK
  <2>2. CASE ~InProgress(f.of)
    BY <1>4, <2>2 DEF Handle, Ignore, aggregator
  <2> QED
    BY <2>1, <2>2
<1>5. CASE f.kind \in {"user started", "user stopped"}
  BY <1>5 DEF Handle
<1> QED
  BY <1>1, <1>3, <1>4, <1>5, FrameFields

\* Every frame that stays in the lane keeps its place among the others.
LEMMA StaysInLane ==
  ASSUME TypeOK, NEW i \in 1..Len(lane), lane' = RemoveAt(lane, i)
  PROVE  \E p \in [1..Len(lane') -> 1..Len(lane)] :
           /\ \A k \in 1..Len(lane') : p[k] # i /\ lane'[k] = lane[p[k]]
           /\ \A j, k \in 1..Len(lane') : p[j] = p[k] => j = k
           /\ \A m \in 1..Len(lane) : m # i => \E k \in 1..Len(lane') : p[k] = m
           /\ \A k \in 1..Len(lane') : \A n \in 1..(p[k] - 1) :
                /\ n \in 1..Len(lane)
                /\ n # i => \E j \in 1..(k - 1) : j \in 1..Len(lane') /\ p[j] = n
<1>1. lane \in Seq(Frames) /\ Len(lane) \in Nat
  BY DEF TypeOK
<1>2. /\ Len(lane') = Len(lane) - 1
      /\ \A j \in 1..Len(lane) - 1 : lane'[j] = IF j < i THEN lane[j] ELSE lane[j + 1]
  BY <1>1, Removed
<1> DEFINE p == [k \in 1..Len(lane') |-> IF k < i THEN k ELSE k + 1]
<1>3. p \in [1..Len(lane') -> 1..Len(lane)]
  BY <1>1, <1>2
<1>4. \A k \in 1..Len(lane') : p[k] = (IF k < i THEN k ELSE k + 1)
  OBVIOUS
<1> HIDE DEF p
<1>5. \A k \in 1..Len(lane') : p[k] # i /\ lane'[k] = lane[p[k]]
  <2> SUFFICES ASSUME NEW k \in 1..Len(lane') PROVE p[k] # i /\ lane'[k] = lane[p[k]]
    OBVIOUS
  <2>1. CASE k < i
    BY <1>1, <1>2, <1>4, <2>1
  <2>2. CASE ~(k < i)
    BY <1>1, <1>2, <1>4, <2>2
  <2> QED
    BY <2>1, <2>2
<1>6. \A j, k \in 1..Len(lane') : p[j] = p[k] => j = k
  BY <1>1, <1>2, <1>4
<1>7. ASSUME NEW m \in 1..Len(lane), m # i
      PROVE  \E k \in 1..Len(lane') : p[k] = m /\ k <= m /\ (m > i => k = m - 1)
  <2>1. CASE m < i
    <3>1. m \in 1..Len(lane') /\ p[m] = m
      BY <1>1, <1>2, <1>4, <2>1
    <3> QED
      BY <1>1, <2>1, <3>1
  <2>2. CASE m > i
    <3>1. m - 1 \in 1..Len(lane') /\ p[m - 1] = m
      BY <1>1, <1>2, <1>4, <2>2
    <3> QED
      BY <1>1, <3>1
  <2> QED
    BY <1>1, <1>7, <2>1, <2>2
<1>8. ASSUME NEW k \in 1..Len(lane'), NEW n \in 1..(p[k] - 1)
      PROVE  /\ n \in 1..Len(lane)
             /\ n # i => \E j \in 1..(k - 1) : j \in 1..Len(lane') /\ p[j] = n
  <2>1. p[k] \in 1..Len(lane)
    BY <1>3
  <2>2. n \in 1..Len(lane) /\ n < p[k]
    BY <1>1, <2>1
  <2>3. ASSUME n # i PROVE \E j \in 1..(k - 1) : j \in 1..Len(lane') /\ p[j] = n
    <3>1. PICK j \in 1..Len(lane') : p[j] = n /\ j <= n /\ (n > i => j = n - 1)
      BY <1>7, <2>2, <2>3
    <3>2. j < k
      <4>1. CASE k < i
        BY <1>1, <1>2, <1>4, <2>2, <3>1, <4>1
      <4>2. CASE ~(k < i) /\ n < i
        BY <1>1, <1>2, <1>4, <2>2, <3>1, <4>2
      <4>3. CASE ~(k < i) /\ n > i
        BY <1>1, <1>2, <1>4, <2>2, <3>1, <4>3
      <4> QED
        BY <1>1, <1>2, <2>2, <2>3, <4>1, <4>2, <4>3
    <3>3. j \in 1..(k - 1)
      BY <1>1, <1>2, <3>2
    <3> QED
      BY <3>1, <3>3
  <2> QED
    BY <2>2, <2>3
<1>9. \A m \in 1..Len(lane) : m # i => \E k \in 1..Len(lane') : p[k] = m
  BY <1>7
<1>10. \A k \in 1..Len(lane') : \A n \in 1..(p[k] - 1) :
         /\ n \in 1..Len(lane)
         /\ n # i => \E j \in 1..(k - 1) : j \in 1..Len(lane') /\ p[j] = n
  BY <1>8
<1> QED
  BY <1>3, <1>5, <1>6, <1>9, <1>10

\* The aggregator takes a frame from the lane.
LEMMA DeliverDelivery ==
  ASSUME Delivery, NEW i \in 1..Len(lane), Deliver(i)
  PROVE  Service' /\ Lane' /\ WaitsAlike'
<1> USE DEF Delivery
<1> DEFINE f == lane[i]
           c == f.of
<1>1. /\ lane' = RemoveAt(lane, i) /\ Handle(f, RemoveAt(lane, i)) /\ f \in Frames
      /\ UNCHANGED <<batches, queue, task, tracked, settled>>
  BY DEF Deliver, service, TypeOK
<1>2. Service'
  BY <1>1 DEF Service, Ahead, Waiting, TrackedBegun, CancelledSettled
<1>3. /\ f.kind = "in progress" =>
           /\ context' = [context EXCEPT ![c] = "pending"]
           /\ progress' = [progress EXCEPT ![c] = "running"]
      /\ f.kind # "in progress" =>
           \A d \in Calls :
             \/ context'[d] = context[d] /\ progress'[d] = progress[d]
             \/ /\ context[d] = "pending" /\ context'[d] \in {"result", "cancelled"}
                /\ progress'[d] = "absent"
  BY <1>1, Handled
<1>4. ASSUME NEW d \in Calls
      PROVE  /\ Says(f, "in progress", d) => context'[d] = "pending"
             /\ ~Says(f, "in progress", d) => (context'[d] = "absent" <=> context[d] = "absent")
  <2>1. CASE f.kind = "in progress"
    <3>1. c \in Calls /\ context' = [context EXCEPT ![c] = "pending"]
      BY <1>1, <1>3, <2>1, FrameFields
    <3>2. Says(f, "in progress", d) <=> d = c
      BY <2>1 DEF Says
    <3> QED
      BY <3>1, <3>2 DEF TypeOK
  <2>2. CASE f.kind # "in progress"
    BY <1>3, <2>2 DEF Says
  <2> QED
    BY <2>1, <2>2
<1>6. WaitsAlike'
  <2>1. CASE f.kind = "in progress"
    <3>1. /\ c \in Calls /\ context' = [context EXCEPT ![c] = "pending"]
          /\ progress' = [progress EXCEPT ![c] = "running"]
      BY <1>1, <1>3, <2>1, FrameFields
    <3> QED
      BY <3>1 DEF WaitsAlike, TypeOK
  <2>2. CASE f.kind # "in progress"
    BY <1>3, <2>2 DEF WaitsAlike
  <2> QED
    BY <2>1, <2>2
<1>7. PICK p \in [1..Len(lane') -> 1..Len(lane)] :
        /\ \A k \in 1..Len(lane') : p[k] # i /\ lane'[k] = lane[p[k]]
        /\ \A j, k \in 1..Len(lane') : p[j] = p[k] => j = k
        /\ \A m \in 1..Len(lane) : m # i => \E k \in 1..Len(lane') : p[k] = m
        /\ \A k \in 1..Len(lane') : \A n \in 1..(p[k] - 1) :
             /\ n \in 1..Len(lane)
             /\ n # i => \E j \in 1..(k - 1) : j \in 1..Len(lane') /\ p[j] = n
  BY <1>1, StaysInLane
<1> HIDE DEF f, c
<1>8. f = lane[i]
  BY DEF f
<1>9. \A d \in Calls : Told(d) => Told(d)'
  <2> SUFFICES ASSUME NEW d \in Calls, Told(d), context'[d] = "absent"
               PROVE  \E k \in 1..Len(lane') : Says(lane'[k], "in progress", d)
    BY DEF Told
  <2>1. ~Says(f, "in progress", d) /\ context[d] = "absent"
    BY <1>4
  <2>2. PICK m \in 1..Len(lane) : Says(lane[m], "in progress", d)
    BY <2>1 DEF Told
  <2>3. m # i
    BY <1>8, <2>1, <2>2
  <2>4. PICK k \in 1..Len(lane') : p[k] = m
    BY <1>7, <2>3
  <2>5. lane'[k] = lane[m]
    BY <1>7, <2>4
  <2> QED
    BY <2>2, <2>5
<1>10. Untold'
  <2> SUFFICES ASSUME NEW d \in Calls, task[d] \in Early
               PROVE  /\ context'[d] = "absent"
                      /\ \A k \in 1..Len(lane') :
                           ~Says(lane'[k], "in progress", d) /\ ~Says(lane'[k], "result", d)
    BY <1>1 DEF Untold
  <2>1. /\ context[d] = "absent"
        /\ \A k \in 1..Len(lane) : ~Says(lane[k], "in progress", d) /\ ~Says(lane[k], "result", d)
    BY DEF Lane, Untold
  <2>2. context'[d] = "absent"
    BY <1>4, <1>8, <2>1
  <2> QED
    BY <1>7, <2>1, <2>2
<1>11. ReportersTold'
  BY <1>1, <1>9 DEF Lane, ReportersTold
<1>12. InProgressOnce'
  <2> SUFFICES ASSUME NEW d \in Calls, NEW k \in 1..Len(lane'), Says(lane'[k], "in progress", d)
               PROVE  /\ context'[d] = "absent"
                      /\ \A j \in 1..Len(lane') : Says(lane'[j], "in progress", d) => k = j
    BY DEF InProgressOnce
  <2>1. p[k] \in 1..Len(lane) /\ p[k] # i /\ Says(lane[p[k]], "in progress", d)
    BY <1>7
  <2>2. /\ context[d] = "absent"
        /\ \A j \in 1..Len(lane) : Says(lane[j], "in progress", d) => p[k] = j
    BY <2>1 DEF Lane, InProgressOnce
  <2>3. context'[d] = "absent"
    BY <1>4, <1>8, <2>1, <2>2
  <2>4. ASSUME NEW j \in 1..Len(lane'), Says(lane'[j], "in progress", d) PROVE k = j
    <3>1. p[j] \in 1..Len(lane) /\ Says(lane[p[j]], "in progress", d)
      BY <1>7, <2>4
    <3>2. p[k] = p[j]
      BY <2>2, <3>1
    <3> QED
      BY <1>7, <3>2
  <2> QED
    BY <2>3, <2>4
<1>13. ResultsFollow'
  <2> SUFFICES ASSUME NEW d \in Calls, NEW k \in 1..Len(lane'), Says(lane'[k], "result", d),
                      context'[d] = "absent"
               PROVE  \E j \in 1..(k - 1) : Says(lane'[j], "in progress", d)
    BY DEF ResultsFollow
  <2>1. p[k] \in 1..Len(lane) /\ Says(lane[p[k]], "result", d)
    BY <1>7
  <2>2. ~Says(f, "in progress", d) /\ context[d] = "absent"
    BY <1>4
  <2>3. PICK n \in 1..(p[k] - 1) : Says(lane[n], "in progress", d)
    BY <2>1, <2>2 DEF Lane, ResultsFollow
  <2>4. n # i
    BY <1>8, <2>2, <2>3
  <2>5. PICK j \in 1..(k - 1) : j \in 1..Len(lane') /\ p[j] = n
    BY <1>7, <2>4
  <2>6. lane'[j] = lane[n]
    BY <1>7, <2>5
  <2> QED
    BY <2>3, <2>5, <2>6
<1> QED
  BY <1>2, <1>6, <1>10, <1>11, <1>12, <1>13 DEF Lane

\* What the bot does, what the user does, and the user's own inference.
LEMMA OtherDelivery ==
  ASSUME Delivery, BotStarts \/ BotStops \/ UserStarts \/ UserStops \/ UserInference
                     \/ UNCHANGED vars
  PROVE  Service' /\ Lane' /\ UNCHANGED <<context, progress>>
<1> USE DEF Delivery
<1>1. /\ UNCHANGED <<context, progress, task, queue, batches, tracked, settled>>
  BY DEF BotStarts, BotStops, UserStarts, UserStops, UserInference, vars, service, aggregator
<1>2. Sends
  <2>1. \A k \in {"user started", "user stopped"} :
          /\ [kind |-> k, of |-> 0, run |-> FALSE] \in Frames
          /\ \A kind, d : Says([kind |-> k, of |-> 0, run |-> FALSE], kind, d) => kind = k
    BY DEF Frames, Says
  <2>2. CASE UserStarts \/ UserStops
    <3>1. PICK f \in Frames :
            /\ lane' = Append(lane, f)
            /\ \A d \in Calls : ~Says(f, "in progress", d) /\ ~Says(f, "result", d)
      BY <2>1, <2>2 DEF UserStarts, UserStops, Broadcast
    <3> QED
      BY <3>1 DEF Sends
  <2>3. CASE BotStarts \/ BotStops \/ UserInference \/ UNCHANGED vars
    BY <2>3 DEF BotStarts, BotStops, UserInference, vars, Sends
  <2> QED
    BY <2>2, <2>3
<1>3. Advances
  BY <1>1 DEF Advances
<1> QED
  BY <1>1, <1>2, <1>3, ServiceStep

\* Only the delivery of a frame changes the context; the rest of the lane stays.
LEMMA DeliveryStep ==
  ASSUME Delivery, [Next]_vars
  PROVE  /\ Delivery'
         /\ UNCHANGED context \/ \E i \in 1..Len(lane) : Deliver(i)
<1>1. TypeOK'
  BY TypesStep DEF Delivery
<1>2. ASSUME UNCHANGED <<context, progress>> PROVE WaitsAlike'
  BY <1>2 DEF Delivery, WaitsAlike
<1>3. ASSUME NEW b \in Batches, StartBatch(b)
      PROVE  Service' /\ Lane' /\ WaitsAlike' /\ UNCHANGED context
  BY <1>3, StartBatchDelivery
<1>4. CASE RunNext
  BY <1>1, <1>2, <1>4, RunNextDelivery DEF Delivery
<1>5. CASE \E c \in Calls : Begin(c)
  BY <1>1, <1>2, <1>5, BeginDelivery DEF Delivery
<1>6. CASE \E c \in Calls :
             \/ Closed(c) \/ Report(c) \/ Return(c) \/ Unwind(c) \/ Untrack(c) \/ Expire(c)
             \/ TimeOut(c) \/ Visit(c) \/ \E by \in {"sweep", "timeout"} : Cancelled(c, by)
  BY <1>1, <1>2, <1>6, ServiceActions DEF Delivery
<1>7. CASE \E i \in 1..Len(lane) : Deliver(i)
  BY <1>1, <1>7, DeliverDelivery DEF Delivery
<1>8. CASE BotStarts \/ BotStops \/ UserStarts \/ UserStops \/ UserInference \/ UNCHANGED vars
  BY <1>1, <1>2, <1>8, OtherDelivery DEF Delivery
<1> QED
  BY <1>1, <1>3, <1>4, <1>5, <1>6, <1>7, <1>8 DEF Next, EventLoop, Delivery

\* What the context says of a call is settled once (_handle_function_call_result,
\* _handle_function_call_cancel).
THEOREM ContextSettlesOnce == Spec => ContextSettles
<1> DEFINE Kept == \A c \in Calls : context[c] \in {"result", "cancelled"} =>
                                      context'[c] = context[c]
<1>1. ASSUME Delivery, [Next]_vars PROVE Kept
  <2>1. CASE UNCHANGED context
    BY <2>1
  <2>2. ASSUME NEW i \in 1..Len(lane), Deliver(i) PROVE Kept
    <3>1. lane[i] \in Frames /\ Handle(lane[i], RemoveAt(lane, i))
      BY <1>1, <2>2 DEF Delivery, TypeOK, Deliver
    <3>2. CASE lane[i].kind = "in progress"
      <4>1. context[lane[i].of] = "absent"
        BY <1>1, <3>1, <3>2, FrameFields DEF Delivery, Lane, InProgressOnce, Says
      <4>2. context' = [context EXCEPT ![lane[i].of] = "pending"]
        BY <1>1, <3>1, <3>2, Handled DEF Delivery
      <4> QED
        BY <1>1, <4>1, <4>2 DEF Delivery, TypeOK
    <3>3. CASE lane[i].kind # "in progress"
      <4>1. \A d \in Calls : context'[d] = context[d] \/ context[d] = "pending"
        BY <1>1, <3>1, <3>3, Handled DEF Delivery
      <4> QED
        BY <4>1
    <3> QED
      BY <3>2, <3>3
  <2> QED
    BY <1>1, <2>1, <2>2, DeliveryStep
<1>2. Delivery /\ [Next]_vars => Delivery'
  BY DeliveryStep
<1>3. Delivery /\ [Next]_vars => [Kept]_vars
  BY <1>1
<1>4. QED
  BY <1>2, <1>3, InitDelivery, PTL DEF Spec, ContextSettles

\* What leaves the lane is what is delivered.
LEMMA ComingKept ==
  ASSUME TypeOK, [Next]_vars, ~\E i \in 1..Len(lane) : Deliver(i)
  PROVE  Coming(lane) \subseteq Coming(lane')
<1>1. lane \in Seq(Frames)
  BY DEF TypeOK
<1>2. \/ lane' = lane
      \/ \E kind, of, run : lane' = Append(lane, [kind |-> kind, of |-> of, run |-> run])
  <2>1. ASSUME NEW c, NEW kind, NEW run, Announce(c, kind, run) PROVE <1>2!:
    BY <2>1 DEF Announce, Broadcast
  <2>2. ASSUME NEW c \in Calls,
               \/ Begin(c) \/ Closed(c) \/ Unwind(c) \/ Untrack(c) \/ Expire(c) \/ TimeOut(c)
               \/ Visit(c) \/ Report(c) \/ Return(c)
        PROVE  <1>2!:
    BY <2>1, <2>2 DEF Begin, Closed, Unwind, Untrack, Expire, TimeOut, TellTimeOut, Visit, Report,
       Return, Broadcast
  <2>3. ASSUME NEW c \in Calls, NEW by \in {"sweep", "timeout"}, Cancelled(c, by) PROVE <1>2!:
    BY <2>1, <2>3 DEF Cancelled
  <2>4. ASSUME RunNext \/ \E b \in Batches : StartBatch(b) PROVE <1>2!:
    BY <2>4 DEF RunNext, StartBatch
  <2>5. ASSUME BotStarts \/ BotStops \/ UserStarts \/ UserStops \/ UserInference \/ UNCHANGED vars
        PROVE  <1>2!:
    BY <2>5 DEF BotStarts, BotStops, UserStarts, UserStops, UserInference, vars, Broadcast
  <2> QED
    BY <2>2, <2>3, <2>4, <2>5 DEF Next, EventLoop
<1>3. \A j \in 1..Len(lane) : j \in 1..Len(lane') /\ lane'[j] = lane[j]
  <2>1. ASSUME NEW e, lane' = Append(lane, e) PROVE <1>3!:
    <3>1. Len(lane') = Len(lane) + 1 /\ Len(lane) \in Nat
      BY <1>1, <2>1
    <3> QED
      BY <1>1, <2>1, <3>1
  <2> QED
    BY <1>2, <2>1
<1>4. DOMAIN lane = 1..Len(lane) /\ DOMAIN lane' = 1..Len(lane')
  BY <1>1, <1>2
<1>5. Range(lane) \subseteq Range(lane')
  BY <1>3, <1>4 DEF Range
<1> QED
  BY <1>5 DEF Coming

\* A result that reaches the aggregator finds its call in progress or cancelled
\* (_handle_function_call_result, "is not running").
THEOREM ResultsRecorded == Spec => ResultRecorded
<1> DEFINE Recorded == \A c \in Coming(lane) \ Coming(lane') :
                         context'[c] \in {"result", "cancelled"}
<1>1. ASSUME Delivery, [Next]_vars PROVE Recorded
  <2>1. CASE ~\E i \in 1..Len(lane) : Deliver(i)
    BY <1>1, <2>1, ComingKept DEF Delivery
  <2>2. ASSUME NEW i \in 1..Len(lane), Deliver(i) PROVE Recorded
    <3> SUFFICES ASSUME NEW c \in Coming(lane), c \notin Coming(lane')
                 PROVE  context'[c] \in {"result", "cancelled"}
      OBVIOUS
    <3>1. /\ lane \in Seq(Frames) /\ Len(lane) \in Nat /\ lane[i] \in Frames
          /\ lane' = RemoveAt(lane, i) /\ Handle(lane[i], RemoveAt(lane, i))
      BY <1>1, <2>2 DEF Delivery, TypeOK, Deliver
    <3>2. PICK m \in 1..Len(lane) : Says(lane[m], "result", c)
      BY <3>1 DEF Coming, Range, Says
    <3>3. m = i
      <4> SUFFICES ASSUME m # i PROVE FALSE
        OBVIOUS
      <4>1. PICK k \in 1..Len(lane') : lane'[k] = lane[m]
        <5>1. PICK p \in [1..Len(lane') -> 1..Len(lane)] :
                /\ \A k \in 1..Len(lane') : p[k] # i /\ lane'[k] = lane[p[k]]
                /\ \A j, k \in 1..Len(lane') : p[j] = p[k] => j = k
                /\ \A n \in 1..Len(lane) : n # i => \E k \in 1..Len(lane') : p[k] = n
                /\ \A k \in 1..Len(lane') : \A n \in 1..(p[k] - 1) :
                     /\ n \in 1..Len(lane)
                     /\ n # i => \E j \in 1..(k - 1) : j \in 1..Len(lane') /\ p[j] = n
          BY <1>1, <3>1, StaysInLane DEF Delivery
        <5> QED
          BY <5>1
      <4>2. lane' \in Seq(Frames)
        BY <3>1, Removed
      <4>3. lane'[k] \in Range(lane') /\ lane'[k].kind = "result" /\ lane'[k].of = c
        BY <3>2, <4>1, <4>2 DEF Range, Says
      <4> QED
        BY <4>3 DEF Coming
    <3>4. lane[i].kind = "result" /\ lane[i].of = c /\ c \in Calls
      BY <3>1, <3>2, <3>3, FrameFields DEF Says
    <3>5. i = 1
      <4> SUFFICES ASSUME i # 1 PROVE FALSE
        OBVIOUS
      <4>1. 1 \in 1..(i - 1)
        BY <3>1
      <4>2. Overtakes(lane[i], lane[1])
        BY <2>2, <4>1 DEF Deliver
      <4> QED
        BY <3>4, <4>2 DEF Overtakes, SystemFrames
    <3>6. context[c] # "absent"
      <4>1. \/ context[c] # "absent"
            \/ \E j \in 1..(i - 1) : Says(lane[j], "in progress", c)
        BY <1>1, <3>4 DEF Delivery, Lane, ResultsFollow, Says
      <4> QED
        BY <3>5, <4>1
    <3>7. context[c] \in {"pending", "result", "cancelled"}
      BY <1>1, <3>4, <3>6 DEF Delivery, TypeOK
    <3>8. CASE context[c] = "pending"
      BY <1>1, <3>1, <3>4, <3>8, Handled DEF Delivery
    <3>9. CASE context[c] # "pending"
      <4>1. \/ context'[c] = context[c]
            \/ context[c] = "pending"
        BY <1>1, <3>1, <3>4, Handled DEF Delivery
      <4> QED
        BY <3>7, <3>9, <4>1
    <3> QED
      BY <3>8, <3>9
  <2> QED
    BY <2>1, <2>2
<1>2. Delivery /\ [Next]_vars => Delivery'
  BY DeliveryStep
<1>3. Delivery /\ [Next]_vars => [Recorded]_vars
  BY <1>1
<1>4. QED
  BY <1>2, <1>3, InitDelivery, PTL DEF Spec, ResultRecorded
-----------------------------------------------------------------------------
(***************************************************************************)
(* That no call is left without an outcome: the part of OutcomeComes that  *)
(* is no matter of fairness                                                *)
(***************************************************************************)
Cancels(c) == \E by \in {"sweep", "timeout"} : <<c, by>> \in cancelling

\* A settled call that was not announced has somebody who is about to: its callback, its
\* deadline, or who cancels it; a task that is cancelled has who cancels it, and goes nowhere
\* else; nothing happens to a call before its task begins.
Minded(c) ==
  /\ c \in settled /\ announced[c] = <<>> =>
       task[c] = "closing" \/ timer[c] = "expired" \/ Cancels(c)
  /\ task[c] = "cancelled" => Cancels(c)
  /\ Cancels(c) => task[c] \in {"cancelled", "over"}
  /\ task[c] = "reported" => announced[c] # <<>>
  /\ task[c] \in Early => timer[c] = "off" /\ c \notin settled

AllMinded == \A c \in Calls : Minded(c)

\* A call that is announced was announced; nothing is announced of another.
LEMMA AnnouncedFirst ==
  ASSUME Types, NEW c \in Calls, NEW kind \in Kinds, NEW run, Announce(c, kind, run)
  PROVE  announced'[c] # <<>> /\ \A d \in Calls \ {c} : announced'[d] = announced[d]
<1>1. /\ announced'[c] = Append(announced[c], kind) /\ announced[c] \in Seq(Kinds)
      /\ \A d \in Calls \ {c} : announced'[d] = announced[d]
  BY Announced DEF Types
<1>2. Len(announced'[c]) = Len(announced[c]) + 1 /\ Len(announced[c]) \in Nat
  BY <1>1
<1>3. announced'[c] # <<>>
  BY <1>2
<1> QED
  BY <1>1, <1>3

\* Whatever is about to end keeps its announcement; a step of one call leaves the others alone.
LEMMA MindedStep ==
  ASSUME IInv, Service, TypeOK, AllMinded, [Next]_vars
  PROVE  AllMinded'
<1> USE DEF AllMinded, Minded, Cancels, IInv, Settling, Types, Early
<1>1. ASSUME NEW b \in Batches, StartBatch(b) PROVE AllMinded'
  <2>1. b = batches + 1 /\ batches \in Nat
    BY <1>1 DEF StartBatch, TypeOK
  <2>2. \A c \in Calls : Batch[c] = b => task[c] = "no"
    BY <2>1 DEF Service, Ahead
  <2> QED
    BY <1>1, <2>2 DEF StartBatch
<1>2. ASSUME RunNext PROVE AllMinded'
  <2>1. queue # <<>> /\ queue \in Seq(Calls)
    BY <1>2 DEF RunNext, TypeOK
  <2>2. Head(queue) \in Calls /\ Head(queue) = queue[1] /\ 1 \in 1..Len(queue)
    BY <2>1
  <2>3. task[Head(queue)] = "queued"
    BY <2>2 DEF Service, Waiting
  <2>4. /\ task' = [task EXCEPT ![Head(queue)] = "created"]
        /\ UNCHANGED <<timer, settled, cancelling, announced>>
    BY <1>2 DEF RunNext
  <2>5. \A d \in Calls : task'[d] = IF d = Head(queue) THEN "created" ELSE task[d]
    BY <2>4
  <2> QED
    BY <2>2, <2>3, <2>4, <2>5
<1>3. ASSUME NEW c \in Calls, Begin(c) PROVE AllMinded'
  BY <1>3 DEF Begin, Broadcast
<1>4. ASSUME NEW c \in Calls, NEW kind \in Kinds, NEW run, Announce(c, kind, run)
      PROVE  announced'[c] # <<>> /\ \A d \in Calls \ {c} : announced'[d] = announced[d]
  BY <1>4, AnnouncedFirst
<1>5. ASSUME NEW c \in Calls, Closed(c) PROVE AllMinded'
  <2>1. Announce(c, "result", FALSE)
    BY <1>5 DEF Closed
  <2>2. announced'[c] # <<>> /\ \A d \in Calls \ {c} : announced'[d] = announced[d]
    BY <2>1, <1>4 DEF Kinds
  <2> QED
    BY <1>5, <2>2 DEF Closed, CancelSettles
<1>6. ASSUME NEW c \in Calls, Return(c) PROVE AllMinded'
  BY <1>6 DEF Return, CancelSettles
<1>7. ASSUME NEW c \in Calls, Unwind(c) PROVE AllMinded'
  BY <1>7 DEF Unwind
<1>8. ASSUME NEW c \in Calls, Untrack(c) PROVE AllMinded'
  BY <1>8 DEF Untrack
<1>9. ASSUME NEW c \in Calls, Expire(c) PROVE AllMinded'
  BY <1>9 DEF Expire, AtDeadline
<1>10. ASSUME NEW c \in Calls, NEW by \in {"sweep", "timeout"}, CancelTask(c, by), c \in tracked,
              announced' = announced, timer' \in {timer, [timer EXCEPT ![c] = "off"]}
       PROVE  AllMinded'
  BY <1>10 DEF CancelTask
<1>11. ASSUME NEW c \in Calls, TimeOut(c) PROVE AllMinded'
  <2>1. CASE c \in tracked
    BY <1>10, <1>11, <2>1 DEF TimeOut
  <2>2. CASE c \notin tracked
    <3>1. Announce(c, "cancel", TRUE)
      BY <1>11, <2>2 DEF TimeOut, TellTimeOut
    <3>2. announced'[c] # <<>> /\ \A d \in Calls \ {c} : announced'[d] = announced[d]
      BY <3>1, <1>4 DEF Kinds
    <3> QED
      BY <1>11, <2>2, <3>2 DEF TimeOut
  <2> QED
    BY <2>1, <2>2
<1>12. ASSUME NEW c \in Calls, Visit(c) PROVE AllMinded'
  <2>1. CASE c \in tracked
    BY <1>10, <1>12, <2>1 DEF Visit
  <2>2. CASE c \notin tracked
    BY <1>12, <2>2 DEF Visit
  <2> QED
    BY <2>1, <2>2
<1>13. ASSUME NEW c \in Calls, NEW by \in {"sweep", "timeout"}, Cancelled(c, by) PROVE AllMinded'
  <2>1. Announce(c, "cancel", by = "timeout")
    BY <1>13 DEF Cancelled
  <2>2. announced'[c] # <<>> /\ \A d \in Calls \ {c} : announced'[d] = announced[d]
    BY <2>1, <1>4 DEF Kinds
  <2> QED
    BY <1>13, <2>2 DEF Cancelled
<1>14. ASSUME NEW c \in Calls, Report(c) PROVE AllMinded'
  <2>1. CASE timer[c] = "armed"
    BY <1>14, <2>1 DEF Report, CancelSettles
  <2>2. CASE timer[c] # "armed"
    <3>1. Announce(c, "result", FALSE)
      BY <1>14, <2>2 DEF Report
    <3>2. announced'[c] # <<>> /\ \A d \in Calls \ {c} : announced'[d] = announced[d]
      BY <3>1, <1>4 DEF Kinds
    <3> QED
      BY <1>14, <2>2, <3>2 DEF Report, CancelSettles
  <2> QED
    BY <2>1, <2>2
<1>15. ASSUME UNCHANGED <<task, timer, settled, cancelling, announced>> PROVE AllMinded'
  BY <1>15
<1>16. ASSUME \/ \E i \in 1..Len(lane) : Deliver(i)
              \/ BotStarts \/ BotStops \/ UserStarts \/ UserStops \/ UserInference
              \/ UNCHANGED vars
       PROVE  UNCHANGED <<task, timer, settled, cancelling, announced>>
  BY <1>16 DEF Deliver, BotStarts, BotStops, UserStarts, UserStops, UserInference, vars, service
<1> QED
  BY <1>1, <1>2, <1>3, <1>5, <1>6, <1>7, <1>8, <1>9, <1>11, <1>12, <1>13, <1>14, <1>15, <1>16
  DEF Next, EventLoop

\* The sequential runner has every call that waits for it.
InQueue(c) == \E i \in 1..Len(queue) : queue[i] = c
Queued == \A c \in Calls : task[c] = "queued" => InQueue(c)

\* The sequential runner is given every call of a batch.
LEMMA RunnerGivenAll ==
  ASSUME NEW b, NEW c \in Members(b)
  PROVE  LET s == SetToSeq(Members(b)) IN \E i \in 1..Len(s) : s[i] = c
<1> DEFINE M == Members(b)
           n == Cardinality(M)
           s == SetToSeq(M)
<1>1. M \subseteq Calls /\ IsFiniteSet(M)
  BY CallsAssumption, FS_Subset DEF Members
<1> HIDE DEF M
<1>2. n \in Nat /\ ExistsBijection(1..n, M)
  BY <1>1, FS_CardinalityType
<1>3. PICK f : f \in Bijection(1..n, M)
  BY <1>2 DEF ExistsBijection
<1>4. f \in [1..n -> M] /\ IsInjective(f)
  BY <1>3 DEF Bijection, Injection
<1>5. s = CHOOSE g \in [1..n -> M] : IsInjective(g)
  BY DEF SetToSeq
<1> HIDE DEF s
<1>6. s \in [1..n -> M] /\ IsInjective(s)
  BY <1>4, <1>5
<1>7. s \in Injection(1..n, M)
  BY <1>6 DEF Injection
<1>8. Cardinality(1..n) = n
  BY <1>2, FS_Interval
<1>9. s \in Surjection(1..n, M)
  BY <1>1, <1>7, <1>8, FS_Injection
<1>10. PICK i \in 1..n : s[i] = c
  <2>1. c \in M
    BY DEF M
  <2> QED
    BY <1>9, <2>1 DEF Surjection
<1>11. Len(s) = n
  BY <1>2, <1>6
<1> QED
  BY <1>10, <1>11 DEF s, M

\* It loses none: a call leaves its queue for a task.
LEMMA QueuedStep ==
  ASSUME Delivery, Queued, [Next]_vars
  PROVE  Queued'
<1> USE DEF Delivery
<1>1. ASSUME NEW b \in Batches, StartBatch(b) PROVE Queued'
  <2> DEFINE s == SetToSeq(Members(b))
  <2>1. CASE mode.parallel
    <3>1. \A c \in Calls : task'[c] \in {task[c], "created"} /\ queue' = queue
      BY <1>1, <2>1 DEF StartBatch
    <3> QED
      BY <3>1 DEF Queued, InQueue
  <2>2. CASE ~mode.parallel
    <3>1. \A c \in Calls : task'[c] # "queued" \/ task[c] = "queued" \/ c \in Members(b)
      BY <1>1, <2>2 DEF StartBatch, Members
    <3>2. queue' = queue \o s /\ queue \in Seq(Calls) /\ s \in Seq(Calls)
      BY <1>1, <2>2, RunnerGiven DEF StartBatch, TypeOK
    <3>3. \A c \in Members(b) : \E i \in 1..Len(s) : s[i] = c
      BY RunnerGivenAll
    <3> HIDE DEF s
    <3>4. /\ Len(queue) \in Nat /\ Len(s) \in Nat /\ Len(queue') = Len(queue) + Len(s)
          /\ \A i \in 1..Len(queue) : i \in 1..Len(queue') /\ queue'[i] = queue[i]
          /\ \A i \in 1..Len(s) : /\ Len(queue) + i \in 1..Len(queue')
                                  /\ queue'[Len(queue) + i] = s[i]
      BY <3>2
    <3>5. \A c \in Calls : InQueue(c) \/ c \in Members(b) => InQueue(c)'
      BY <3>3, <3>4 DEF InQueue
    <3> QED
      BY <3>1, <3>5 DEF Queued
  <2> QED
    BY <2>1, <2>2
<1>2. ASSUME RunNext PROVE Queued'
  <2>1. /\ queue # <<>> /\ queue \in Seq(Calls) /\ queue' = Tail(queue)
        /\ task' = [task EXCEPT ![Head(queue)] = "created"]
    BY <1>2 DEF RunNext, TypeOK
  <2>2. /\ Len(queue) \in Nat \ {0} /\ Head(queue) = queue[1] /\ Head(queue) \in Calls
        /\ Len(queue') = Len(queue) - 1
        /\ \A i \in 1..Len(queue') : queue'[i] = queue[i + 1]
    BY <2>1
  <2> SUFFICES ASSUME NEW c \in Calls, task'[c] = "queued"
               PROVE  \E i \in 1..Len(queue') : queue'[i] = c
    BY DEF Queued, InQueue
  <2>3. c # Head(queue) /\ task[c] = "queued"
    BY <2>1, <2>2 DEF TypeOK
  <2>4. PICK i \in 1..Len(queue) : queue[i] = c
    BY <2>3 DEF Queued, InQueue
  <2>5. i # 1 /\ i - 1 \in 1..Len(queue') /\ (i - 1) + 1 = i
    BY <2>2, <2>3, <2>4
  <2>6. queue'[i - 1] = c
    BY <2>2, <2>4, <2>5
  <2> QED
    BY <2>5, <2>6
<1>3. ASSUME queue' = queue, \A c \in Calls : task'[c] = "queued" => task[c] = "queued"
      PROVE  Queued'
  BY <1>3 DEF Queued, InQueue
<1>4. ASSUME NEW c \in Calls,
             \/ Begin(c) \/ Closed(c) \/ Unwind(c) \/ Untrack(c) \/ Expire(c) \/ TimeOut(c)
             \/ Visit(c) \/ Report(c) \/ Return(c)
             \/ \E by \in {"sweep", "timeout"} : Cancelled(c, by)
      PROVE  Queued'
  <2>1. queue' = queue /\ \A d \in Calls : task'[d] = "queued" => task[d] = "queued"
    BY <1>4 DEF Begin, Closed, Unwind, Untrack, Expire, TimeOut, Visit, Report, Return,
       Cancelled, CancelTask, TypeOK
  <2> QED
    BY <1>3, <2>1
<1>5. ASSUME \/ \E i \in 1..Len(lane) : Deliver(i)
             \/ BotStarts \/ BotStops \/ UserStarts \/ UserStops \/ UserInference
             \/ UNCHANGED vars
      PROVE  Queued'
  <2>1. UNCHANGED <<queue, task>>
    BY <1>5 DEF Deliver, BotStarts, BotStops, UserStarts, UserStops, UserInference, vars, service
  <2> QED
    BY <1>3, <2>1
<1> QED
  BY <1>1, <1>2, <1>4, <1>5 DEF Next, EventLoop

\* A call that was started and of which nothing was announced is always in somebody's care: it
\* is queued, or can begin, or may still report, or its callback, its deadline or an
\* interruption has settled it and is about to announce it. No order of the handler, its
\* timeout task, an interruption and the end of its task leaves it settled and forgotten
\* (_run_function_call, _timeout_function_call, _cancel_function_call_tasks).
NeverForgotten ==
  \A c \in Calls : task[c] # "no" /\ announced[c] = <<>> =>
    \/ task[c] = "queued" /\ InQueue(c)
    \/ task[c] = "created"
    \/ task[c] \in {"running", "over"} /\ c \notin settled
    \/ task[c] = "closing" \/ timer[c] = "expired"
    \/ task[c] \in {"cancelled", "over"} /\ Cancels(c)

THEOREM CallNeverForgotten == Spec => []NeverForgotten
<1> DEFINE All == IInv /\ Delivery /\ AllMinded /\ Queued
<1>1. Init => All
  <2>1. Init => AllMinded /\ Queued
    BY DEF Init, AllMinded, Minded, Cancels, Queued
  <2> QED
    BY <2>1, InitInv, InitDelivery
<1>2. All /\ [Next]_vars => All'
  BY SettlingStep, OutcomeStep, DeliveryStep, MindedStep, QueuedStep DEF IInv, Delivery
<1>3. All => NeverForgotten
  BY DEF NeverForgotten, IInv, Settling, Types, AllMinded, Minded, Queued
<1> HIDE DEF All
<1>4. QED
  BY <1>1, <1>2, <1>3, PTL DEF Spec
-----------------------------------------------------------------------------
(***************************************************************************)
(* That an inference which is put off is not forgotten: the part of        *)
(* LLMHears that is no matter of fairness. It speaks of the time before    *)
(* the user's first turn, as LLMHears does.                                *)
(***************************************************************************)
Outcome(f, c) == Says(f, "result", c) \/ Says(f, "cancel", c)
Final(c) == context[c] \in {"result", "cancelled"}

\* The user says nothing and interrupts nothing; only deadlines cancel calls.
Silent ==
  /\ turn = "quiet" /\ ~userSpeaking /\ sweep = {}
  /\ \A c \in Calls : <<c, "sweep">> \notin cancelling
  /\ \A i \in 1..Len(lane) : /\ lane[i].kind \in {"in progress", "result", "cancel"}
                             /\ lane[i].kind = "cancel" => lane[i].run = TRUE

\* A call that is cancelled, or has its deadline to come, was not announced.
Once ==
  \A c \in Calls : /\ Cancels(c) => timer[c] = "off" /\ announced[c] = <<>>
                   /\ timer[c] # "off" => announced[c] = <<>>

\* The lane has one outcome of a call at most, and none once the context has it.
OutcomesOnce ==
  \A c \in Calls :
    /\ \A i \in 1..Len(lane) : Outcome(lane[i], c) =>
         /\ announced[c] # <<>> /\ ~Final(c)
         /\ \A j \in 1..Len(lane) : Outcome(lane[j], c) => i = j
    /\ Final(c) => announced[c] # <<>>

\* The inference that is to see what no inference has seen is still to come.
Owed ==
  unheard # {} => \/ \E c \in unheard : SiblingRunning(c)
                  \/ botSpeaking /\ pushLater
                  \/ \E i \in 1..Len(lane) : lane[i].kind = "result"

Quiet == turns = 0 => Silent /\ Once /\ OutcomesOnce /\ Owed

\* Initially there is nothing to hear.
LEMMA InitQuiet == Init => Quiet
BY DEF Init, Quiet, Silent, Once, OutcomesOnce, Owed, Cancels, Final

\* A call is announced by the one who ends its deadline or its cancellation.
LEMMA OnceStep ==
  ASSUME IInv, AllMinded, Silent, Once, [Next]_vars, ~UserStarts
  PROVE  Once'
<1> USE DEF Once, Cancels, IInv, Settling, Types
<1>1. ASSUME \/ RunNext \/ \E b \in Batches : StartBatch(b)
             \/ \E c \in Calls : Untrack(c)
             \/ \E i \in 1..Len(lane) : Deliver(i)
             \/ BotStarts \/ BotStops \/ UserStops \/ UserInference
             \/ UNCHANGED vars
      PROVE  Once'
  BY <1>1 DEF RunNext, StartBatch, Untrack, Deliver, BotStarts, BotStops, UserStops,
     UserInference, vars, service
<1>2. ASSUME NEW c \in Calls, Begin(c) PROVE Once'
  <2>1. announced[c] = <<>> /\ ~Cancels(c)
    BY <1>2 DEF Begin, AllMinded, Minded, Early, Unsettled
  <2> QED
    BY <1>2, <2>1 DEF Begin
<1>3. ASSUME NEW c \in Calls, Return(c) \/ Unwind(c) PROVE Once'
  BY <1>3 DEF Return, Unwind
<1>4. ASSUME NEW c \in Calls, Expire(c) PROVE Once'
  BY <1>4 DEF Expire
<1>5. ASSUME NEW c \in Calls, Closed(c) PROVE Once'
  <2>1. Announce(c, "result", FALSE)
    BY <1>5 DEF Closed
  <2>2. \A d \in Calls \ {c} : announced'[d] = announced[d]
    BY <2>1, Announced DEF Kinds
  <2>3. timer[c] = "off" /\ ~Cancels(c)
    BY <1>5 DEF Closed, ClosingIsFirst, CancelSettles
  <2> QED
    BY <1>5, <2>2, <2>3 DEF Closed
<1>6. ASSUME NEW c \in Calls, Report(c) PROVE Once'
  <2>1. ~Cancels(c)
    BY <1>6 DEF Report, CancelSettles
  <2>2. \A d \in Calls \ {c} : announced'[d] = announced[d]
    <3>1. Announce(c, "result", FALSE) \/ UNCHANGED announced
      BY <1>6 DEF Report
    <3> QED
      BY <3>1, Announced DEF Kinds
  <2> QED
    BY <1>6, <2>1, <2>2 DEF Report
<1>7. ASSUME NEW c \in Calls, TimeOut(c) PROVE Once'
  <2>1. timer[c] = "expired" /\ timer' = [timer EXCEPT ![c] = "off"]
    BY <1>7 DEF TimeOut
  <2>2. announced[c] = <<>> /\ ~Cancels(c)
    BY <2>1
  <2>3. CASE c \in tracked
    <3>1. cancelling' = cancelling \cup {<<c, "timeout">>} /\ UNCHANGED announced
      BY <1>7, <2>3 DEF TimeOut, CancelTask
    <3>2. \A d \in Calls \ {c} : Cancels(d)' <=> Cancels(d)
      BY <3>1
    <3>3. timer'[c] = "off" /\ \A d \in Calls \ {c} : timer'[d] = timer[d]
      BY <2>1
    <3> HIDE DEF Cancels
    <3> QED
      BY <2>2, <3>1, <3>2, <3>3
  <2>4. CASE c \notin tracked
    <3>1. Announce(c, "cancel", TRUE) /\ UNCHANGED cancelling
      BY <1>7, <2>4 DEF TimeOut, TellTimeOut
    <3>2. \A d \in Calls \ {c} : announced'[d] = announced[d]
      BY <3>1, Announced DEF Kinds
    <3> QED
      BY <2>1, <2>2, <3>1, <3>2
  <2> QED
    BY <2>3, <2>4
<1>8. ASSUME NEW c \in Calls, NEW by \in {"sweep", "timeout"}, Cancelled(c, by) PROVE Once'
  <2>1. Announce(c, "cancel", by = "timeout") /\ cancelling' = cancelling \ {<<c, by>>}
        /\ UNCHANGED timer
    BY <1>8 DEF Cancelled
  <2>2. \A d \in Calls \ {c} : announced'[d] = announced[d]
    BY <2>1, Announced DEF Kinds
  <2>3. timer[c] = "off" /\ ~Cancels(c)'
    BY <1>8, <2>1 DEF Cancelled, Silent
  <2> QED
    BY <2>1, <2>2, <2>3
<1>9. ASSUME NEW c \in Calls, Visit(c) PROVE Once'
  BY <1>9 DEF Visit, Silent
<1> QED
  BY <1>1, <1>2, <1>3, <1>4, <1>5, <1>6, <1>7, <1>8, <1>9 DEF Next, EventLoop

\* What a silent step sends is what a call that begins says, or the one outcome of a call.
Carries(f) ==
  /\ f.kind \in {"in progress", "result", "cancel"} /\ (f.kind = "cancel" => f.run = TRUE)
  /\ \A c \in Calls : Outcome(f, c) => announced[c] = <<>> /\ announced'[c] # <<>>

SendsOnce ==
  /\ lane' = lane \/ \E f \in Frames : lane' = Append(lane, f) /\ Carries(f)
  /\ \A c \in Calls : announced[c] # <<>> => announced'[c] # <<>>

\* Every step but a delivery sends at most that.
LEMMA Sending ==
  ASSUME IInv, TypeOK, Silent, Once, [Next]_vars, ~UserStarts,
         ~\E i \in 1..Len(lane) : Deliver(i)
  PROVE  SendsOnce
<1>1. ASSUME NEW c \in Calls, NEW kind \in Kinds, NEW run \in BOOLEAN, Announce(c, kind, run),
             kind = "cancel" => run = TRUE, announced[c] = <<>>
      PROVE  SendsOnce
  <2>1. PICK g \in Frames :
          lane' = Append(lane, g) /\ g.kind = kind /\ g.of = c /\ g.run = run
    <3>1. [kind |-> kind, of |-> c, run |-> run] \in Frames
      BY DEF Frames, Kinds
    <3> QED
      BY <1>1, <3>1 DEF Announce, Broadcast
  <2>2. announced'[c] # <<>> /\ \A d \in Calls \ {c} : announced'[d] = announced[d]
    BY <1>1, AnnouncedFirst DEF IInv, Settling
  <2>3. Carries(g)
    BY <1>1, <2>1, <2>2 DEF Carries, Outcome, Says, Kinds
  <2> QED
    BY <1>1, <2>1, <2>2, <2>3 DEF SendsOnce
<1>2. ASSUME UNCHANGED <<lane, announced>> PROVE SendsOnce
  BY <1>2 DEF SendsOnce
<1>3. ASSUME NEW c \in Calls, Begin(c) PROVE SendsOnce
  <2> DEFINE f == [kind |-> "in progress", of |-> c, run |-> FALSE]
  <2>1. f \in Frames /\ lane' = Append(lane, f) /\ UNCHANGED announced
    BY <1>3 DEF Frames, Begin, Broadcast
  <2>2. f.kind = "in progress" /\ \A d \in Calls : ~Outcome(f, d)
    BY DEF Outcome, Says
  <2> HIDE DEF f
  <2> QED
    BY <2>1, <2>2 DEF SendsOnce, Carries
<1>4. ASSUME NEW c \in Calls, Closed(c) PROVE SendsOnce
  <2>1. Announce(c, "result", FALSE) /\ announced[c] = <<>>
    BY <1>4 DEF Closed, IInv, Settling, ClosingIsFirst
  <2> QED
    BY <1>1, <2>1 DEF Kinds
<1>5. ASSUME NEW c \in Calls, Report(c) PROVE SendsOnce
  <2>1. announced[c] = <<>>
    BY <1>5 DEF Report, IInv, Settling, Unsettled
  <2>2. UNCHANGED <<lane, announced>> \/ Announce(c, "result", FALSE)
    BY <1>5 DEF Report
  <2> QED
    BY <1>1, <1>2, <2>1, <2>2 DEF Kinds
<1>6. ASSUME NEW c \in Calls, TimeOut(c) PROVE SendsOnce
  <2>1. announced[c] = <<>>
    BY <1>6 DEF TimeOut, Once
  <2>2. UNCHANGED <<lane, announced>> \/ Announce(c, "cancel", TRUE)
    BY <1>6 DEF TimeOut, TellTimeOut
  <2> QED
    BY <1>1, <1>2, <2>1, <2>2 DEF Kinds
<1>7. ASSUME NEW c \in Calls, NEW by \in {"sweep", "timeout"}, Cancelled(c, by) PROVE SendsOnce
  <2>1. by = "timeout" /\ announced[c] = <<>>
    BY <1>7 DEF Cancelled, Silent, Once, Cancels
  <2>2. Announce(c, "cancel", TRUE)
    BY <1>7, <2>1 DEF Cancelled
  <2> QED
    BY <1>1, <2>1, <2>2 DEF Kinds
<1>8. ASSUME \/ RunNext \/ \E b \in Batches : StartBatch(b)
             \/ \E c \in Calls : Untrack(c) \/ Return(c) \/ Unwind(c) \/ Expire(c)
             \/ BotStarts \/ BotStops \/ UserInference \/ UNCHANGED vars
      PROVE  UNCHANGED <<lane, announced>>
  BY <1>8 DEF RunNext, StartBatch, Untrack, Return, Unwind, Expire, BotStarts, BotStops,
     UserInference, vars, service
<1>9. ~UserStops /\ \A c \in Calls : ~Visit(c)
  BY DEF Silent, UserStops, Visit
<1> QED
  BY <1>2, <1>3, <1>4, <1>5, <1>6, <1>7, <1>8, <1>9 DEF Next, EventLoop

\* What else such a step does: it starts no interruption, and makes the LLM run or leaves the
\* aggregator as it is, but for a batch that begins and for the bot.
LEMMA Undelivered ==
  ASSUME TypeOK, Service, Lane, WaitsAlike, Silent, [Next]_vars, ~UserStarts,
         ~\E i \in 1..Len(lane) : Deliver(i)
  PROVE  /\ UNCHANGED <<mode, context, turn, userSpeaking, sweep>>
         /\ \A c \in Calls : <<c, "sweep">> \notin cancelling'
         /\ \A c \in Calls : progress[c] = "running" => progress'[c] = "running"
         /\ \/ unheard' = {}
            \/ /\ unheard' = unheard
               /\ botSpeaking /\ pushLater => botSpeaking' /\ pushLater'
<1>1. ASSUME NEW b \in Batches, StartBatch(b)
      PROVE  \A c \in Calls : progress[c] = "running" => progress'[c] = "running"
  <2>1. \A c \in Calls : Batch[c] = b => progress[c] # "running"
    <3>1. b = batches + 1 /\ batches \in Nat
      BY <1>1 DEF StartBatch, TypeOK
    <3>2. \A c \in Calls : Batch[c] = b => task[c] = "no"
      BY <3>1 DEF Service, Ahead
    <3> QED
      BY <3>2 DEF Lane, Untold, Early, WaitsAlike
  <2> QED
    BY <1>1, <2>1 DEF StartBatch
<1>2. ~UserStops /\ ~UserInference /\ \A c \in Calls : ~Visit(c)
  BY DEF Silent, UserStops, UserInference, Visit
<1>3. ASSUME NEW b \in Batches, StartBatch(b)
      PROVE  /\ UNCHANGED <<mode, context, turn, userSpeaking, sweep, cancelling>>
             /\ UNCHANGED <<unheard, botSpeaking, pushLater>>
  BY <1>3 DEF StartBatch, user
<1>4. ASSUME \/ RunNext
             \/ \E c \in Calls : Begin(c) \/ Closed(c) \/ Report(c) \/ Return(c) \/ Unwind(c)
                                 \/ Untrack(c) \/ Expire(c) \/ TimeOut(c)
             \/ \E c \in Calls, by \in {"sweep", "timeout"} : Cancelled(c, by)
             \/ UNCHANGED vars
      PROVE  /\ UNCHANGED <<mode, context, turn, userSpeaking, sweep, progress>>
             /\ UNCHANGED <<unheard, botSpeaking, pushLater>>
             /\ \A c \in Calls : <<c, "sweep">> \notin cancelling'
  <2>1. /\ UNCHANGED <<mode, context, turn, userSpeaking, sweep, progress>>
        /\ UNCHANGED <<unheard, botSpeaking, pushLater>>
    BY <1>4 DEF RunNext, Begin, Closed, Report, Return, Unwind, Untrack, Expire, TimeOut,
       Cancelled, vars, service, aggregator, user
  <2>2. \/ cancelling' \subseteq cancelling
        \/ \E c \in Calls : cancelling' = cancelling \cup {<<c, "timeout">>}
    BY <1>4 DEF RunNext, Begin, Closed, Report, Return, Unwind, Untrack, Expire, TimeOut,
       Cancelled, CancelTask, vars, service
  <2>3. \A c \in Calls : <<c, "sweep">> \notin cancelling'
    <3>1. CASE cancelling' \subseteq cancelling
      BY <3>1 DEF Silent
    <3>2. ASSUME NEW d \in Calls, cancelling' = cancelling \cup {<<d, "timeout">>}
          PROVE  \A c \in Calls : <<c, "sweep">> \notin cancelling'
      BY <3>2 DEF Silent
    <3> QED
      BY <2>2, <3>1, <3>2
  <2> QED
    BY <2>1, <2>3
<1>5. ASSUME BotStarts \/ BotStops
      PROVE  /\ UNCHANGED <<mode, context, turn, userSpeaking, sweep, progress, cancelling>>
             /\ \/ unheard' = {}
                \/ /\ unheard' = unheard
                   /\ botSpeaking /\ pushLater => botSpeaking' /\ pushLater'
  BY <1>5 DEF BotStarts, BotStops, Push, service, user, Silent
<1>6. \/ \E b \in Batches : StartBatch(b)
      \/ RunNext
      \/ \E c \in Calls : Begin(c) \/ Closed(c) \/ Report(c) \/ Return(c) \/ Unwind(c)
                          \/ Untrack(c) \/ Expire(c) \/ TimeOut(c)
      \/ \E c \in Calls, by \in {"sweep", "timeout"} : Cancelled(c, by)
      \/ BotStarts \/ BotStops \/ UNCHANGED vars
  BY <1>2 DEF Next, EventLoop
<1>7. UNCHANGED <<mode, context, turn, userSpeaking, sweep>>
  BY <1>3, <1>4, <1>5, <1>6
<1>8. \A c \in Calls : <<c, "sweep">> \notin cancelling'
  BY <1>3, <1>4, <1>5, <1>6 DEF Silent
<1>9. \A c \in Calls : progress[c] = "running" => progress'[c] = "running"
  BY <1>1, <1>4, <1>5, <1>6
<1>10. \/ unheard' = {}
       \/ unheard' = unheard /\ (botSpeaking /\ pushLater => botSpeaking' /\ pushLater')
  BY <1>3, <1>4, <1>5, <1>6
<1> QED
  BY <1>7, <1>8, <1>9, <1>10
\* The lane keeps one outcome of a call when a frame is added.
LEMMA SentOnce ==
  ASSUME TypeOK, OutcomesOnce, SendsOnce, UNCHANGED context
  PROVE  OutcomesOnce'
<1>1. \A c \in Calls : /\ announced[c] # <<>> => announced'[c] # <<>>
                       /\ Final(c)' <=> Final(c)
  BY DEF SendsOnce, Final
<1>2. CASE lane' = lane
  BY <1>1, <1>2 DEF OutcomesOnce
<1>3. ASSUME NEW g \in Frames, lane' = Append(lane, g), Carries(g) PROVE OutcomesOnce'
  <2>1. /\ Len(lane) \in Nat /\ Len(lane') = Len(lane) + 1 /\ lane'[Len(lane) + 1] = g
        /\ \A i \in 1..Len(lane) : lane'[i] = lane[i]
    <3>1. lane \in Seq(Frames)
      BY DEF TypeOK
    <3> QED
      BY <1>3, <3>1
  <2> SUFFICES ASSUME NEW c \in Calls
               PROVE  /\ \A i \in 1..Len(lane') : Outcome(lane'[i], c) =>
                           /\ announced'[c] # <<>> /\ ~Final(c)'
                           /\ \A j \in 1..Len(lane') : Outcome(lane'[j], c) => i = j
                      /\ Final(c)' => announced'[c] # <<>>
    BY DEF OutcomesOnce
  <2>2. CASE ~Outcome(g, c)
    <3>1. \A i \in 1..Len(lane') : Outcome(lane'[i], c) => i \in 1..Len(lane) /\ lane'[i] = lane[i]
      BY <2>1, <2>2
    <3> QED
      BY <1>1, <3>1 DEF OutcomesOnce
  <2>3. CASE Outcome(g, c)
    <3>1. announced[c] = <<>> /\ announced'[c] # <<>>
      BY <1>3, <2>3 DEF Carries
    <3>2. ~Final(c) /\ \A i \in 1..Len(lane) : ~Outcome(lane[i], c)
      BY <3>1 DEF OutcomesOnce
    <3>3. \A i \in 1..Len(lane') : Outcome(lane'[i], c) => i = Len(lane) + 1
      BY <2>1, <3>2
    <3> QED
      BY <1>1, <3>1, <3>2, <3>3
  <2> QED
    BY <2>2, <2>3
<1> QED
  BY <1>2, <1>3 DEF SendsOnce

\* A step that delivers nothing.
LEMMA SilentStep ==
  ASSUME IInv, Delivery, Silent, Once, OutcomesOnce, Owed, [Next]_vars, ~UserStarts,
         ~\E i \in 1..Len(lane) : Deliver(i)
  PROVE  Silent' /\ OutcomesOnce' /\ Owed'
<1>1. SendsOnce
  BY Sending DEF Delivery
<1>2. /\ UNCHANGED <<mode, context, turn, userSpeaking, sweep>>
      /\ \A c \in Calls : <<c, "sweep">> \notin cancelling'
      /\ \A c \in Calls : progress[c] = "running" => progress'[c] = "running"
      /\ \/ unheard' = {}
         \/ /\ unheard' = unheard
            /\ botSpeaking /\ pushLater => botSpeaking' /\ pushLater'
  BY Undelivered DEF Delivery
<1>3. OutcomesOnce'
  BY <1>1, <1>2, SentOnce DEF Delivery
<1>4. /\ \A i \in 1..Len(lane) : i \in 1..Len(lane') /\ lane'[i] = lane[i]
      /\ \A i \in 1..Len(lane') : i \notin 1..Len(lane) =>
           /\ lane'[i].kind \in {"in progress", "result", "cancel"}
           /\ lane'[i].kind = "cancel" => lane'[i].run = TRUE
  <2>1. lane \in Seq(Frames)
    BY DEF Delivery, TypeOK
  <2>2. ASSUME NEW g \in Frames, lane' = Append(lane, g), Carries(g) PROVE <1>4!:
    <3>1. /\ Len(lane) \in Nat /\ Len(lane') = Len(lane) + 1 /\ lane'[Len(lane) + 1] = g
          /\ \A i \in 1..Len(lane) : lane'[i] = lane[i]
      BY <2>1, <2>2
    <3>2. \A i \in 1..Len(lane') : i \notin 1..Len(lane) => lane'[i] = g
      BY <3>1
    <3>3. /\ g.kind \in {"in progress", "result", "cancel"}
          /\ g.kind = "cancel" => g.run = TRUE
      BY <2>2 DEF Carries
    <3>4. \A i \in 1..Len(lane') : i \notin 1..Len(lane) =>
            /\ lane'[i].kind \in {"in progress", "result", "cancel"}
            /\ lane'[i].kind = "cancel" => lane'[i].run = TRUE
      BY <3>2, <3>3, Zenon
    <3>5. \A i \in 1..Len(lane) : i \in 1..Len(lane') /\ lane'[i] = lane[i]
      BY <3>1
    <3> QED
      BY <3>4, <3>5, Zenon
  <2>3. CASE lane' = lane
    BY <2>3
  <2> QED
    BY <1>1, <2>2, <2>3 DEF SendsOnce
<1>5. Silent'
  BY <1>2, <1>4 DEF Silent
<1>6. Owed'
  <2>1. \A c \in Calls : SiblingRunning(c) => SiblingRunning(c)'
    BY <1>2 DEF SiblingRunning, Members
  <2>2. unheard \subseteq Calls
    BY DEF Delivery, TypeOK
  <2>3. (\E i \in 1..Len(lane) : lane[i].kind = "result")
          => \E i \in 1..Len(lane') : lane'[i].kind = "result"
    BY <1>4
  <2> QED
    BY <1>2, <2>1, <2>2, <2>3 DEF Owed
<1> QED
  BY <1>3, <1>5, <1>6

\* A frame is delivered: whoever settles a call runs the LLM, or leaves that to a call or a
\* result that is still to come.
LEMMA DeliverQuiet ==
  ASSUME Delivery, Silent, OutcomesOnce, Owed, NEW i \in 1..Len(lane), Deliver(i)
  PROVE  Silent' /\ OutcomesOnce' /\ Owed'
<1> USE DEF Delivery
<1>1. PICK f \in Frames : f = lane[i]
  BY DEF TypeOK
<1>2. /\ lane' = RemoveAt(lane, i) /\ Handle(f, lane')
      /\ UNCHANGED <<mode, cancelling, sweep, announced, turn>>
  BY <1>1 DEF Deliver, service, user
<1>3. /\ f.kind \in {"in progress", "result", "cancel"} /\ f.of \in Calls
      /\ f.kind = "cancel" => f.run = TRUE
  BY <1>1, FrameFields DEF Silent
<1>4. PICK p \in [1..Len(lane') -> 1..Len(lane)] :
        /\ \A k \in 1..Len(lane') : p[k] # i /\ lane'[k] = lane[p[k]]
        /\ \A j, k \in 1..Len(lane') : p[j] = p[k] => j = k
        /\ \A m \in 1..Len(lane) : m # i => \E k \in 1..Len(lane') : p[k] = m
        /\ \A k \in 1..Len(lane') : \A n \in 1..(p[k] - 1) :
             /\ n \in 1..Len(lane)
             /\ n # i => \E j \in 1..(k - 1) : j \in 1..Len(lane') /\ p[j] = n
  BY <1>2, StaysInLane
<1>5. /\ f.kind = "in progress" =>
           /\ context' = [context EXCEPT ![f.of] = "pending"]
           /\ progress' = [progress EXCEPT ![f.of] = "running"]
      /\ f.kind # "in progress" =>
           \A d \in Calls :
             \/ context'[d] = context[d] /\ progress'[d] = progress[d]
             \/ /\ context[d] = "pending" /\ context'[d] \in {"result", "cancelled"}
                /\ progress'[d] = "absent"
  BY <1>2, Handled
<1>6. f.kind \in {"result", "cancel"} =>
        \/ InProgress(f.of) /\ \E outcome : Settle(f.of, outcome, TRUE, lane')
        \/ ~InProgress(f.of) /\ Ignore
  BY <1>2, <1>3 DEF Handle
<1>7. f.kind = "in progress" =>
        UNCHANGED <<userSpeaking, botSpeaking, pushLater, unheard>>
  BY <1>2 DEF Handle
<1>8. Silent'
  <2>1. userSpeaking' = userSpeaking
    BY <1>3, <1>6, <1>7 DEF Settle, Ignore, aggregator
  <2>2. \A k \in 1..Len(lane') : /\ lane'[k].kind \in {"in progress", "result", "cancel"}
                                 /\ lane'[k].kind = "cancel" => lane'[k].run = TRUE
    <3> SUFFICES ASSUME NEW k \in 1..Len(lane')
                 PROVE  /\ lane'[k].kind \in {"in progress", "result", "cancel"}
                        /\ lane'[k].kind = "cancel" => lane'[k].run = TRUE
      OBVIOUS
    <3>1. PICK m \in 1..Len(lane) : lane'[k] = lane[m]
      BY <1>4
    <3>2. /\ lane[m].kind \in {"in progress", "result", "cancel"}
          /\ lane[m].kind = "cancel" => lane[m].run = TRUE
      BY DEF Silent
    <3> QED
      BY <3>1, <3>2
  <2> QED
    BY <1>2, <2>1, <2>2 DEF Silent
<1>9. OutcomesOnce'
  <2> SUFFICES ASSUME NEW c \in Calls
               PROVE  /\ \A k \in 1..Len(lane') : Outcome(lane'[k], c) =>
                           /\ announced'[c] # <<>> /\ ~Final(c)'
                           /\ \A j \in 1..Len(lane') : Outcome(lane'[j], c) => k = j
                      /\ Final(c)' => announced'[c] # <<>>
    BY DEF OutcomesOnce
  <2>1. CASE Outcome(f, c)
    <3>1. announced[c] # <<>> /\ \A j \in 1..Len(lane) : Outcome(lane[j], c) => j = i
      BY <1>1, <2>1 DEF OutcomesOnce
    <3>2. \A k \in 1..Len(lane') : ~Outcome(lane'[k], c)
      BY <1>4, <3>1
    <3> QED
      BY <1>2, <3>1, <3>2
  <2>2. CASE ~Outcome(f, c)
    <3>1. Final(c)' => Final(c)
      <4>1. CASE f.kind = "in progress"
        BY <1>3, <1>5, <4>1 DEF Final, TypeOK
      <4>2. CASE f.kind # "in progress"
        <5>1. f.of # c
          BY <1>3, <2>2, <4>2 DEF Outcome, Says
        <5>2. context'[c] = context[c]
          BY <1>3, <1>6, <4>2, <5>1 DEF Settle, Ignore, aggregator, TypeOK
        <5> QED
          BY <5>2 DEF Final
      <4> QED
        BY <4>1, <4>2
    <3>2. ASSUME NEW k \in 1..Len(lane'), Outcome(lane'[k], c)
          PROVE  /\ announced'[c] # <<>> /\ ~Final(c)
                 /\ \A j \in 1..Len(lane') : Outcome(lane'[j], c) => k = j
      <4>1. Outcome(lane[p[k]], c) /\ p[k] \in 1..Len(lane)
        BY <1>4, <3>2
      <4>2. ASSUME NEW j \in 1..Len(lane'), Outcome(lane'[j], c) PROVE k = j
        <5>1. Outcome(lane[p[j]], c) /\ p[j] \in 1..Len(lane)
          BY <1>4, <4>2
        <5>2. p[k] = p[j]
          BY <4>1, <5>1 DEF OutcomesOnce
        <5> QED
          BY <1>4, <5>2
      <4> QED
        BY <1>2, <4>1, <4>2 DEF OutcomesOnce
    <3>3. Final(c)' => announced'[c] # <<>>
      BY <1>2, <3>1 DEF OutcomesOnce
    <3> QED
      BY <3>1, <3>2, <3>3
  <2> QED
    BY <2>1, <2>2
<1>10. ASSUME f.kind # "result"
       PROVE  (\E m \in 1..Len(lane) : lane[m].kind = "result")
                => \E k \in 1..Len(lane') : lane'[k].kind = "result"
  <2> SUFFICES ASSUME NEW m \in 1..Len(lane), lane[m].kind = "result"
               PROVE  \E k \in 1..Len(lane') : lane'[k].kind = "result"
    OBVIOUS
  <2>1. PICK k \in 1..Len(lane') : p[k] = m
    BY <1>1, <1>4, <1>10
  <2> QED
    BY <1>4, <2>1
<1>11. Owed'
  <2>1. CASE f.kind = "in progress"
    <3>1. \A c \in Calls : SiblingRunning(c) => SiblingRunning(c)'
      <4>1. \A c \in Calls : progress[c] = "running" => progress'[c] = "running"
        BY <1>3, <1>5, <2>1 DEF TypeOK
      <4> QED
        BY <1>2, <4>1 DEF SiblingRunning, Members
    <3>2. unheard \subseteq Calls
      BY DEF TypeOK
    <3> QED
      BY <1>7, <1>10, <2>1, <3>1, <3>2 DEF Owed
  <2>2. CASE f.kind \in {"result", "cancel"} /\ InProgress(f.of)
    <3>1. PICK outcome : Settle(f.of, outcome, TRUE, lane')
      BY <1>6, <2>2
    <3>2. CASE SiblingRunning(f.of)
      <4>1. f.of \in unheard'
        BY <3>1, <3>2 DEF Settle
      <4>2. SiblingRunning(f.of)'
        BY <1>2, <1>3, <3>1, <3>2 DEF Settle, SiblingRunning, Members, TypeOK
      <4> QED
        BY <4>1, <4>2 DEF Owed
    <3>3. CASE ~SiblingRunning(f.of)
      <4>1. MaybePush(f.of, lane') /\ UNCHANGED botSpeaking
        BY <3>1, <3>3 DEF Settle, Silent
      <4> QED
        BY <4>1 DEF MaybePush, Push, PutOff, Owed
    <3> QED
      BY <3>2, <3>3
  <2>3. CASE f.kind = "cancel" /\ ~InProgress(f.of)
    <3>1. UNCHANGED <<progress, unheard, botSpeaking, pushLater>>
      BY <1>6, <2>3 DEF Ignore, aggregator
    <3>2. \A c : SiblingRunning(c)' <=> SiblingRunning(c)
      BY <1>2, <3>1 DEF SiblingRunning
    <3> QED
      BY <1>10, <2>3, <3>1, <3>2 DEF Owed
  <2>4. CASE f.kind = "result" /\ ~InProgress(f.of)
    <3>1. i = 1
      <4> SUFFICES ASSUME i # 1 PROVE FALSE
        OBVIOUS
      <4>1. 1 \in 1..(i - 1)
        BY DEF TypeOK
      <4>2. Overtakes(lane[i], lane[1])
        BY <4>1 DEF Deliver
      <4> QED
        BY <1>1, <2>4, <4>2 DEF Overtakes, SystemFrames
    <3>2. Says(lane[i], "result", f.of) /\ Outcome(lane[i], f.of)
      BY <1>1, <2>4 DEF Says, Outcome
    <3>3. context[f.of] # "absent"
      <4>1. \/ context[f.of] # "absent"
            \/ \E j \in 1..(i - 1) : Says(lane[j], "in progress", f.of)
        BY <1>3, <3>2 DEF Lane, ResultsFollow
      <4> QED
        BY <3>1, <4>1
    <3>4. ~Final(f.of)
      BY <1>3, <3>2 DEF OutcomesOnce
    <3>5. context[f.of] = "pending"
      BY <1>3, <3>3, <3>4 DEF Final, TypeOK
    <3> QED
      BY <1>3, <2>4, <3>5 DEF WaitsAlike, InProgress
  <2> QED
    BY <1>3, <2>1, <2>2, <2>3, <2>4
<1> QED
  BY <1>8, <1>9, <1>11

\* Until the user speaks, what an inference has yet to see is never forgotten: some call that
\* it has yet to see waits for a sibling of its batch, or the inference was put off until the
\* bot is silent, or a result that will run the LLM is on its way. Whoever leaves the LLM to
\* another (_maybe_push_context_after_function_result) leaves it to one that is there.
InferenceOwed == turns = 0 => Owed

THEOREM InferenceNeverForgotten == Spec => []InferenceOwed
<1> DEFINE All == IInv /\ Delivery /\ AllMinded /\ Quiet
<1>1. Init => All
  <2>1. Init => AllMinded
    BY DEF Init, AllMinded, Minded, Cancels
  <2> QED
    BY <2>1, InitInv, InitDelivery, InitQuiet
<1>2. All /\ [Next]_vars => All'
  <2> SUFFICES ASSUME All, [Next]_vars PROVE All'
    OBVIOUS
  <2>1. IInv' /\ Delivery' /\ AllMinded'
    BY SettlingStep, OutcomeStep, DeliveryStep, MindedStep DEF IInv, Delivery
  <2>2. ASSUME turns' = 0 PROVE turns = 0 /\ ~UserStarts
    <3>1. turns \in Nat
      BY CallsAssumption DEF Delivery, TypeOK
    <3>2. turns' \in {turns, turns + 1} /\ (UserStarts => turns' = turns + 1)
      BY DEF Next, EventLoop, StartBatch, RunNext, Begin, Report, Closed, Return, Unwind, Untrack,
         Expire, TimeOut, Visit, Cancelled, Deliver, BotStarts, BotStops, UserStarts, UserStops,
         UserInference, vars, user
    <3> QED
      BY <2>2, <3>1, <3>2
  <2>3. ASSUME turns' = 0 PROVE Silent' /\ Once' /\ OutcomesOnce' /\ Owed'
    <3>1. Silent /\ Once /\ OutcomesOnce /\ Owed /\ ~UserStarts
      BY <2>2, <2>3 DEF Quiet
    <3>2. Once'
      BY <3>1, OnceStep
    <3>3. CASE \E i \in 1..Len(lane) : Deliver(i)
      BY <3>1, <3>2, <3>3, DeliverQuiet
    <3>4. CASE ~\E i \in 1..Len(lane) : Deliver(i)
      BY <3>1, <3>2, <3>4, SilentStep
    <3> QED
      BY <3>3, <3>4
  <2> QED
    BY <2>1, <2>3 DEF Quiet
<1>3. All => InferenceOwed
  BY DEF Quiet, InferenceOwed
<1> HIDE DEF All
<1>4. QED
  BY <1>1, <1>2, <1>3, PTL DEF Spec
==============================================================================
