---------------------------- MODULE JobGroupsProofs ----------------------------
(***************************************************************************)
(* What is proved of JobGroups, for any set of members.                    *)
(***************************************************************************)
EXTENDS JobGroups, Naturals, TLAPS

Answered == {m \in Members : answer[m] # "none"}

\* Every answer that is on its way, or counted, has been given.
Given ==
  /\ urgentQueue \in Seq(Answered) /\ plainQueue \in Seq(Answered) /\ dataQueue \in Seq(Answered)
  /\ \A t \in Tasks : member[t] # None => member[t] \in Answered
  /\ responses \subseteq Answered

\* A task that has removed the group and is to settle it.
Owns(t) == step[t] \in {"cancelling", "completing"}

\* Until the group is settled, nobody has been told to cancel, and at most one task is to
\* settle it.
OneOwner ==
  /\ group # "gone" => settled = "no" /\ \A t \in Tasks : ~Owns(t)
  /\ \A t, u \in Tasks : Owns(t) /\ Owns(u) => t = u
  /\ (\E t \in Tasks : Owns(t)) => settled = "no"
  /\ settled \in {"no", "completed"} => \A m \in Members : cancel[m] = "none"

\* Who is about to complete the group has every answer.
Full ==
  /\ \A t \in Tasks : step[t] = "tracking" /\ group = "open" => responses = Members
  /\ \A t \in Tasks : step[t] = "tracking" => group # "none"
  /\ \A t \in Tasks : step[t] = "completing" => responses = Members
  /\ settled = "completed" => responses = Members

\* Nothing has happened before the context is entered, nor to a request that was not taken.
Begun ==
  /\ caller = "before" => group = "none" /\ \A m \in Members : request[m] = "none"
  /\ \A m \in Members : request[m] # "taken" => m \notin active /\ answer[m] = "none"

Inv == TypeOK /\ Begun /\ Given /\ OneOwner /\ Full
-----------------------------------------------------------------------------
\* A sequence over a set is one over a larger set.
LEMMA SeqGrows == ASSUME NEW S, NEW T, S \subseteq T, NEW q \in Seq(S) PROVE q \in Seq(T)
  OBVIOUS

\* What a step that sends the answer of m does to the queues.
Delivered(m, status) ==
  /\ answer' \in [Members -> Statuses \cup {"none"}]
  /\ answer'[m] = status /\ \A n \in Members \ {m} : answer'[n] = answer[n]
  /\ urgentQueue' \in Seq(Urgent) /\ plainQueue' \in Seq(Members)
  /\ dataQueue' \in Seq(Members)
  /\ urgentQueue' \in Seq(Answered') /\ plainQueue' \in Seq(Answered')
  /\ dataQueue' \in Seq(Answered') /\ Answered \subseteq Answered'

\* Sending an answer keeps the queues sequences of members that have answered.
LEMMA SentKeeps ==
  ASSUME TypeOK, Given, NEW m \in Members, NEW status \in Statuses, NEW urgent \in BOOLEAN,
         urgent => m \in Urgent, Sent(m, status, urgent)
  PROVE  Delivered(m, status)
<1> USE DEF Delivered
<1>1. /\ answer' \in [Members -> Statuses \cup {"none"}]
      /\ answer'[m] = status /\ \A n \in Members \ {m} : answer'[n] = answer[n]
  BY DEF Sent, TypeOK
<1>2. Answered \subseteq Answered' /\ m \in Answered'
  BY <1>1 DEF Answered, Statuses, TypeOK
<1>3. /\ urgentQueue \in Seq(Answered') /\ plainQueue \in Seq(Answered')
      /\ dataQueue \in Seq(Answered')
  BY <1>2, SeqGrows DEF Given
<1>4. CASE urgent
  <2>1. urgentQueue' = Append(urgentQueue,
      m) /\ plainQueue' = plainQueue /\ dataQueue' = dataQueue
    BY <1>4 DEF Sent
  <2>2. urgentQueue' \in Seq(Urgent) /\ urgentQueue' \in Seq(Answered')
    BY <1>2, <1>3, <1>4, <2>1 DEF TypeOK
  <2> QED BY <1>1, <1>2, <1>3, <2>1, <2>2 DEF TypeOK
<1>5. CASE ~urgent
  <2>1. plainQueue' = Append(plainQueue,
      m) /\ urgentQueue' = urgentQueue /\ dataQueue' = dataQueue
    BY <1>5 DEF Sent
  <2>2. plainQueue' \in Seq(Members) /\ plainQueue' \in Seq(Answered')
    BY <1>2, <1>3, <2>1 DEF TypeOK
  <2> QED BY <1>1, <1>2, <1>3, <2>1, <2>2 DEF TypeOK
<1> QED BY <1>4, <1>5

\* Nothing happens before the context is entered.
LEMMA BegunKept ==
  Inv /\ [Next]_vars => Begun'
<1> DEFINE Goal == Begun'
<1> SUFFICES ASSUME Inv, [Next]_vars PROVE Goal
  OBVIOUS
<1> USE JobAssumption DEF Tasks
<1>1. CASE Enter
  BY <1>1 DEF Enter, queues, Inv, TypeOK, Begun, Statuses
<1>2. CASE NotReady
  BY <1>2 DEF NotReady, queues, peers, Inv, TypeOK, Begun, Statuses
<1>3. CASE BodyEnds
  BY <1>3 DEF BodyEnds, queues, peers, Inv, TypeOK, Begun, Statuses
<1>4. CASE Leave
  BY <1>4 DEF Leave, queues, peers, Inv, TypeOK, Begun, Statuses
<1>5. CASE WaitCancelled
  BY <1>5 DEF WaitCancelled, queues, peers, Inv, TypeOK, Begun, Statuses
<1>6. CASE ApplicationCancels
  BY <1>6 DEF ApplicationCancels, queues, CancelGroup, TellMembers, TimeoutCancelled, At,
     Done, Reason, Inv, TypeOK, Begun, Statuses
<1>7. CASE BodyRaises
  BY <1>7 DEF BodyRaises, queues, CancelGroup, TellMembers, TimeoutCancelled, At, Done,
     Reason, Inv, TypeOK, Begun, Statuses
<1>8. CASE TimeoutFires
  BY <1>8 DEF TimeoutFires, queues, TellMembers, Inv, TypeOK, Begun, Statuses
<1>9. CASE TimeoutStops
  BY <1>9 DEF TimeoutStops, queues, peers, Inv, TypeOK, Begun, Statuses
<1>10. CASE Route
  BY <1>10 DEF Route, state, peers, Inv, TypeOK, Begun, Statuses
<1>11. CASE TakeUrgent
  BY <1>11 DEF TakeUrgent, state, peers, At, Inv, TypeOK, Begun, Statuses
<1>12. CASE TakeData
  BY <1>12 DEF TakeData, state, peers, At, Inv, TypeOK, Begun, Statuses
<1>13. ASSUME NEW t \in Tasks, TakeError(t) PROVE Goal
  BY <1>13 DEF TakeError, queues, peers, At, Errs, Inv, TypeOK, Begun, Statuses
<1>14. ASSUME NEW t \in Tasks, ErrorCancelsGroup(t) PROVE Goal
  BY <1>14 DEF ErrorCancelsGroup, queues, CancelGroup, TellMembers, TimeoutCancelled, At,
     Done, Reason, Inv, TypeOK, Begun, Statuses
<1>15. ASSUME NEW t \in Tasks, GroupCancelled(t) PROVE Goal
  BY <1>15 DEF GroupCancelled, queues, TellMembers, Reason, At, Done, Inv, TypeOK, Begun,
     Statuses
<1>16. ASSUME NEW t \in Tasks, Track(t) PROVE Goal
  BY <1>16 DEF Track, queues, peers, At, Done, TimeoutCancelled, Errs, Inv, TypeOK, Begun,
     Statuses
<1>17. ASSUME NEW t \in Tasks, Tracked(t) PROVE Goal
  BY <1>17 DEF Tracked, queues, peers, At, Done, Inv, TypeOK, Begun, Statuses
<1>18. ASSUME NEW t \in Tasks, Complete(t) PROVE Goal
  BY <1>18 DEF Complete, queues, peers, At, Done, Inv, TypeOK, Begun, Statuses
<1>19. ASSUME NEW m \in Members, RouteRequest(m) PROVE Goal
  BY <1>19 DEF RouteRequest, state, queues, Inv, TypeOK, Begun, Statuses
<1>20. ASSUME NEW m \in Members, TakeRequest(m) PROVE Goal
  BY <1>20 DEF TakeRequest, state, queues, Inv, TypeOK, Begun, Statuses
<1>21. ASSUME NEW m \in Members, HandleCancel(m) PROVE Goal
  BY <1>21 DEF HandleCancel, state, queues, Inv, TypeOK, Begun, Statuses
<1>22. ASSUME NEW m \in Members, AnswerCancel(m) PROVE Goal
  BY <1>22 DEF AnswerCancel, state, queues, Sent, Inv, TypeOK, Begun, Statuses
<1>23. ASSUME NEW m \in Members, NEW status \in Statuses, NEW urgent \in BOOLEAN,
           Answer(m, status, urgent) PROVE Goal
  BY <1>23 DEF Answer, state, Sent, Inv, TypeOK, Begun, Statuses
<1>24. CASE UNCHANGED vars
  BY <1>24 DEF vars, state, queues, peers, Inv, TypeOK, Begun, Statuses
<1> QED BY <1>1, <1>2, <1>3, <1>4, <1>5, <1>6, <1>7, <1>8, <1>9, <1>10, <1>11, <1>12, <1>13,
           <1>14, <1>15, <1>16, <1>17, <1>18, <1>19, <1>20, <1>21, <1>22, <1>23, <1>24 DEF Next

\* The variables keep their types.
LEMMA Typed ==
  Inv /\ [Next]_vars => TypeOK'
<1> DEFINE Goal == TypeOK'
<1> SUFFICES ASSUME Inv, [Next]_vars PROVE Goal
  OBVIOUS
<1> USE JobAssumption DEF Tasks
<1>1. CASE Enter
  BY <1>1 DEF Enter, queues, Inv, TypeOK, Begun, Statuses
<1>2. CASE NotReady
  BY <1>2 DEF NotReady, queues, peers, Inv, TypeOK, Begun, Statuses
<1>3. CASE BodyEnds
  BY <1>3 DEF BodyEnds, queues, peers, Inv, TypeOK, Begun, Statuses
<1>4. CASE Leave
  BY <1>4 DEF Leave, queues, peers, Inv, TypeOK, Begun, Statuses
<1>5. CASE WaitCancelled
  BY <1>5 DEF WaitCancelled, queues, peers, Inv, TypeOK, Begun, Statuses
<1>6. CASE ApplicationCancels
  BY <1>6 DEF ApplicationCancels, queues, CancelGroup, TellMembers, TimeoutCancelled, At,
     Done, Reason, Inv, TypeOK, Begun, Statuses
<1>7. CASE BodyRaises
  BY <1>7 DEF BodyRaises, queues, CancelGroup, TellMembers, TimeoutCancelled, At, Done,
     Reason, Inv, TypeOK, Begun, Statuses
<1>8. CASE TimeoutFires
  BY <1>8 DEF TimeoutFires, queues, TellMembers, Inv, TypeOK, Begun, Statuses
<1>9. CASE TimeoutStops
  BY <1>9 DEF TimeoutStops, queues, peers, Inv, TypeOK, Begun, Statuses
<1>10. CASE Route
  BY <1>10 DEF Route, state, peers, Inv, TypeOK, Begun, Statuses
<1>11. CASE TakeUrgent
  BY <1>11 DEF TakeUrgent, state, peers, At, Inv, TypeOK, Begun, Statuses
<1>12. CASE TakeData
  BY <1>12 DEF TakeData, state, peers, At, Inv, TypeOK, Begun, Statuses
<1>13. ASSUME NEW t \in Tasks, TakeError(t) PROVE Goal
  BY <1>13 DEF TakeError, queues, peers, At, Errs, Inv, TypeOK, Begun, Statuses
<1>14. ASSUME NEW t \in Tasks, ErrorCancelsGroup(t) PROVE Goal
  BY <1>14 DEF ErrorCancelsGroup, queues, CancelGroup, TellMembers, TimeoutCancelled, At,
     Done, Reason, Inv, TypeOK, Begun, Statuses
<1>15. ASSUME NEW t \in Tasks, GroupCancelled(t) PROVE Goal
  BY <1>15 DEF GroupCancelled, queues, TellMembers, Reason, At, Done, Inv, TypeOK, Begun,
     Statuses
<1>16. ASSUME NEW t \in Tasks, Track(t) PROVE Goal
  BY <1>16 DEF Track, queues, peers, At, Done, TimeoutCancelled, Errs, Inv, TypeOK, Begun,
     Statuses
<1>17. ASSUME NEW t \in Tasks, Tracked(t) PROVE Goal
  BY <1>17 DEF Tracked, queues, peers, At, Done, Inv, TypeOK, Begun, Statuses
<1>18. ASSUME NEW t \in Tasks, Complete(t) PROVE Goal
  BY <1>18 DEF Complete, queues, peers, At, Done, Inv, TypeOK, Begun, Statuses
<1>19. ASSUME NEW m \in Members, RouteRequest(m) PROVE Goal
  BY <1>19 DEF RouteRequest, state, queues, Inv, TypeOK, Begun, Statuses
<1>20. ASSUME NEW m \in Members, TakeRequest(m) PROVE Goal
  BY <1>20 DEF TakeRequest, state, queues, Inv, TypeOK, Begun, Statuses
<1>21. ASSUME NEW m \in Members, HandleCancel(m) PROVE Goal
  BY <1>21 DEF HandleCancel, state, queues, Inv, TypeOK, Begun, Statuses
<1>22. ASSUME NEW m \in Members, AnswerCancel(m) PROVE Goal
  <2>1. CASE m \in active
    <3>1. /\ Sent(m, "cancelled", FALSE) /\ active' = active \ {m}
          /\ cancel' = [cancel EXCEPT ![m] = "handled"]
          /\ UNCHANGED <<state, step, member, request>>
      BY <1>22, <2>1 DEF AnswerCancel
    <3>2. Delivered(m, "cancelled")
      BY <3>1, SentKeeps DEF Inv, Statuses
    <3> QED BY <3>1, <3>2 DEF Delivered, state, Inv, TypeOK, Begun, Statuses
  <2>2. CASE m \notin active
    BY <1>22, <2>2 DEF AnswerCancel, state, queues, Inv, TypeOK, Begun, Statuses
  <2> QED BY <2>1, <2>2
<1>23. ASSUME NEW m \in Members, NEW status \in Statuses, NEW urgent \in BOOLEAN,
           Answer(m, status, urgent) PROVE Goal
  <2>1. m \in active /\ (urgent => m \in Urgent) /\ Sent(m, status, urgent)
    BY <1>23 DEF Answer
  <2>2. active' = active \ {m} /\ UNCHANGED <<state, step, member, request, cancel>>
    BY <1>23 DEF Answer
  <2>3. Delivered(m, status)
    BY <2>1, SentKeeps DEF Inv
  <2> QED BY <2>1, <2>2, <2>3 DEF Delivered, state, Inv, TypeOK, Begun, Statuses
<1>24. CASE UNCHANGED vars
  BY <1>24 DEF vars, state, queues, peers, Inv, TypeOK, Begun, Statuses
<1> QED BY <1>1, <1>2, <1>3, <1>4, <1>5, <1>6, <1>7, <1>8, <1>9, <1>10, <1>11, <1>12, <1>13,
           <1>14, <1>15, <1>16, <1>17, <1>18, <1>19, <1>20, <1>21, <1>22, <1>23, <1>24 DEF Next

\* Only answers that were given are delivered and counted.
LEMMA GivenKept ==
  Inv /\ [Next]_vars => Given'
<1> DEFINE Goal == Given'
<1> SUFFICES ASSUME Inv, [Next]_vars PROVE Goal
  OBVIOUS
<1> USE JobAssumption DEF Tasks
<1>1. CASE Enter
  BY <1>1 DEF Enter, queues, Inv, TypeOK, Given, Answered, Statuses
<1>2. CASE NotReady
  BY <1>2 DEF NotReady, queues, peers, Inv, TypeOK, Given, Answered, Statuses
<1>3. CASE BodyEnds
  BY <1>3 DEF BodyEnds, queues, peers, Inv, TypeOK, Given, Answered, Statuses
<1>4. CASE Leave
  BY <1>4 DEF Leave, queues, peers, Inv, TypeOK, Given, Answered, Statuses
<1>5. CASE WaitCancelled
  BY <1>5 DEF WaitCancelled, queues, peers, Inv, TypeOK, Given, Answered, Statuses
<1>6. CASE ApplicationCancels
  BY <1>6 DEF ApplicationCancels, queues, CancelGroup, TellMembers, TimeoutCancelled, At,
     Done, Reason, Inv, TypeOK, Given, Answered, Statuses
<1>7. CASE BodyRaises
  BY <1>7 DEF BodyRaises, queues, CancelGroup, TellMembers, TimeoutCancelled, At, Done,
     Reason, Inv, TypeOK, Given, Answered, Statuses
<1>8. CASE TimeoutFires
  BY <1>8 DEF TimeoutFires, queues, TellMembers, Inv, TypeOK, Given, Answered, Statuses
<1>9. CASE TimeoutStops
  BY <1>9 DEF TimeoutStops, queues, peers, Inv, TypeOK, Given, Answered, Statuses
<1>10. CASE Route
  BY <1>10 DEF Route, state, peers, Inv, TypeOK, Given, Answered, Statuses
<1>11. CASE TakeUrgent
  BY <1>11 DEF TakeUrgent, state, peers, At, Inv, TypeOK, Given, Answered, Statuses
<1>12. CASE TakeData
  BY <1>12 DEF TakeData, state, peers, At, Inv, TypeOK, Given, Answered, Statuses
<1>13. ASSUME NEW t \in Tasks, TakeError(t) PROVE Goal
  BY <1>13 DEF TakeError, queues, peers, At, Errs, Inv, TypeOK, Given, Answered, Statuses
<1>14. ASSUME NEW t \in Tasks, ErrorCancelsGroup(t) PROVE Goal
  BY <1>14 DEF ErrorCancelsGroup, queues, CancelGroup, TellMembers, TimeoutCancelled, At,
     Done, Reason, Inv, TypeOK, Given, Answered, Statuses
<1>15. ASSUME NEW t \in Tasks, GroupCancelled(t) PROVE Goal
  BY <1>15 DEF GroupCancelled, queues, TellMembers, Reason, At, Done, Inv, TypeOK, Given,
     Answered, Statuses
<1>16. ASSUME NEW t \in Tasks, Track(t) PROVE Goal
  BY <1>16 DEF Track, queues, peers, At, Done, TimeoutCancelled, Errs, Inv, TypeOK, Given,
     Answered, Statuses
<1>17. ASSUME NEW t \in Tasks, Tracked(t) PROVE Goal
  BY <1>17 DEF Tracked, queues, peers, At, Done, Inv, TypeOK, Given, Answered, Statuses
<1>18. ASSUME NEW t \in Tasks, Complete(t) PROVE Goal
  BY <1>18 DEF Complete, queues, peers, At, Done, Inv, TypeOK, Given, Answered, Statuses
<1>19. ASSUME NEW m \in Members, RouteRequest(m) PROVE Goal
  BY <1>19 DEF RouteRequest, state, queues, Inv, TypeOK, Given, Answered, Statuses
<1>20. ASSUME NEW m \in Members, TakeRequest(m) PROVE Goal
  BY <1>20 DEF TakeRequest, state, queues, Inv, TypeOK, Given, Answered, Statuses
<1>21. ASSUME NEW m \in Members, HandleCancel(m) PROVE Goal
  BY <1>21 DEF HandleCancel, state, queues, Inv, TypeOK, Given, Answered, Statuses
<1>22. ASSUME NEW m \in Members, AnswerCancel(m) PROVE Goal
  <2>1. CASE m \in active
    <3>1. /\ Sent(m, "cancelled", FALSE) /\ active' = active \ {m}
          /\ cancel' = [cancel EXCEPT ![m] = "handled"]
          /\ UNCHANGED <<state, step, member, request>>
      BY <1>22, <2>1 DEF AnswerCancel
    <3>2. Delivered(m, "cancelled")
      BY <3>1, SentKeeps DEF Inv, Statuses
    <3> QED BY <3>1, <3>2 DEF Delivered, state, Inv, TypeOK, Given, Answered, Statuses
  <2>2. CASE m \notin active
    BY <1>22, <2>2 DEF AnswerCancel, state, queues, Inv, TypeOK, Given, Answered, Statuses
  <2> QED BY <2>1, <2>2
<1>23. ASSUME NEW m \in Members, NEW status \in Statuses, NEW urgent \in BOOLEAN,
           Answer(m, status, urgent) PROVE Goal
  <2>1. m \in active /\ (urgent => m \in Urgent) /\ Sent(m, status, urgent)
    BY <1>23 DEF Answer
  <2>2. active' = active \ {m} /\ UNCHANGED <<state, step, member, request, cancel>>
    BY <1>23 DEF Answer
  <2>3. Delivered(m, status)
    BY <2>1, SentKeeps DEF Inv
  <2> QED BY <2>1, <2>2, <2>3 DEF Delivered, state, Inv, TypeOK, Given, Answered, Statuses
<1>24. CASE UNCHANGED vars
  BY <1>24 DEF vars, state, queues, peers, Inv, TypeOK, Given, Answered, Statuses
<1> QED BY <1>1, <1>2, <1>3, <1>4, <1>5, <1>6, <1>7, <1>8, <1>9, <1>10, <1>11, <1>12, <1>13,
           <1>14, <1>15, <1>16, <1>17, <1>18, <1>19, <1>20, <1>21, <1>22, <1>23, <1>24 DEF Next

\* At most one task is to settle the group.
LEMMA OneOwnerKept ==
  Inv /\ [Next]_vars => OneOwner'
<1> DEFINE Goal == OneOwner'
<1> SUFFICES ASSUME Inv, [Next]_vars PROVE Goal
  OBVIOUS
<1> USE JobAssumption DEF Tasks
<1>1. CASE Enter
  BY <1>1 DEF Enter, queues, Inv, TypeOK, Begun, OneOwner, Owns
<1>2. CASE NotReady
  BY <1>2 DEF NotReady, queues, peers, Inv, TypeOK, Begun, OneOwner, Owns
<1>3. CASE BodyEnds
  BY <1>3 DEF BodyEnds, queues, peers, Inv, TypeOK, Begun, OneOwner, Owns
<1>4. CASE Leave
  BY <1>4 DEF Leave, queues, peers, Inv, TypeOK, Begun, OneOwner, Owns
<1>5. CASE WaitCancelled
  BY <1>5 DEF WaitCancelled, queues, peers, Inv, TypeOK, Begun, OneOwner, Owns
<1>6. CASE ApplicationCancels
  BY <1>6 DEF ApplicationCancels, queues, CancelGroup, TellMembers, TimeoutCancelled, At,
     Done, Reason, Inv, TypeOK, Begun, OneOwner, Owns
<1>7. CASE BodyRaises
  BY <1>7 DEF BodyRaises, queues, CancelGroup, TellMembers, TimeoutCancelled, At, Done,
     Reason, Inv, TypeOK, Begun, OneOwner, Owns
<1>8. CASE TimeoutFires
  BY <1>8 DEF TimeoutFires, queues, TellMembers, Inv, TypeOK, Begun, OneOwner, Owns
<1>9. CASE TimeoutStops
  BY <1>9 DEF TimeoutStops, queues, peers, Inv, TypeOK, Begun, OneOwner, Owns
<1>10. CASE Route
  BY <1>10 DEF Route, state, peers, Inv, TypeOK, Begun, OneOwner, Owns
<1>11. CASE TakeUrgent
  BY <1>11 DEF TakeUrgent, state, peers, At, Inv, TypeOK, Begun, OneOwner, Owns
<1>12. CASE TakeData
  BY <1>12 DEF TakeData, state, peers, At, Inv, TypeOK, Begun, OneOwner, Owns
<1>13. ASSUME NEW t \in Tasks, TakeError(t) PROVE Goal
  BY <1>13 DEF TakeError, queues, peers, At, Errs, Inv, TypeOK, Begun, OneOwner, Owns
<1>14. ASSUME NEW t \in Tasks, ErrorCancelsGroup(t) PROVE Goal
  BY <1>14 DEF ErrorCancelsGroup, queues, CancelGroup, TellMembers, TimeoutCancelled, At,
     Done, Reason, Inv, TypeOK, Begun, OneOwner, Owns
<1>15. ASSUME NEW t \in Tasks, GroupCancelled(t) PROVE Goal
  BY <1>15 DEF GroupCancelled, queues, TellMembers, Reason, At, Done, Inv, TypeOK, Begun,
     OneOwner, Owns
<1>16. ASSUME NEW t \in Tasks, Track(t) PROVE Goal
  BY <1>16 DEF Track, queues, peers, At, Done, TimeoutCancelled, Errs, Inv, TypeOK, Begun,
     OneOwner, Owns
<1>17. ASSUME NEW t \in Tasks, Tracked(t) PROVE Goal
  BY <1>17 DEF Tracked, queues, peers, At, Done, Inv, TypeOK, Begun, OneOwner, Owns
<1>18. ASSUME NEW t \in Tasks, Complete(t) PROVE Goal
  BY <1>18 DEF Complete, queues, peers, At, Done, Inv, TypeOK, Begun, OneOwner, Owns
<1>19. ASSUME NEW m \in Members, RouteRequest(m) PROVE Goal
  BY <1>19 DEF RouteRequest, state, queues, Inv, TypeOK, Begun, OneOwner, Owns
<1>20. ASSUME NEW m \in Members, TakeRequest(m) PROVE Goal
  BY <1>20 DEF TakeRequest, state, queues, Inv, TypeOK, Begun, OneOwner, Owns
<1>21. ASSUME NEW m \in Members, HandleCancel(m) PROVE Goal
  BY <1>21 DEF HandleCancel, state, queues, Inv, TypeOK, Begun, OneOwner, Owns
<1>22. ASSUME NEW m \in Members, AnswerCancel(m) PROVE Goal
  BY <1>22 DEF AnswerCancel, state, queues, Sent, Inv, TypeOK, Begun, OneOwner, Owns
<1>23. ASSUME NEW m \in Members, NEW status \in Statuses, NEW urgent \in BOOLEAN,
           Answer(m, status, urgent) PROVE Goal
  BY <1>23 DEF Answer, state, Sent, Inv, TypeOK, Begun, OneOwner, Owns
<1>24. CASE UNCHANGED vars
  BY <1>24 DEF vars, state, queues, peers, Inv, TypeOK, Begun, OneOwner, Owns
<1> QED BY <1>1, <1>2, <1>3, <1>4, <1>5, <1>6, <1>7, <1>8, <1>9, <1>10, <1>11, <1>12, <1>13,
           <1>14, <1>15, <1>16, <1>17, <1>18, <1>19, <1>20, <1>21, <1>22, <1>23, <1>24 DEF Next

\* Only with every answer is the group completed.
LEMMA FullKept ==
  Inv /\ [Next]_vars => Full'
<1> DEFINE Goal == Full'
<1> SUFFICES ASSUME Inv, [Next]_vars PROVE Goal
  OBVIOUS
<1> USE JobAssumption DEF Tasks
<1>1. CASE Enter
  BY <1>1 DEF Enter, queues, Inv, TypeOK, Begun, Full, OneOwner, Owns
<1>2. CASE NotReady
  BY <1>2 DEF NotReady, queues, peers, Inv, TypeOK, Begun, Full, OneOwner, Owns
<1>3. CASE BodyEnds
  BY <1>3 DEF BodyEnds, queues, peers, Inv, TypeOK, Begun, Full, OneOwner, Owns
<1>4. CASE Leave
  BY <1>4 DEF Leave, queues, peers, Inv, TypeOK, Begun, Full, OneOwner, Owns
<1>5. CASE WaitCancelled
  BY <1>5 DEF WaitCancelled, queues, peers, Inv, TypeOK, Begun, Full, OneOwner, Owns
<1>6. CASE ApplicationCancels
  BY <1>6 DEF ApplicationCancels, queues, CancelGroup, TellMembers, TimeoutCancelled, At,
     Done, Reason, Inv, TypeOK, Begun, Full, OneOwner, Owns
<1>7. CASE BodyRaises
  BY <1>7 DEF BodyRaises, queues, CancelGroup, TellMembers, TimeoutCancelled, At, Done,
     Reason, Inv, TypeOK, Begun, Full, OneOwner, Owns
<1>8. CASE TimeoutFires
  BY <1>8 DEF TimeoutFires, queues, TellMembers, Inv, TypeOK, Begun, Full, OneOwner, Owns
<1>9. CASE TimeoutStops
  BY <1>9 DEF TimeoutStops, queues, peers, Inv, TypeOK, Begun, Full, OneOwner, Owns
<1>10. CASE Route
  BY <1>10 DEF Route, state, peers, Inv, TypeOK, Begun, Full, OneOwner, Owns
<1>11. CASE TakeUrgent
  BY <1>11 DEF TakeUrgent, state, peers, At, Inv, TypeOK, Begun, Full, OneOwner, Owns
<1>12. CASE TakeData
  BY <1>12 DEF TakeData, state, peers, At, Inv, TypeOK, Begun, Full, OneOwner, Owns
<1>13. ASSUME NEW t \in Tasks, TakeError(t) PROVE Goal
  BY <1>13 DEF TakeError, queues, peers, At, Errs, Inv, TypeOK, Begun, Full, OneOwner, Owns
<1>14. ASSUME NEW t \in Tasks, ErrorCancelsGroup(t) PROVE Goal
  BY <1>14 DEF ErrorCancelsGroup, queues, CancelGroup, TellMembers, TimeoutCancelled, At,
     Done, Reason, Inv, TypeOK, Begun, Full, OneOwner, Owns
<1>15. ASSUME NEW t \in Tasks, GroupCancelled(t) PROVE Goal
  BY <1>15 DEF GroupCancelled, queues, TellMembers, Reason, At, Done, Inv, TypeOK, Begun,
     Full, OneOwner, Owns
<1>16. ASSUME NEW t \in Tasks, Track(t) PROVE Goal
  BY <1>16 DEF Track, queues, peers, At, Done, TimeoutCancelled, Errs, Inv, TypeOK, Begun,
     Full, OneOwner, Owns
<1>17. ASSUME NEW t \in Tasks, Tracked(t) PROVE Goal
  BY <1>17 DEF Tracked, queues, peers, At, Done, Inv, TypeOK, Begun, Full, OneOwner, Owns
<1>18. ASSUME NEW t \in Tasks, Complete(t) PROVE Goal
  BY <1>18 DEF Complete, queues, peers, At, Done, Inv, TypeOK, Begun, Full, OneOwner, Owns
<1>19. ASSUME NEW m \in Members, RouteRequest(m) PROVE Goal
  BY <1>19 DEF RouteRequest, state, queues, Inv, TypeOK, Begun, Full, OneOwner, Owns
<1>20. ASSUME NEW m \in Members, TakeRequest(m) PROVE Goal
  BY <1>20 DEF TakeRequest, state, queues, Inv, TypeOK, Begun, Full, OneOwner, Owns
<1>21. ASSUME NEW m \in Members, HandleCancel(m) PROVE Goal
  BY <1>21 DEF HandleCancel, state, queues, Inv, TypeOK, Begun, Full, OneOwner, Owns
<1>22. ASSUME NEW m \in Members, AnswerCancel(m) PROVE Goal
  BY <1>22 DEF AnswerCancel, state, queues, Sent, Inv, TypeOK, Begun, Full, OneOwner, Owns
<1>23. ASSUME NEW m \in Members, NEW status \in Statuses, NEW urgent \in BOOLEAN,
           Answer(m, status, urgent) PROVE Goal
  BY <1>23 DEF Answer, state, Sent, Inv, TypeOK, Begun, Full, OneOwner, Owns
<1>24. CASE UNCHANGED vars
  BY <1>24 DEF vars, state, queues, peers, Inv, TypeOK, Begun, Full, OneOwner, Owns
<1> QED BY <1>1, <1>2, <1>3, <1>4, <1>5, <1>6, <1>7, <1>8, <1>9, <1>10, <1>11, <1>12, <1>13,
           <1>14, <1>15, <1>16, <1>17, <1>18, <1>19, <1>20, <1>21, <1>22, <1>23, <1>24 DEF Next
-----------------------------------------------------------------------------
\* The variables keep their types, and the four facts above hold throughout.
THEOREM Invariance == Spec => []Inv
<1>1. Init => Inv
  <2> SUFFICES ASSUME Init PROVE Inv
    OBVIOUS
  <2>1. TypeOK
    <3>1. <<>> \in Seq(Urgent) /\ <<>> \in Seq(Members)
      OBVIOUS
    <3>2. step \in [Tasks -> {"idle"}] /\ member \in [Tasks -> {None}]
      BY DEF Init
    <3>3. /\ request \in [Members -> {"none"}] /\ cancel \in [Members -> {"none"}]
          /\ answer \in [Members -> {"none"}]
      BY DEF Init
    <3> QED BY <3>1, <3>2, <3>3 DEF Init, TypeOK
  <2>2. Given
    BY DEF Init, Given
  <2>3. Begun /\ OneOwner /\ Full
    BY DEF Init, Begun, OneOwner, Owns, Full
  <2> QED BY <2>1, <2>2, <2>3 DEF Inv
<1>2. Inv /\ [Next]_vars => Inv'
  BY Typed, BegunKept, GivenKept, OneOwnerKept, FullKept DEF Inv
<1> QED BY <1>1, <1>2, PTL DEF Spec

\* The variables keep their types; a member's job is active between the request it has
\* taken and its answer.
THEOREM TypeCorrect == Spec => []TypeOK
<1>1. Inv => TypeOK
  BY DEF Inv
<1> QED BY <1>1, Invariance, PTL

\* A group completes only with an answer of every member, and with no member told to cancel.
THEOREM CompletionMeansAll == Spec => []CompletedMeansAll
<1>1. Inv => CompletedMeansAll
  BY DEF Inv, OneOwner, Given, Answered, Full, CompletedMeansAll
<1> QED BY <1>1, Invariance, PTL

\* Whoever settles the group is the only one to do so.
THEOREM SettlesOnce == Spec => SettledOnce
<1>1. Inv /\ [Next]_vars => (settled # "no" => settled' = settled)
  <2> DEFINE Goal == settled # "no" => settled' = settled
  <2> SUFFICES ASSUME Inv, [Next]_vars PROVE Goal
    OBVIOUS
  <2> USE JobAssumption DEF Tasks
  <2>1. CASE ApplicationCancels
    BY <2>1 DEF ApplicationCancels, queues, CancelGroup, TellMembers, TimeoutCancelled, At,
       Done, Reason, Inv, TypeOK, OneOwner, Owns
  <2>2. CASE BodyRaises
    BY <2>2 DEF BodyRaises, queues, CancelGroup, TellMembers, TimeoutCancelled, At, Done,
       Reason, Inv, TypeOK, OneOwner, Owns
  <2>3. CASE TimeoutFires
    BY <2>3 DEF TimeoutFires, queues, TellMembers, Inv, TypeOK, OneOwner, Owns
  <2>4. ASSUME NEW t \in Tasks, ErrorCancelsGroup(t) PROVE Goal
    BY <2>4 DEF ErrorCancelsGroup, queues, CancelGroup, TellMembers, TimeoutCancelled, At,
       Done, Reason, Inv, TypeOK, OneOwner, Owns
  <2>5. ASSUME NEW t \in Tasks, GroupCancelled(t) PROVE Goal
    BY <2>5 DEF GroupCancelled, queues, TellMembers, Reason, At, Done, Inv, TypeOK, OneOwner,
       Owns
  <2>6. ASSUME NEW t \in Tasks, Complete(t) PROVE Goal
    BY <2>6 DEF Complete, queues, peers, At, Done, Inv, TypeOK, OneOwner, Owns
  <2>7. ASSUME \/ UNCHANGED vars
               \/ Enter \/ NotReady \/ BodyEnds \/ Leave \/ WaitCancelled \/ TimeoutStops
               \/ Route \/ TakeUrgent \/ TakeData
               \/ \E t \in Tasks : TakeError(t) \/ Track(t) \/ Tracked(t)
               \/ \E m \in Members : RouteRequest(m) \/ TakeRequest(m) \/ HandleCancel(m)
                                     \/ AnswerCancel(m)
               \/ \E m \in Members, status \in Statuses, urgent \in BOOLEAN :
                    Answer(m, status, urgent)
         PROVE  settled' = settled
    BY <2>7 DEF vars, state, queues, peers, Enter, NotReady, BodyEnds, Leave, WaitCancelled,
       TimeoutStops, Route, TakeUrgent, TakeData, TakeError, Track, Tracked, RouteRequest,
       TakeRequest, HandleCancel, AnswerCancel, Answer
  <2> QED BY <2>1, <2>2, <2>3, <2>4, <2>5, <2>6, <2>7 DEF Next
<1> QED BY <1>1, Invariance, PTL DEF Spec, SettledOnce

\* A member answers its request once.
THEOREM AnswersOnce == Spec => AnsweredOnce
<1>1. Inv /\ [Next]_vars => \A m \in Members : answer[m] # "none" => answer'[m] = answer[m]
  <2> DEFINE Goal == \A n \in Members : answer[n] # "none" => answer'[n] = answer[n]
  <2> SUFFICES ASSUME Inv, [Next]_vars PROVE Goal
    OBVIOUS
  <2> USE JobAssumption DEF Tasks
  <2>1. ASSUME NEW m \in Members, AnswerCancel(m) PROVE Goal
    BY <2>1 DEF AnswerCancel, state, queues, Sent, Inv, TypeOK
  <2>2. ASSUME NEW m \in Members, NEW status \in Statuses, NEW urgent \in BOOLEAN,
             Answer(m, status, urgent) PROVE Goal
    BY <2>2 DEF Answer, state, Sent, Inv, TypeOK
  <2>3. ASSUME \/ UNCHANGED vars
               \/ Enter \/ NotReady \/ BodyEnds \/ Leave \/ WaitCancelled
               \/ ApplicationCancels \/ BodyRaises \/ TimeoutFires \/ TimeoutStops
               \/ Route \/ TakeUrgent \/ TakeData
               \/ \E t \in Tasks : TakeError(t) \/ ErrorCancelsGroup(t)
                                   \/ GroupCancelled(t) \/ Track(t) \/ Tracked(t)
                                   \/ Complete(t)
               \/ \E m \in Members : RouteRequest(m) \/ TakeRequest(m) \/ HandleCancel(m)
         PROVE  answer' = answer
    BY <2>3 DEF vars, state, queues, peers, Enter, NotReady, BodyEnds, Leave, WaitCancelled,
       ApplicationCancels, BodyRaises, TimeoutFires, TimeoutStops, Route, TakeUrgent,
       TakeData, TakeError, ErrorCancelsGroup, GroupCancelled, Track, Tracked, Complete,
       RouteRequest, TakeRequest, HandleCancel
  <2> QED BY <2>1, <2>2, <2>3 DEF Next
<1> QED BY <1>1, Invariance, PTL DEF Spec, AnsweredOnce
-----------------------------------------------------------------------------
\* With nothing urgent, one task handles the answers: an error leaves the group open only
\* while that task is about to cancel it.
OneHandler ==
  /\ urgentQueue = <<>> /\ step["router"] = "idle"
  /\ \A t \in {"application", "context"} : step[t] \in {"idle", "cancelling"}
  /\ errored => /\ settled # "completed" /\ group # "none"
                /\ \A t \in Tasks : step[t] \notin {"tracking", "completing"}
                /\ group = "open" => step["data"] = "error"

\* With nothing urgent, one task goes on handling the answers.
LEMMA OneHandlerKept ==
  ASSUME Urgent = {}
  PROVE  Inv /\ OneHandler /\ [Next]_vars => OneHandler'
<1> DEFINE Goal == OneHandler'
<1> SUFFICES ASSUME Inv, OneHandler, [Next]_vars PROVE Goal
  OBVIOUS
<1> USE JobAssumption DEF Tasks
<1>1. CASE Enter
  BY <1>1 DEF Enter, queues, Inv, TypeOK, Begun, OneOwner, OneHandler
<1>2. CASE NotReady
  BY <1>2 DEF NotReady, queues, peers, Inv, TypeOK, Begun, OneOwner, OneHandler
<1>3. CASE BodyEnds
  BY <1>3 DEF BodyEnds, queues, peers, Inv, TypeOK, Begun, OneOwner, OneHandler
<1>4. CASE Leave
  BY <1>4 DEF Leave, queues, peers, Inv, TypeOK, Begun, OneOwner, OneHandler
<1>5. CASE WaitCancelled
  BY <1>5 DEF WaitCancelled, queues, peers, Inv, TypeOK, Begun, OneOwner, OneHandler
<1>6. CASE ApplicationCancels
  BY <1>6 DEF ApplicationCancels, queues, CancelGroup, TellMembers, TimeoutCancelled, At,
     Done, Reason, Inv, TypeOK, Begun, OneOwner, OneHandler
<1>7. CASE BodyRaises
  BY <1>7 DEF BodyRaises, queues, CancelGroup, TellMembers, TimeoutCancelled, At, Done,
     Reason, Inv, TypeOK, Begun, OneOwner, OneHandler
<1>8. CASE TimeoutFires
  BY <1>8 DEF TimeoutFires, queues, TellMembers, Inv, TypeOK, Begun, OneOwner, OneHandler
<1>9. CASE TimeoutStops
  BY <1>9 DEF TimeoutStops, queues, peers, Inv, TypeOK, Begun, OneOwner, OneHandler
<1>10. CASE Route
  BY <1>10 DEF Route, state, peers, Inv, TypeOK, Begun, OneOwner, OneHandler
<1>11. CASE TakeUrgent
  BY <1>11 DEF TakeUrgent, state, peers, At, Inv, TypeOK, Begun, OneOwner, OneHandler
<1>12. CASE TakeData
  BY <1>12 DEF TakeData, state, peers, At, Inv, TypeOK, Begun, OneOwner, OneHandler
<1>13. ASSUME NEW t \in Tasks, TakeError(t) PROVE Goal
  BY <1>13 DEF TakeError, queues, peers, At, Errs, Inv, TypeOK, Begun, OneOwner, OneHandler
<1>14. ASSUME NEW t \in Tasks, ErrorCancelsGroup(t) PROVE Goal
  BY <1>14 DEF ErrorCancelsGroup, queues, CancelGroup, TellMembers, TimeoutCancelled, At,
     Done, Reason, Inv, TypeOK, Begun, OneOwner, OneHandler
<1>15. ASSUME NEW t \in Tasks, GroupCancelled(t) PROVE Goal
  BY <1>15 DEF GroupCancelled, queues, TellMembers, Reason, At, Done, Inv, TypeOK, Begun,
     OneOwner, OneHandler
<1>16. ASSUME NEW t \in Tasks, Track(t) PROVE Goal
  BY <1>16 DEF Track, queues, peers, At, Done, TimeoutCancelled, Errs, Inv, TypeOK, Begun,
     OneOwner, OneHandler
<1>17. ASSUME NEW t \in Tasks, Tracked(t) PROVE Goal
  BY <1>17 DEF Tracked, queues, peers, At, Done, Inv, TypeOK, Begun, OneOwner, OneHandler
<1>18. ASSUME NEW t \in Tasks, Complete(t) PROVE Goal
  BY <1>18 DEF Complete, queues, peers, At, Done, Inv, TypeOK, Begun, OneOwner, OneHandler
<1>19. ASSUME NEW m \in Members, RouteRequest(m) PROVE Goal
  BY <1>19 DEF RouteRequest, state, queues, Inv, TypeOK, Begun, OneOwner, OneHandler
<1>20. ASSUME NEW m \in Members, TakeRequest(m) PROVE Goal
  BY <1>20 DEF TakeRequest, state, queues, Inv, TypeOK, Begun, OneOwner, OneHandler
<1>21. ASSUME NEW m \in Members, HandleCancel(m) PROVE Goal
  BY <1>21 DEF HandleCancel, state, queues, Inv, TypeOK, Begun, OneOwner, OneHandler
<1>22. ASSUME NEW m \in Members, AnswerCancel(m) PROVE Goal
  BY <1>22 DEF AnswerCancel, state, queues, Sent, Inv, TypeOK, Begun, OneOwner, OneHandler
<1>23. ASSUME NEW m \in Members, NEW status \in Statuses, NEW urgent \in BOOLEAN,
           Answer(m, status, urgent) PROVE Goal
  BY <1>23 DEF Answer, state, Sent, Inv, TypeOK, Begun, OneOwner, OneHandler
<1>24. CASE UNCHANGED vars
  BY <1>24 DEF vars, state, queues, peers, Inv, TypeOK, Begun, OneOwner, OneHandler
<1> QED BY <1>1, <1>2, <1>3, <1>4, <1>5, <1>6, <1>7, <1>8, <1>9, <1>10, <1>11, <1>12, <1>13,
           <1>14, <1>15, <1>16, <1>17, <1>18, <1>19, <1>20, <1>21, <1>22, <1>23, <1>24 DEF Next

\* A group that an error is to cancel never completes, if no member answers urgently.
THEOREM ErrorAlwaysCancels == ASSUME Urgent = {} PROVE Spec => []ErrorCancels
<1>1. Init => OneHandler
  BY DEF Init, OneHandler, Tasks
<1>2. Inv /\ OneHandler /\ [Next]_vars => OneHandler'
  BY OneHandlerKept
<1>3. OneHandler => ErrorCancels
  BY DEF OneHandler, ErrorCancels
<1> QED BY <1>1, <1>2, <1>3, Invariance, PTL DEF Spec
-----------------------------------------------------------------------------
(***************************************************************************)
(* That a group is not left alone: the part of WaitEnds that is no matter  *)
(* of fairness                                                             *)
(***************************************************************************)
\* A group that has gone is settled, or a task is to settle it; a task that waits for the
\* timeout task has cancelled it, or it has ended; one that is open has its timeout yet to
\* come, or a task waits for that. The context cancels it once.
Minded ==
  /\ caller \in {"before", "body"} => step["context"] = "idle"
  /\ group = "gone" /\ settled = "no" => \E t \in Tasks : Owns(t)
  /\ \A t \in Tasks : step[t] \in {"cancelling", "tracking"} => timeout \in {"cancelled", "ended"}
  /\ group = "open" => timeout \in {"none", "asleep"} \/ \E t \in Tasks : step[t] = "tracking"

LEMMA MindedKept ==
  Inv /\ Minded /\ [Next]_vars => Minded'
<1> DEFINE Goal == Minded'
<1> SUFFICES ASSUME Inv, Minded, [Next]_vars PROVE Goal
  OBVIOUS
<1> USE JobAssumption DEF Tasks
<1>1. CASE Enter
  BY <1>1 DEF Enter, queues, Inv, TypeOK, Begun, Full, OneOwner, Owns, Minded
<1>2. CASE NotReady
  BY <1>2 DEF NotReady, queues, peers, Inv, TypeOK, Begun, Full, OneOwner, Owns, Minded
<1>3. CASE BodyEnds
  BY <1>3 DEF BodyEnds, queues, peers, Inv, TypeOK, Begun, Full, OneOwner, Owns, Minded
<1>4. CASE Leave
  BY <1>4 DEF Leave, queues, peers, Inv, TypeOK, Begun, Full, OneOwner, Owns, Minded
<1>5. CASE WaitCancelled
  BY <1>5 DEF WaitCancelled, queues, peers, Inv, TypeOK, Begun, Full, OneOwner, Owns, Minded
<1>6. CASE ApplicationCancels
  BY <1>6 DEF ApplicationCancels, queues, CancelGroup, TellMembers, TimeoutCancelled, At,
     Done, Reason, Inv, TypeOK, Begun, Full, OneOwner, Owns, Minded
<1>7. CASE BodyRaises
  BY <1>7 DEF BodyRaises, queues, CancelGroup, TellMembers, TimeoutCancelled, At, Done,
     Reason, Inv, TypeOK, Begun, Full, OneOwner, Owns, Minded
<1>8. CASE TimeoutFires
  BY <1>8 DEF TimeoutFires, queues, TellMembers, Inv, TypeOK, Begun, Full, OneOwner, Owns,
     Minded
<1>9. CASE TimeoutStops
  BY <1>9 DEF TimeoutStops, queues, peers, Inv, TypeOK, Begun, Full, OneOwner, Owns, Minded
<1>10. CASE Route
  BY <1>10 DEF Route, state, peers, Inv, TypeOK, Begun, Full, OneOwner, Owns, Minded
<1>11. CASE TakeUrgent
  BY <1>11 DEF TakeUrgent, state, peers, At, Inv, TypeOK, Begun, Full, OneOwner, Owns, Minded
<1>12. CASE TakeData
  BY <1>12 DEF TakeData, state, peers, At, Inv, TypeOK, Begun, Full, OneOwner, Owns, Minded
<1>13. ASSUME NEW t \in Tasks, TakeError(t) PROVE Goal
  BY <1>13 DEF TakeError, queues, peers, At, Errs, Inv, TypeOK, Begun, Full, OneOwner, Owns,
     Minded
<1>14. ASSUME NEW t \in Tasks, ErrorCancelsGroup(t) PROVE Goal
  BY <1>14 DEF ErrorCancelsGroup, queues, CancelGroup, TellMembers, TimeoutCancelled, At,
     Done, Reason, Inv, TypeOK, Begun, Full, OneOwner, Owns, Minded
<1>15. ASSUME NEW t \in Tasks, GroupCancelled(t) PROVE Goal
  BY <1>15 DEF GroupCancelled, queues, TellMembers, Reason, At, Done, Inv, TypeOK, Begun,
     Full, OneOwner, Owns, Minded
<1>16. ASSUME NEW t \in Tasks, Track(t) PROVE Goal
  BY <1>16 DEF Track, queues, peers, At, Done, TimeoutCancelled, Errs, Inv, TypeOK, Begun,
     Full, OneOwner, Owns, Minded
<1>17. ASSUME NEW t \in Tasks, Tracked(t) PROVE Goal
  BY <1>17 DEF Tracked, queues, peers, At, Done, Inv, TypeOK, Begun, Full, OneOwner, Owns,
     Minded
<1>18. ASSUME NEW t \in Tasks, Complete(t) PROVE Goal
  BY <1>18 DEF Complete, queues, peers, At, Done, Inv, TypeOK, Begun, Full, OneOwner, Owns,
     Minded
<1>19. ASSUME NEW m \in Members, RouteRequest(m) PROVE Goal
  BY <1>19 DEF RouteRequest, state, queues, Inv, TypeOK, Begun, Full, OneOwner, Owns, Minded
<1>20. ASSUME NEW m \in Members, TakeRequest(m) PROVE Goal
  BY <1>20 DEF TakeRequest, state, queues, Inv, TypeOK, Begun, Full, OneOwner, Owns, Minded
<1>21. ASSUME NEW m \in Members, HandleCancel(m) PROVE Goal
  BY <1>21 DEF HandleCancel, state, queues, Inv, TypeOK, Begun, Full, OneOwner, Owns, Minded
<1>22. ASSUME NEW m \in Members, AnswerCancel(m) PROVE Goal
  BY <1>22 DEF AnswerCancel, state, queues, Sent, Inv, TypeOK, Begun, Full, OneOwner, Owns,
     Minded
<1>23. ASSUME NEW m \in Members, NEW status \in Statuses, NEW urgent \in BOOLEAN,
           Answer(m, status, urgent) PROVE Goal
  BY <1>23 DEF Answer, state, Sent, Inv, TypeOK, Begun, Full, OneOwner, Owns, Minded
<1>24. CASE UNCHANGED vars
  BY <1>24 DEF vars, state, queues, peers, Inv, TypeOK, Begun, Full, OneOwner, Owns, Minded
<1> QED BY <1>1, <1>2, <1>3, <1>4, <1>5, <1>6, <1>7, <1>8, <1>9, <1>10, <1>11, <1>12, <1>13,
     <1>14, <1>15, <1>16, <1>17, <1>18, <1>19, <1>20, <1>21, <1>22, <1>23, <1>24 DEF Next

Has(q, m) == \E i \in DOMAIN q : q[i] = m

\* The answer of m has still to be counted.
UnderWay(m) ==
  \/ Has(urgentQueue, m) \/ Has(plainQueue, m) \/ Has(dataQueue, m)
  \/ \E t \in Tasks : member[t] = m /\ step[t] = "response"

\* No answer to an open group gets lost, and who counts the last one closes the group.
Arriving ==
  /\ group = "open"
       => \A m \in Members : answer[m] # "none" => m \in responses \/ UnderWay(m)
  /\ group = "open" /\ responses = Members
       => \E t \in Tasks : step[t] \in {"tracking", "error"}

LEMMA AppendHas ==
  ASSUME NEW q \in Seq(Members), NEW e \in Members
  PROVE  Has(Append(q, e), e) /\ \A m : Has(q, m) => Has(Append(q, e), m)
<1> DEFINE r == Append(q, e)
<1>1. /\ Len(q) + 1 \in DOMAIN r /\ r[Len(q) + 1] = e
      /\ \A i \in DOMAIN q : i \in DOMAIN r /\ r[i] = q[i]
  OBVIOUS
<1> HIDE DEF r
<1>2. Has(r, e) /\ \A m : Has(q, m) => Has(r, m)
  BY <1>1 DEF Has
<1> QED
  BY <1>2 DEF r

LEMMA TailHas ==
  ASSUME NEW q \in Seq(Members), q # <<>>, NEW m, Has(q, m)
  PROVE  m = Head(q) \/ Has(Tail(q), m)
<1> DEFINE r == Tail(q)
<1>1. PICK i \in DOMAIN q : q[i] = m
  BY DEF Has
<1>2. i = 1 \/ (i - 1 \in DOMAIN r /\ r[i - 1] = q[i])
  <2>1. /\ Len(q) \in Nat /\ DOMAIN q = 1 .. Len(q) /\ DOMAIN r = 1 .. Len(q) - 1
        /\ \A j \in DOMAIN r : r[j] = q[j + 1]
    OBVIOUS
  <2> HIDE DEF r
  <2>2. ASSUME i # 1 PROVE i - 1 \in DOMAIN r /\ (i - 1) + 1 = i
    BY <1>1, <2>1, <2>2
  <2> QED
    BY <2>1, <2>2
<1>3. q[1] = Head(q)
  OBVIOUS
<1> HIDE DEF r
<1>4. m = Head(q) \/ Has(r, m)
  BY <1>1, <1>2, <1>3 DEF Has
<1> QED
  BY <1>4 DEF r

\* The steps that move no answer.
LEMMA OthersLeaveAnswers ==
  ASSUME Inv, \/ UNCHANGED vars \/ NotReady \/ BodyEnds \/ Leave \/ WaitCancelled
              \/ ApplicationCancels \/ BodyRaises \/ TimeoutFires \/ TimeoutStops
              \/ \E t \in Tasks : ErrorCancelsGroup(t) \/ GroupCancelled(t) \/ Tracked(t)
                                  \/ Complete(t)
              \/ \E m \in Members : RouteRequest(m) \/ TakeRequest(m) \/ HandleCancel(m)
  PROVE  group' # "open" \/ UNCHANGED <<group, responses, answer, queues, step, member>>
<1>1. ASSUME NEW t \in Tasks, GroupCancelled(t) \/ Complete(t) PROVE group' # "open"
  <2>1. Owns(t) /\ group' = group
    BY <1>1 DEF Owns, GroupCancelled, Complete
  <2> QED
    BY <2>1 DEF Inv, OneOwner, TypeOK
<1>2. ASSUME NEW t \in Tasks, ErrorCancelsGroup(t) \/ Tracked(t) PROVE group' # "open"
  BY <1>2 DEF ErrorCancelsGroup, Tracked, CancelGroup
<1>3. CASE ApplicationCancels \/ BodyRaises
  BY <1>3 DEF ApplicationCancels, BodyRaises, CancelGroup
<1>4. CASE TimeoutFires
  BY <1>4 DEF TimeoutFires
<1>5. CASE \/ UNCHANGED vars \/ NotReady \/ BodyEnds \/ Leave \/ WaitCancelled \/ TimeoutStops
           \/ \E m \in Members : RouteRequest(m) \/ TakeRequest(m) \/ HandleCancel(m)
  BY <1>5 DEF vars, state, peers, queues, NotReady, BodyEnds, Leave, WaitCancelled,
     TimeoutStops, RouteRequest, TakeRequest, HandleCancel
<1> QED
  BY <1>1, <1>2, <1>3, <1>4, <1>5

LEMMA ArrivingKept == Inv /\ Arriving /\ [Next]_vars => Arriving'
<1> SUFFICES ASSUME Inv, Arriving, [Next]_vars PROVE Arriving'
  OBVIOUS
<1> Urgent \subseteq Members /\ \A q \in Seq(Urgent) : q \in Seq(Members)
  BY JobAssumption
<1>a. urgentQueue \in Seq(Members) /\ plainQueue \in Seq(Members) /\ dataQueue \in Seq(Members)
  BY DEF Inv, TypeOK
<1>b. /\ step \in [Tasks -> {"idle", "response", "error", "cancelling", "tracking", "completing"}]
      /\ member \in [Tasks -> Members \cup {None}]
  BY DEF Inv, TypeOK
<1>c. "router" \in Tasks /\ "data" \in Tasks
  BY DEF Tasks
<1>1. CASE group' # "open"
  BY <1>1 DEF Arriving
<1>2. CASE UNCHANGED <<group, responses, answer, queues, step, member>>
  BY <1>2 DEF Arriving, UnderWay, queues
<1>3. CASE Enter
  <2>1. \A m \in Members : answer[m] = "none"
    BY <1>3 DEF Enter, Inv, Begun
  <2>2. responses # Members
    BY <2>1, JobAssumption DEF Inv, Given, Answered
  <2> QED
    BY <1>3, <2>1, <2>2 DEF Enter, Arriving
<1>4. CASE Route
  <2>1. /\ plainQueue # <<>> /\ plainQueue' = Tail(plainQueue) /\ Head(plainQueue) \in Members
        /\ dataQueue' = Append(dataQueue, Head(plainQueue)) /\ urgentQueue' = urgentQueue
        /\ UNCHANGED <<group, responses, answer, step, member>>
    BY <1>4, <1>a DEF Route, state, peers
  <2>2. \A m \in Members : UnderWay(m) => UnderWay(m)'
    BY <1>a, <2>1, AppendHas, TailHas DEF UnderWay
  <2> QED
    BY <2>1, <2>2 DEF Arriving
<1>5. ASSUME NEW t \in Tasks, step[t] = "idle", At(t, "response"),
             UNCHANGED <<group, responses, answer, plainQueue>>,
             \/ /\ urgentQueue # <<>> /\ urgentQueue' = Tail(urgentQueue)
                /\ member' = [member EXCEPT ![t] = Head(urgentQueue)] /\ UNCHANGED dataQueue
             \/ /\ dataQueue # <<>> /\ dataQueue' = Tail(dataQueue)
                /\ member' = [member EXCEPT ![t] = Head(dataQueue)] /\ UNCHANGED urgentQueue
      PROVE  Arriving'
  <2>1. \A u \in Tasks : u # t => step'[u] = step[u] /\ member'[u] = member[u]
    BY <1>5, <1>b DEF At
  <2>2. step'[t] = "response"
    BY <1>5, <1>b DEF At
  <2>3. ASSUME NEW m \in Members, UnderWay(m) PROVE UnderWay(m)'
    <3>1. CASE \E u \in Tasks : member[u] = m /\ step[u] = "response"
      BY <1>5, <2>1, <3>1 DEF UnderWay
    <3>2. CASE Has(urgentQueue, m)
      <4>1. Has(urgentQueue', m) \/ member'[t] = m
        BY <1>5, <1>a, <1>b, <3>2, TailHas
      <4> QED
        BY <2>2, <4>1 DEF UnderWay
    <3>3. CASE Has(dataQueue, m)
      <4>1. Has(dataQueue', m) \/ member'[t] = m
        BY <1>5, <1>a, <1>b, <3>3, TailHas
      <4> QED
        BY <2>2, <4>1 DEF UnderWay
    <3>4. CASE Has(plainQueue, m)
      BY <1>5, <3>4 DEF UnderWay
    <3> QED
      BY <2>3, <3>1, <3>2, <3>3, <3>4 DEF UnderWay
  <2>4. \A u \in Tasks : step[u] \in {"tracking", "error"} => step'[u] = step[u]
    BY <1>5, <2>1
  <2> QED
    BY <1>5, <2>3, <2>4 DEF Arriving
<1>6. CASE TakeUrgent \/ TakeData
  BY <1>5, <1>6, <1>c DEF TakeUrgent, TakeData, state, peers
<1>7. ASSUME NEW t \in Tasks, TakeError(t) PROVE Arriving'
  <2>1. /\ step[t] = "response" /\ member[t] \in responses' /\ responses \subseteq responses'
        /\ UNCHANGED <<group, answer, queues, member>>
        /\ step'[t] = "error" /\ \A u \in Tasks : u # t => step'[u] = step[u]
    BY <1>7, <1>b DEF TakeError, peers, At
  <2>2. ASSUME NEW m \in Members, UnderWay(m) PROVE m \in responses' \/ UnderWay(m)'
    BY <2>1, <2>2 DEF UnderWay, queues
  <2> QED
    BY <2>1, <2>2 DEF Arriving
<1>8. ASSUME NEW t \in Tasks, Track(t), group' = "open" PROVE Arriving'
  <2>1. /\ step[t] = "response" /\ group = "open" /\ responses' = responses \cup {member[t]}
        /\ UNCHANGED <<answer, queues>>
        /\ step'[t] # "response"
        /\ \A u \in Tasks : u # t => step'[u] = step[u] /\ member'[u] = member[u]
        /\ responses' = Members => step'[t] = "tracking"
    BY <1>8, <1>b DEF Track, peers, At, Done
  <2>2. ASSUME NEW m \in Members, UnderWay(m) PROVE m \in responses' \/ UnderWay(m)'
    BY <2>1, <2>2 DEF UnderWay, queues
  <2> QED
    BY <2>1, <2>2 DEF Arriving
<1>9. ASSUME NEW m \in Members, NEW status \in Statuses, NEW urgent \in BOOLEAN,
             Sent(m, status, urgent), UNCHANGED <<group, responses, step, member>>
      PROVE  Arriving'
  <2>1. \A n \in Members : n # m => answer'[n] = answer[n]
    BY <1>9 DEF Sent, Inv, TypeOK
  <2>a. /\ \/ urgentQueue' = Append(urgentQueue, m) /\ plainQueue' = plainQueue
           \/ plainQueue' = Append(plainQueue, m) /\ urgentQueue' = urgentQueue
        /\ dataQueue' = dataQueue
    BY <1>9 DEF Sent
  <2>b. /\ Has(Append(urgentQueue, m), m)
        /\ \A n : Has(urgentQueue, n) => Has(Append(urgentQueue, m), n)
    BY <1>a, AppendHas
  <2>c. /\ Has(Append(plainQueue, m), m)
        /\ \A n : Has(plainQueue, n) => Has(Append(plainQueue, m), n)
    BY <1>a, AppendHas
  <2>2. UnderWay(m)'
    BY <2>a, <2>b, <2>c DEF UnderWay
  <2>3. ASSUME NEW n \in Members, UnderWay(n) PROVE UnderWay(n)'
    <3>1. /\ Has(urgentQueue, n) => Has(urgentQueue', n)
          /\ Has(plainQueue, n) => Has(plainQueue', n)
      BY <2>a, <2>b, <2>c
    <3> QED
      BY <1>9, <2>a, <2>3, <3>1 DEF UnderWay
  <2> QED
    BY <1>9, <2>1, <2>2, <2>3 DEF Arriving
<1>10. ASSUME NEW m \in Members, AnswerCancel(m) PROVE Arriving'
  BY <1>2, <1>9, <1>10 DEF AnswerCancel, Statuses, state, queues
<1>11. ASSUME NEW m \in Members, NEW status \in Statuses, NEW urgent \in BOOLEAN,
              Answer(m, status, urgent)
       PROVE  Arriving'
  BY <1>9, <1>11 DEF Answer, state
<1> QED
  BY <1>1, <1>2, <1>3, <1>4, <1>6, <1>7, <1>8, <1>10, <1>11, OthersLeaveAnswers DEF Next

\* While a group is unsettled, something can go on that leads to its end: a member has yet to
\* answer, an answer is under way, its timeout has yet to come, or a task is about to settle
\* it and waits for no timeout task that still sleeps. No interleaving of the tasks that look
\* the group up and remove it (base_worker.py, cancel_job_group, _track_job_group_response,
\* _task_timeout) leaves it to nobody.
NeverAbandoned ==
  group # "none" /\ settled = "no" =>
    \/ group = "open" /\ \/ timeout = "asleep"
                         \/ \E m \in Members : answer[m] = "none" \/ UnderWay(m)
    \/ \E t \in Tasks :
         \/ step[t] \in {"error", "completing"}
         \/ step[t] \in {"cancelling", "tracking"} /\ timeout \in {"cancelled", "ended"}

THEOREM GroupNeverAbandoned == Spec => []NeverAbandoned
<1>1. Init => Minded /\ Arriving
  BY DEF Init, Minded, Arriving, Tasks
<1>2. Inv /\ Minded /\ Arriving /\ [Next]_vars => Minded' /\ Arriving'
  BY MindedKept, ArrivingKept
<1>3. Inv /\ Minded /\ Arriving => NeverAbandoned
  <2> SUFFICES ASSUME Inv, Minded, Arriving, group # "none", settled = "no" PROVE NeverAbandoned
    BY DEF NeverAbandoned
  <2>1. CASE group = "gone"
    BY <2>1 DEF Minded, Owns, NeverAbandoned
  <2>2. CASE group = "open"
    <3>1. CASE \E m \in Members : answer[m] = "none" \/ UnderWay(m)
      BY <2>2, <3>1 DEF NeverAbandoned
    <3>2. CASE \A m \in Members : answer[m] # "none" /\ ~UnderWay(m)
      <4>1. responses = Members
        BY <2>2, <3>2 DEF Arriving, Inv, TypeOK
      <4>2. PICK t \in Tasks : step[t] \in {"tracking", "error"}
        BY <2>2, <4>1 DEF Arriving
      <4> QED
        BY <4>2 DEF Minded, NeverAbandoned
    <3> QED
      BY <3>1, <3>2
  <2> QED
    BY <2>1, <2>2 DEF Inv, TypeOK
<1> QED
  BY <1>1, <1>2, <1>3, Invariance, PTL DEF Spec
=============================================================================
