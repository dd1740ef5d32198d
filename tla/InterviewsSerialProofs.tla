----------------------- MODULE InterviewsSerialProofs -----------------------
(***************************************************************************)
(* The interviews while handlers run one at a time and to their end: the   *)
(* tables agree with each other whenever nothing runs. A handler passes    *)
(* through states in which they do not; what holds there is stated of the  *)
(* tables and of the task that is being executed.                          *)
(***************************************************************************)
EXTENDS InterviewsDeskProofs

\* The task that is being executed, or Resting.
Current == IF Quiet THEN {Resting} ELSE {task[r] : r \in {q \in Requests : ~Idle(q)}}
RunsAlone == alone => \A q, r \in Requests : (~Idle(q) /\ ~Idle(r)) => q = r

ClaimList == <<"claimSlot", "select", "stage", "invite">>
SelectList == <<"select", "stage", "invite">>
ReleaseList == <<"release", "stage">>
CompleteList == <<"complete", "stage">>

LEMMA CurrentStart ==
    ASSUME Inv, alone', NEW r \in Requests, NEW d, NEW t, t.todo # <<>>, BeginAt(r, d, t)
    PROVE  alone /\ Current = {Resting} /\ Current' = {t} /\ RunsAlone'
<1>1. alone /\ Quiet /\ task' = [task EXCEPT ![r] = t]
    BY DEF BeginAt
<1>2. task'[r] = t /\ \A q \in Requests : q # r => task'[q].todo = <<>>
    BY <1>1 DEF Quiet, Idle, Inv
<1>3. ~Quiet' /\ {q \in Requests : ~Idle(q)'} = {r} /\ RunsAlone'
    BY <1>2 DEF Quiet, Idle, RunsAlone
<1>4. Current' = {t}
    BY <1>2, <1>3 DEF Current
<1> QED
    BY <1>1, <1>4, <1>3 DEF Current

LEMMA CurrentStep ==
    ASSUME Inv, RunsAlone, alone', alone' = alone, NEW r \in Requests, task[r].todo # <<>>,
           NEW x, task' = [task EXCEPT ![r] = x], x.todo = <<>> => x = Resting
    PROVE  alone /\ Current = {task[r]} /\ Current' = {x} /\ RunsAlone'
<1>1. alone /\ ~Idle(r) /\ ~Quiet /\ \A q \in Requests : q # r => task[q].todo = <<>>
    BY DEF RunsAlone, Quiet, Idle
<1>2. Current = {task[r]}
  <2>1. {q \in Requests : ~Idle(q)} = {r}
      BY <1>1 DEF Idle
  <2> QED
      BY <1>1, <2>1 DEF Current
<1>3. task'[r] = x /\ \A q \in Requests : q # r => task'[q].todo = <<>>
    BY <1>1 DEF Inv
<1>4. RunsAlone'
    BY <1>3 DEF RunsAlone, Idle
<1>5. CASE x.todo = <<>>
    BY <1>1, <1>2, <1>3, <1>4, <1>5 DEF Current, Quiet, Idle
<1>6. CASE x.todo # <<>>
  <2>1. ~Quiet' /\ {q \in Requests : ~Idle(q)'} = {r}
      BY <1>3, <1>6 DEF Quiet, Idle
  <2>2. Current' = {x}
      BY <1>3, <2>1 DEF Current
  <2> QED
      BY <1>1, <1>2, <1>4, <2>2
<1> QED
    BY <1>5, <1>6

\* Where a statement leaves its task.
Moves(t, x) ==
    /\ x.todo = <<>> => x = Resting
    /\ x.todo # <<>> => x.todo = Tail(t.todo)
    /\ (x.todo # <<>> /\ Head(t.todo) \notin {"look", "find", "nextRound"}) => x = [t EXCEPT !.todo = Tail(t.todo)]

LEMMA MovesOn ==
    ASSUME NEW t, NEW x, x.todo = Tail(t.todo), Tail(t.todo) # <<>>,
           Head(t.todo) \notin {"look", "find", "nextRound"} => x = [t EXCEPT !.todo = Tail(t.todo)]
    PROVE  Moves(t, x)
BY Zenon DEF Moves

LEMMA StepMoves ==
    ASSUME Inv, NEW r \in Requests, Step(r)
    PROVE  /\ alone' = alone /\ desk' = desk /\ task[r].todo \in Lists
           /\ \E x \in Task : task' = [task EXCEPT ![r] = x] /\ Moves(task[r], x)
<1>1. alone' = alone /\ desk' = desk /\ task[r].todo # <<>>
    BY DEF Step, ReplaceSlots, PutSlots, MarkSlot, ClaimSlot, SelectSlot, SendInvites, Release, Complete, Join, Unjoin,
           ClaimDecision, OpenNextRound, LiftHold, Hold, Hire, Transition, SendMail, ClearSlots, OfferSlots,
           Unschedule, LookAtRound, RecordResult, CreateRound, FindFailed, ReopenRound, Overwrite, OpenRound,
           SetHiring, At
<1>2. PICK t \in Task : t = task[r] /\ t.todo \in Lists
    BY <1>1 DEF Inv, TasksAgree, Agrees
<1>12. /\ \A l \in StageLists \union ResultLists : l # <<>>
       /\ <<"offer", "stage">> # <<>> /\ <<"reopen">> # <<>>
    BY DEF StageLists, ResultLists
<1>3. ASSUME NEW x \in Task, task' = [task EXCEPT ![r] = x], Moves(t, x)
      PROVE  \E y \in Task : task' = [task EXCEPT ![r] = y] /\ Moves(task[r], y)
    BY <1>2, <1>3
<1>4. \A x : task' = [task EXCEPT ![r] = x] => x \in Task
    BY StepKeeps DEF Inv
<1>5. CASE Continue(r)
  <2>1. PICK x : x = Rest(t)
      OBVIOUS
  <2>2. task' = [task EXCEPT ![r] = x]
      BY <1>2, <1>5, <2>1 DEF Continue
  <2>3. CASE Tail(t.todo) = <<>>
    <3>1. x = Resting
        BY <2>1, <2>3 DEF Rest
    <3> QED
        BY Zenon, <1>1, <1>2, <1>3, <1>4, <2>2, <3>1, RestingType DEF Moves
  <2>4. CASE Tail(t.todo) # <<>>
    <3>1. x = [t EXCEPT !.todo = Tail(t.todo)]
        BY <2>1, <2>4 DEF Rest
    <3>2. x.todo = Tail(t.todo)
        BY <1>2, <3>1 DEF Task
    <3> QED
        BY <1>1, <1>2, <1>3, <1>4, <2>2, <2>4, <3>1, <3>2, MovesOn
  <2> QED
      BY <2>3, <2>4
<1>6. CASE Abort(r)
  <2>1. task' = [task EXCEPT ![r] = Resting] /\ Moves(t, Resting)
      BY Zenon, <1>6, RestingType DEF Abort, Moves
  <2> QED
      BY <1>1, <1>2, <1>3, <1>4, <2>1
<1>7. CASE OpenNextRound(r)
  <2>1. At(r, "next") /\ task' = [task EXCEPT ![r] = [task[r] EXCEPT !.todo = Tail(@)]]
      BY <1>7 DEF OpenNextRound, OpenRound
  <2>2. PICK x : x = [t EXCEPT !.todo = Tail(t.todo)]
      OBVIOUS
  <2>3. task' = [task EXCEPT ![r] = x] /\ Head(t.todo) = "next"
      BY <1>2, <2>1, <2>2 DEF At, Inv
  <2>4. Tail(t.todo) # <<>>
      BY <1>2, <2>3, TailOf, <1>12 DEF ResultLists
  <2>5. x.todo = Tail(t.todo)
      BY <1>2, <2>2 DEF Task
  <2>6. Moves(t, x)
      BY <2>2, <2>3, <2>4, <2>5, MovesOn
  <2> QED
      BY <1>1, <1>2, <1>3, <1>4, <2>3, <2>6
<1>8. CASE LookAtRound(r)
  <2>1. At(r, "look") /\ task' = [task EXCEPT ![r].was = Target(r).status, ![r].todo = Tail(@)]
      BY <1>8 DEF LookAtRound, OpenRound
  <2>2. PICK x : x = [t EXCEPT !.was = Target(r).status, !.todo = Tail(t.todo)]
      OBVIOUS
  <2>3. task' = [task EXCEPT ![r] = x] /\ Head(t.todo) = "look"
      BY <1>2, <2>1, <2>2 DEF At, Inv
  <2>4. Tail(t.todo) # <<>>
      BY <1>2, <2>3, TailOf, <1>12 DEF ResultLists
  <2>5. x.todo = Tail(t.todo)
      BY <1>2, <2>2 DEF Task
  <2>6. Moves(t, x)
      BY <2>2, <2>3, <2>4, <2>5, MovesOn
  <2> QED
      BY <1>1, <1>2, <1>3, <1>4, <2>3, <2>6
<1>9. CASE CreateRound(r)
  <2>1. At(r, "nextRound") /\ task' = [task EXCEPT ![r] = [task[r] EXCEPT !.round = nrounds + 1, !.todo = Tail(@)]]
      BY <1>9 DEF CreateRound, OpenRound
  <2>2. PICK x : x = [t EXCEPT !.round = nrounds + 1, !.todo = Tail(t.todo)]
      OBVIOUS
  <2>3. task' = [task EXCEPT ![r] = x] /\ Head(t.todo) = "nextRound"
      BY <1>2, <2>1, <2>2 DEF At, Inv
  <2>4. Tail(t.todo) # <<>>
      BY <1>2, <2>3, TailOf, <1>12 DEF ResultLists
  <2>5. x.todo = Tail(t.todo)
      BY <1>2, <2>2 DEF Task
  <2>6. Moves(t, x)
      BY <2>2, <2>3, <2>4, <2>5, MovesOn
  <2> QED
      BY <1>1, <1>2, <1>3, <1>4, <2>3, <2>6
<1>10. CASE FindFailed(r) /\ ~Abort(r)
  <2>1. At(r, "find") /\ \E i \in 1 .. nrounds :
            task' = [task EXCEPT ![r].round = i, ![r].at = rounds[i].at, ![r].todo = Tail(@)]
      BY <1>10 DEF FindFailed
  <2>2. PICK i \in 1 .. nrounds :
            task' = [task EXCEPT ![r].round = i, ![r].at = rounds[i].at, ![r].todo = Tail(@)]
      BY <2>1
  <2>3. PICK x : x = [t EXCEPT !.round = i, !.at = rounds[i].at, !.todo = Tail(t.todo)]
      OBVIOUS
  <2>4. task' = [task EXCEPT ![r] = x]
      BY <1>2, <2>2, <2>3 DEF Inv
  <2>5. Head(t.todo) = "find"
      BY <1>2, <2>1 DEF At
  <2>6. Tail(t.todo) # <<>>
      BY <1>2, <2>5, <1>12, TailOf
  <2>7. x.todo = Tail(t.todo)
      BY <1>2, <2>3 DEF Task
  <2>8. Moves(t, x)
      BY <2>5, <2>6, <2>7, MovesOn
  <2> QED
      BY <1>1, <1>2, <1>3, <1>4, <2>4, <2>8
<1>11. Step(r) => Continue(r) \/ Abort(r) \/ OpenNextRound(r) \/ LookAtRound(r) \/ CreateRound(r) \/ FindFailed(r)
    BY DEF Step, ReplaceSlots, PutSlots, MarkSlot, ClaimSlot, SelectSlot, SendInvites, Release, Complete, Join, Unjoin,
           ClaimDecision, LiftHold, Hold, Hire, Transition, SendMail, ClearSlots, OfferSlots,
           Unschedule, RecordResult, ReopenRound, Overwrite, SetHiring
<1> QED
    BY <1>1, <1>2, <1>5, <1>6, <1>7, <1>8, <1>9, <1>10, <1>11

\* What a handler begins with, and what it has read.
BeganPlain(t) == t.todo \in {<<"slots">>, <<"joined">>, <<"unjoined">>}
BeganMark(t) ==
    /\ t.todo \in {<<"markUnavailable">>, <<"markAvailable">>}
    /\ t.slot \in SlotIds /\ t.round = slots[t.slot].round
    /\ ~(slots[t.slot].selected /\ rounds[t.round].status = "Scheduled")
BeganConfirm(t) ==
    /\ t.todo = ClaimList
    /\ t.slot \in SlotIds /\ slots[t.slot].round = t.round /\ slots[t.slot].at = t.at /\ ~slots[t.slot].unavailable
    /\ t.round \in 1 .. nrounds /\ rounds[t.round].status \in Schedulable /\ t.stage = StageFor(rounds[t.round])
BeganRelease(t) ==
    /\ t.todo = ReleaseList /\ t.round \in 1 .. nrounds /\ rounds[t.round].status = "Scheduled"
    /\ t.stage \in {"INTERVIEW_NOT_ATTENDED", "RESCHEDULE_REQUESTED"}
BeganComplete(t) ==
    /\ t.todo = CompleteList /\ t.round \in 1 .. nrounds /\ rounds[t.round].status = "Scheduled"
    /\ t.stage = "INTERVIEW_ATTENDED"
BeganMail(t) == t.todo = <<"mail">> /\ rounds[t.round].decision = t.decision
BeganOffer(t) == t.todo = <<"clear", "offer", "unschedule">> /\ t.round \in 1 .. nrounds /\ rounds[t.round].status # "Completed"
BeganUndo(t) ==
    /\ t.todo = IF stage = "REJECTED" /\ logged \in FromInterview THEN <<"stage", "find", "reopen">> ELSE <<"stage">>
    /\ t.stage = logged /\ stage \in Marks

Began(d, t) ==
    \/ /\ d = desk
       /\ \/ BeganPlain(t) \/ BeganMark(t) \/ BeganConfirm(t) \/ BeganRelease(t) \/ BeganComplete(t) \/ BeganMail(t)
    \/ d = "q3" /\ desk # "portal" /\ BeganDecide(t)
    \/ d = "portal" /\ desk # "q3" /\ (BeganOffer(t) \/ BeganResult(t) \/ BeganUndo(t))

LEMMA StartBegan ==
    ASSUME Inv, NEW r \in Requests, Start(r)
    PROVE  \E d, t : BeginAt(r, d, t) /\ t \in Task /\ t.todo # <<>> /\ Agrees(t) /\ Began(d, t)
<1> DEFINE Goal == \E d, t : BeginAt(r, d, t) /\ t \in Task /\ t.todo # <<>> /\ Agrees(t) /\ Began(d, t)
<1>1. ASSUME NEW t \in Task, Agrees(t), t.todo # <<>>, Begin(r, t),
             \/ BeganPlain(t) \/ BeganMark(t) \/ BeganConfirm(t) \/ BeganRelease(t) \/ BeganComplete(t) \/ BeganMail(t)
      PROVE  Goal
    BY Zenon, <1>1 DEF Begin, Began
<1>2. ASSUME NEW t \in Task, Agrees(t), t.todo # <<>>, BeginAt(r, "portal", t), desk \in {"none", "portal"},
             BeganOffer(t) \/ BeganResult(t) \/ BeganUndo(t)
      PROVE  Goal
  <2>1. desk # "q3"
      BY <1>2
  <2>2. Began("portal", t)
      BY Zenon, <1>2, <2>1 DEF Began
  <2> QED
      BY Zenon, <1>2, <2>2
<1>3. ASSUME NEW t \in Task, Agrees(t), t.todo # <<>>, BeginAt(r, "q3", t), desk \in {"none", "q3"}, BeganDecide(t)
      PROVE  Goal
  <2>1. desk # "portal"
      BY <1>3
  <2>2. Began("q3", t)
      BY Zenon, <1>3, <2>1 DEF Began
  <2> QED
      BY Zenon, <1>3, <2>2
<1> HIDE DEF Goal
<1>4. ASSUME NEW i \in 1 .. nrounds, NEW times \in SUBSET Times, EditRound(r, i, times) PROVE Goal
  <2>1. PICK t \in Task : Agrees(t) /\ Begin(r, t) /\ t.todo = <<"slots">>
      BY <1>4, EditBegins
  <2>2. BeganPlain(t) /\ t.todo # <<>>
      BY <2>1 DEF BeganPlain
  <2> QED
      BY <1>1, <2>1, <2>2
<1>5. ASSUME NEW i \in 1 .. nrounds, NEW b \in BOOLEAN, Checklist(r, i, b) PROVE Goal
  <2>1. PICK t \in Task : Agrees(t) /\ Begin(r, t) /\ t.todo \in {<<"joined">>, <<"unjoined">>}
    <3>1. b = TRUE \/ b = FALSE
        OBVIOUS
    <3>2. CASE b = TRUE
      <4>1. Checklist(r, i, TRUE)
          BY <1>5, <3>2
      <4> QED
          BY <4>1, JoinBegins
    <3>3. CASE b = FALSE
      <4>1. Checklist(r, i, FALSE)
          BY <1>5, <3>3
      <4> QED
          BY <4>1, UnjoinBegins
    <3> QED
        BY <3>1, <3>2, <3>3
  <2>2. BeganPlain(t) /\ t.todo # <<>>
      BY <2>1 DEF BeganPlain
  <2> QED
      BY <1>1, <2>1, <2>2
<1>6. ASSUME NEW s \in SlotIds, NEW b \in BOOLEAN, SetSlotUnavailable(r, s, b) PROVE Goal
  <2>1. PICK t \in Task : /\ Agrees(t) /\ Begin(r, t)
                          /\ t.todo \in {<<"markUnavailable">>, <<"markAvailable">>}
                          /\ t.slot = s /\ t.round = slots[s].round /\ slots[s].round # 0
                          /\ ~(slots[s].selected /\ rounds[slots[s].round].status = "Scheduled")
      BY <1>6, AvailabilityBegins
  <2>2. BeganMark(t) /\ t.todo # <<>>
      BY <2>1 DEF BeganMark
  <2> QED
      BY <1>1, <2>1, <2>2
<1>7. ASSUME NEW s \in SlotIds, Confirm(r, s) PROVE Goal
  <2>1. PICK t \in Task : /\ Agrees(t) /\ Begin(r, t)
                          /\ t.todo = ClaimList
                          /\ t.slot = s /\ t.round = slots[s].round /\ t.at = slots[s].at /\ slots[s].round # 0
                          /\ t.stage = StageFor(rounds[slots[s].round])
                          /\ rounds[slots[s].round].status \in Schedulable /\ ~slots[s].unavailable
      BY <1>7, ConfirmBegins DEF ClaimList
  <2>2. BeganConfirm(t)
      BY <2>1, SlotRound DEF BeganConfirm
  <2>3. t.todo # <<>>
      BY <2>1 DEF ClaimList
  <2> QED
      BY <1>1, <2>1, <2>2, <2>3
<1>8. ASSUME NEW i \in 1 .. nrounds, Reschedule(r, i) PROVE Goal
  <2>1. PICK t \in Task : /\ Agrees(t) /\ Begin(r, t) /\ t.todo = ReleaseList /\ t.round = i
                          /\ t.stage \in {"INTERVIEW_NOT_ATTENDED", "RESCHEDULE_REQUESTED"}
                          /\ rounds[i].status = "Scheduled"
      BY <1>8, RescheduleBegins DEF ReleaseList
  <2>2. BeganRelease(t) /\ t.todo # <<>>
      BY <2>1 DEF BeganRelease, ReleaseList
  <2> QED
      BY <1>1, <2>1, <2>2
<1>9. ASSUME NEW i \in 1 .. nrounds, Conducted(r, i) PROVE Goal
  <2>1. PICK t \in Task : /\ Agrees(t) /\ Begin(r, t) /\ t.todo = CompleteList /\ t.round = i
                          /\ t.stage = "INTERVIEW_ATTENDED" /\ rounds[i].status = "Scheduled"
      BY <1>9, ConductedBegins DEF CompleteList
  <2>2. BeganComplete(t) /\ t.todo # <<>>
      BY <2>1 DEF BeganComplete, CompleteList
  <2> QED
      BY <1>1, <2>1, <2>2
<1>10. ASSUME NEW i \in 1 .. nrounds, SendDecisionMail(r, i) PROVE Goal
  <2>1. PICK t \in Task : /\ Agrees(t) /\ Begin(r, t) /\ t.todo = <<"mail">> /\ t.round = i
                          /\ t.decision = rounds[i].decision
      BY <1>10, MailBegins
  <2>2. BeganMail(t) /\ t.todo # <<>>
      BY <2>1 DEF BeganMail
  <2> QED
      BY <1>1, <2>1, <2>2
<1>11. ASSUME NEW i \in 1 .. nrounds, NEW d \in Decisions, NEW b, Decide(r, i, d, b) PROVE Goal
  <2>1. PICK t \in Task : /\ Agrees(t) /\ BeginAt(r, "q3", t) /\ BeganDecide(t)
                          /\ t.todo \in DecideLists /\ desk \in {"none", "q3"}
      BY <1>11, DecideBegins
  <2>2. t.todo # <<>>
      BY <2>1 DEF DecideLists
  <2> QED
      BY <1>3, <2>1, <2>2
<1>12. ASSUME NEW i \in 1 .. nrounds, NEW times \in SUBSET Times, AddSlots(r, i, times) PROVE Goal
  <2>1. PICK t \in Task : /\ Agrees(t) /\ BeginAt(r, "portal", t)
                          /\ t.todo = <<"clear", "offer", "unschedule">> /\ t.round = i
                          /\ rounds[i].status # "Completed" /\ desk \in {"none", "portal"}
      BY <1>12, OfferBegins
  <2>2. BeganOffer(t) /\ t.todo # <<>>
      BY <2>1 DEF BeganOffer
  <2> QED
      BY <1>2, <2>1, <2>2
<1>13. ASSUME NEW i \in 1 .. nrounds, NEW result \in Results \ {"Pending"}, NEW n \in 0 .. FinalNumber,
              NEW times \in SUBSET Times, RecordInterviewResult(r, i, result, n, times)
       PROVE  Goal
  <2>1. PICK t \in Task : Agrees(t) /\ BeginAt(r, "portal", t) /\ BeganResult(t) /\ desk \in {"none", "portal"}
      BY <1>13, ResultBegins
  <2>2. t.todo # <<>>
    <3>1. /\ <<"look", "result", "stage">> # <<>>
          /\ <<"look", "result", "nextRound", "offer", "stage">> # <<>>
        OBVIOUS
    <3> QED
        BY <2>1, <3>1 DEF BeganResult
  <2> QED
      BY <1>2, <2>1, <2>2
<1>14. ASSUME UndoDecision(r) PROVE Goal
  <2>1. PICK t \in Task : /\ Agrees(t) /\ BeginAt(r, "portal", t)
                          /\ t.todo = IF stage = "REJECTED" /\ logged \in FromInterview
                                      THEN <<"stage", "find", "reopen">> ELSE <<"stage">>
                          /\ t.stage = logged /\ stage \in Marks /\ desk \in {"none", "portal"}
      BY <1>14, UndoBegins
  <2>2. BeganUndo(t) /\ t.todo # <<>>
      BY <2>1 DEF BeganUndo
  <2> QED
      BY <1>2, <2>1, <2>2
<1>15. Goal
    BY <1>4, <1>5, <1>6, <1>7, <1>8, <1>9, <1>10, <1>11, <1>12, <1>13, <1>14 DEF Start
<1> QED
    BY <1>15 DEF Goal

\* Lists that are distinct because they start differently.
LEMMA BeganHeads ==
    ASSUME NEW t
    PROVE  /\ BeganPlain(t) => Head(t.todo) \in {"slots", "joined", "unjoined"}
           /\ BeganMark(t) => Head(t.todo) \in {"markUnavailable", "markAvailable"}
           /\ BeganConfirm(t) => Head(t.todo) = "claimSlot"
           /\ BeganRelease(t) => Head(t.todo) = "release"
           /\ BeganComplete(t) => Head(t.todo) = "complete"
           /\ BeganMail(t) => Head(t.todo) = "mail"
           /\ BeganDecide(t) => Head(t.todo) = "decide"
           /\ BeganOffer(t) => Head(t.todo) = "clear"
           /\ BeganResult(t) => Head(t.todo) = "look"
           /\ BeganUndo(t) => Head(t.todo) = "stage"
<1>1. BeganPlain(t) => Head(t.todo) \in {"slots", "joined", "unjoined"}
    BY DEF BeganPlain
<1>2. BeganMark(t) => Head(t.todo) \in {"markUnavailable", "markAvailable"}
    BY DEF BeganMark
<1>3. BeganConfirm(t) => Head(t.todo) = "claimSlot"
    BY DEF BeganConfirm, ClaimList
<1>4. BeganRelease(t) => Head(t.todo) = "release"
    BY DEF BeganRelease, ReleaseList
<1>5. BeganComplete(t) => Head(t.todo) = "complete"
    BY DEF BeganComplete, CompleteList
<1>6. BeganMail(t) => Head(t.todo) = "mail"
    BY DEF BeganMail
<1>7. BeganDecide(t) => Head(t.todo) = "decide"
    BY HeadsAre DEF BeganDecide
<1>8. BeganOffer(t) => Head(t.todo) = "clear"
    BY DEF BeganOffer
<1>9. BeganResult(t) => Head(t.todo) = "look"
  <2>1. /\ Head(<<"look", "result", "stage">>) = "look"
        /\ Head(<<"look", "result", "nextRound", "offer", "stage">>) = "look"
      OBVIOUS
  <2> QED
      BY <2>1 DEF BeganResult
<1>10. BeganUndo(t) => Head(t.todo) = "stage"
  <2>1. Head(<<"stage", "find", "reopen">>) = "stage" /\ Head(<<"stage">>) = "stage"
      OBVIOUS
  <2> QED
      BY <2>1 DEF BeganUndo
<1> QED
    BY <1>1, <1>2, <1>3, <1>4, <1>5, <1>6, <1>7, <1>8, <1>9, <1>10

LEMMA AloneInit == Init => RunsAlone
BY RestingType DEF Init, RunsAlone, Idle

LEMMA AloneNext == Inv /\ RunsAlone /\ [Next]_vars => RunsAlone'
<1> SUFFICES ASSUME Inv, RunsAlone, [Next]_vars, alone' PROVE RunsAlone'
    BY DEF RunsAlone
<1>1. ASSUME NEW r \in Requests, Start(r) PROVE RunsAlone'
  <2>1. PICK d, t : BeginAt(r, d, t)
      BY <1>1, StartBegan
  <2>2. alone /\ Quiet /\ task' = [task EXCEPT ![r] = t]
      BY <2>1 DEF BeginAt
  <2>3. \A q \in Requests : q # r => task'[q].todo = <<>>
      BY <2>2 DEF Quiet, Idle, Inv
  <2> QED
      BY <2>3 DEF RunsAlone, Idle
<1>2. ASSUME NEW r \in Requests, Step(r) PROVE RunsAlone'
  <2>1. alone' = alone /\ task[r].todo # <<>> /\ \E x : task' = [task EXCEPT ![r] = x] /\ (x.todo = <<>> => x = Resting)
      BY <1>2, StepMoves, ListOf DEF Moves
  <2> QED
      BY <2>1, CurrentStep
<1>3. CASE Tick \/ UNCHANGED vars
    BY <1>3 DEF Tick, vars, RunsAlone, Idle
<1>4. CASE Restart
    BY <1>4 DEF Restart
<1> QED
    BY <1>1, <1>2, <1>3, <1>4 DEF Next

\* Nothing runs on when the clock ticks, and no one is alone after a restart.
LEMMA CurrentStays == UNCHANGED <<task, alone>> => Current' = Current
BY DEF Current, Quiet, Idle

-----------------------------------------------------------------------------
(* Mails.                                                                  *)

MailLists == {<<"next", "stage", "mail">>, <<"next", "stage", "liftHold", "mail">>, <<"hold", "mail">>,
              <<"hire", "stage", "mail">>, <<"stage", "mail">>, <<"stage", "liftHold", "mail">>,
              <<"liftHold", "mail">>, <<"mail">>}
MailFacts(t) ==
    /\ \A i \in Ids : rounds[i].mailed \in {"None", rounds[i].decision}
    /\ t.todo \in MailLists => rounds[t.round].decision = t.decision
MailInv == alone => \A t \in Current : MailFacts(t)

LEMMA MailTail ==
    ASSUME NEW l \in Lists, Tail(l) \in MailLists
    PROVE  (l \in MailLists /\ Head(l) # "mail") \/ Head(l) = "decide"
<1>1. \A m \in MailLists : m # <<>> /\ Head(m) \in {"next", "hold", "hire", "stage", "liftHold", "mail"}
    BY DEF MailLists
<1>2. Head(l) \in Statements
    BY ListOf
<1>3. CASE Head(l) \in {"slots", "markUnavailable", "markAvailable", "joined", "unjoined", "mail", "invite", "unschedule", "reopen"}
    BY <1>1, <1>3, TailOf
<1>4. CASE Head(l) \in {"claimSlot", "clear", "look", "nextRound", "find"}
  <2>1. /\ Head(<<"select", "stage", "invite">>) = "select" /\ Head(<<"offer", "unschedule">>) = "offer"
        /\ Head(<<"result", "stage">>) = "result" /\ Head(<<"result", "nextRound", "offer", "stage">>) = "result"
        /\ Head(<<"offer", "stage">>) = "offer" /\ Head(<<"reopen">>) = "reopen"
      OBVIOUS
  <2> QED
      BY <1>1, <1>4, <2>1, TailOf
<1>5. CASE Head(l) \in {"select", "release", "complete", "offer", "result"}
  <2>1. /\ <<"stage", "invite">> \notin MailLists /\ <<"stage">> \notin MailLists /\ <<"unschedule">> \notin MailLists
        /\ <<"nextRound", "offer", "stage">> \notin MailLists
      BY DEF MailLists
  <2> QED
      BY <1>5, <2>1, TailOf
<1>6. CASE Head(l) = "next"
  <2>1. \A m \in NextLists : Tail(m) \in MailLists => m \in MailLists
    <3>1. /\ Tail(<<"next", "stage">>) = <<"stage">>
          /\ Tail(<<"next", "stage", "liftHold">>) = <<"stage", "liftHold">>
        OBVIOUS
    <3>2. <<"stage">> \notin MailLists /\ <<"stage", "liftHold">> \notin MailLists
        BY DEF MailLists
    <3> QED
        BY <3>1, <3>2 DEF NextLists, MailLists
  <2> QED
      BY <1>6, <2>1, ListOf
<1>7. CASE Head(l) \in {"hold", "hire", "liftHold"}
  <2>1. /\ Tail(<<"hold">>) = <<>> /\ Tail(<<"hire", "stage">>) = <<"stage">> /\ Tail(<<"liftHold">>) = <<>>
      OBVIOUS
  <2>2. <<"stage">> \notin MailLists
      BY DEF MailLists
  <2>3. \A m \in HoldLists \union HireLists \union LiftLists : Tail(m) \in MailLists => m \in MailLists
      BY <1>1, <2>1, <2>2 DEF HoldLists, HireLists, LiftLists, MailLists
  <2> QED
      BY <1>7, <2>3, ListOf
<1>8. CASE Head(l) = "stage"
  <2>1. /\ Tail(<<"stage">>) = <<>> /\ Tail(<<"stage", "liftHold">>) = <<"liftHold">>
        /\ Tail(<<"stage", "invite">>) = <<"invite">> /\ Tail(<<"stage", "find", "reopen">>) = <<"find", "reopen">>
        /\ Head(<<"invite">>) = "invite" /\ Head(<<"find", "reopen">>) = "find"
      OBVIOUS
  <2>2. <<"liftHold">> \notin MailLists
      BY DEF MailLists
  <2>3. \A m \in StageLists : Tail(m) \in MailLists => m \in MailLists
      BY <1>1, <2>1, <2>2 DEF StageLists, MailLists
  <2> QED
      BY <1>1, <1>8, <2>1, <2>3, ListOf
<1> QED
    BY <1>2, <1>3, <1>4, <1>5, <1>6, <1>7, <1>8 DEF Statements

\* A statement other than the ones that record, mail or open keeps what was decided and mailed.
KeepsDecisions == \A i \in Ids : rounds'[i].decision = rounds[i].decision /\ rounds'[i].mailed = rounds[i].mailed

LEMMA DecisionsKept ==
    ASSUME Inv, NEW r \in Requests, Step(r)
    PROVE  KeepsDecisions \/ (At(r, "decide") /\ ClaimDecision(r)) \/ (At(r, "mail") /\ SendMail(r))
               \/ OpenNextRound(r) \/ CreateRound(r)
<1>1. ASSUME UNCHANGED rounds PROVE KeepsDecisions
    BY <1>1 DEF KeepsDecisions
<1>2. ASSUME NEW row, SetRound(r, row), row.decision = Target(r).decision, row.mailed = Target(r).mailed
      PROVE  KeepsDecisions
    BY <1>2 DEF SetRound, KeepsDecisions, Target, Inv, DataOK
<1>3. ASSUME NEW s, At(r, s), s \notin {"stage", "find"} PROVE Target(r) \in Round
    BY <1>3, RunningRound DEF Target
<1>4. CASE ReplaceSlots(r) \/ MarkSlot(r) \/ SelectSlot(r) \/ LiftHold(r) \/ Hold(r) \/ Hire(r) \/ Transition(r)
           \/ ClearSlots(r) \/ OfferSlots(r) \/ LookAtRound(r) \/ FindFailed(r)
    BY <1>1, <1>4 DEF ReplaceSlots, PutSlots, MarkSlot, SelectSlot, LiftHold, Hold, Hire, SetHiring, Transition,
                      ClearSlots, OfferSlots, LookAtRound, FindFailed
<1>5. CASE ClaimSlot(r)
    BY <1>1, <1>2, <1>3, <1>5 DEF ClaimSlot, Round
<1>6. CASE SendInvites(r) \/ Complete(r) \/ Join(r) \/ Unjoin(r)
    BY <1>2, <1>3, <1>6 DEF SendInvites, Complete, Join, Unjoin, Overwrite, Round
<1>7. CASE Unschedule(r) \/ RecordResult(r) \/ ReopenRound(r)
    BY <1>2, <1>3, <1>7 DEF Unschedule, RecordResult, ReopenRound, Overwrite, Round
<1>8. CASE Release(r)
    BY <1>2, <1>3, <1>8 DEF Release, Round
<1>9. CASE ClaimDecision(r) \/ SendMail(r)
    BY <1>9 DEF ClaimDecision, SendMail, Overwrite
<1> QED
    BY <1>4, <1>5, <1>6, <1>7, <1>8, <1>9 DEF Step

LEMMA MailStep ==
    ASSUME Inv, NEW r \in Requests, Step(r), NEW t \in Task, task[r] = t, MailFacts(t),
           NEW x \in Task, task' = [task EXCEPT ![r] = x], Moves(t, x)
    PROVE  MailFacts(x)'
<1>1. t.todo \in Lists
    BY StepMoves
<1>2. \A m \in MailLists : m # <<>> /\ Head(m) \in {"next", "hold", "hire", "stage", "liftHold", "mail"}
    BY DEF MailLists
<1>3. x.todo \in MailLists =>
          /\ x.todo = Tail(t.todo) /\ (t.todo \in MailLists \/ Head(t.todo) = "decide") /\ Head(t.todo) # "mail"
          /\ x.round = t.round /\ x.decision = t.decision
  <2>1. x.todo \in MailLists =>
            x.todo = Tail(t.todo) /\ ((t.todo \in MailLists /\ Head(t.todo) # "mail") \/ Head(t.todo) = "decide")
      BY <1>1, <1>2, MailTail DEF Moves
  <2>2. x.todo \in MailLists => x = [t EXCEPT !.todo = Tail(t.todo)]
      BY <1>2, <2>1 DEF Moves
  <2> QED
      BY <2>1, <2>2 DEF Task
<1>4. x.todo \in MailLists => x.round \in 1 .. nrounds /\ x.round \in Ids
  <2>1. x.todo \in MailLists => Head(t.todo) # "find" /\ x.round = t.round
      BY <1>2, <1>3
  <2>2. x.todo \in MailLists => t.todo \notin RoundlessLists
    <3>1. <<"stage">> \notin MailLists /\ <<"stage", "find", "reopen">> \notin MailLists /\ Head(<<"stage">>) = "stage"
          /\ Head(<<"stage", "find", "reopen">>) = "stage" /\ <<>> \notin MailLists
        BY DEF MailLists
    <3> QED
        BY <1>1, <1>3, <2>1, <3>1, ListOf DEF RoundlessLists
  <2>3. Agrees(t)
      BY DEF Inv, TasksAgree
  <2> QED
      BY <2>1, <2>2, <2>3, Counts DEF Agrees
<1>5. CASE KeepsDecisions /\ Head(t.todo) # "decide"
    BY <1>3, <1>4, <1>5 DEF KeepsDecisions, MailFacts
<1>6. CASE ClaimDecision(r) /\ At(r, "decide")
  <2>1. CASE Abort(r) /\ UNCHANGED rounds
    <3>1. x = Resting
        BY <2>1 DEF Abort, Inv
    <3>2. x.todo \notin MailLists
        BY <1>2, <3>1, RestingType
    <3> QED
        BY <2>1, <3>2 DEF MailFacts
  <2>2. CASE SetRound(r, [Target(r) EXCEPT !.decision = task[r].decision, !.mailed = "None",
                                           !.result = ResultFor(task[r].decision)])
    <3>1. PICK row : row = [Target(r) EXCEPT !.decision = task[r].decision, !.mailed = "None",
                                             !.result = ResultFor(task[r].decision)]
        OBVIOUS
    <3>2. Target(r) \in Round
        BY <1>6, RunningRound DEF Target
    <3>3. row.decision = t.decision /\ row.mailed = "None"
        BY <3>1, <3>2 DEF Round
    <3>4. rounds'[t.round] = row /\ \A i \in Ids : i # t.round => rounds'[i] = rounds[i]
        BY <1>6, <2>2, <3>1, Rewritten
    <3>5. \A i \in Ids : rounds'[i].mailed \in {"None", rounds'[i].decision}
        BY <3>3, <3>4 DEF MailFacts
    <3>6. x.todo \in MailLists => rounds'[x.round].decision = x.decision
        BY <1>3, <3>3, <3>4
    <3> QED
        BY <3>5, <3>6 DEF MailFacts
  <2> QED
      BY <1>6, <2>1, <2>2 DEF ClaimDecision
<1>7. CASE SendMail(r) /\ At(r, "mail")
  <2>1. PICK row : row = [Target(r) EXCEPT !.mailed = task[r].decision]
      OBVIOUS
  <2>2. Target(r) \in Round
      BY <1>7, RunningRound DEF Target
  <2>3. row.decision = Target(r).decision /\ row.mailed = t.decision
      BY <2>1, <2>2 DEF Round
  <2>4. rounds'[t.round] = row /\ \A i \in Ids : i # t.round => rounds'[i] = rounds[i]
      BY <1>7, <2>1, Rewritten DEF SendMail, Overwrite
  <2>5. t.todo \in MailLists /\ Head(t.todo) = "mail"
      BY <1>1, <1>7, ListOf DEF At, MailLists
  <2>6. Target(r).decision = t.decision
      BY <2>5 DEF MailFacts, Target
  <2>7. \A i \in Ids : rounds'[i].mailed \in {"None", rounds'[i].decision}
      BY <2>3, <2>4, <2>6 DEF MailFacts
  <2> QED
      BY <1>3, <2>5, <2>7 DEF MailFacts
<1>8. CASE OpenNextRound(r) \/ CreateRound(r)
  <2>1. PICK row : rounds' = [rounds EXCEPT ![nrounds + 1] = row] /\ row.decision = "None" /\ row.mailed = "None"
    <3>1. /\ NewRound(Target(r).number + 1, task[r].decision = "FinalRound").decision = "None"
          /\ NewRound(Target(r).number + 1, task[r].decision = "FinalRound").mailed = "None"
          /\ NewRound(task[r].number, FALSE).decision = "None" /\ NewRound(task[r].number, FALSE).mailed = "None"
        BY DEF NewRound
    <3> QED
        BY Zenon, <1>8, <3>1 DEF OpenNextRound, CreateRound, OpenRound
  <2>2. \A i \in Ids : (i # nrounds + 1 => rounds'[i] = rounds[i]) /\ (i = nrounds + 1 => rounds'[i] = row)
      BY <2>1 DEF Inv, DataOK
  <2>3. \A i \in Ids : rounds'[i].mailed \in {"None", rounds'[i].decision}
      BY <2>1, <2>2 DEF MailFacts
  <2>4. Head(t.todo) \in {"next", "nextRound"}
      BY <1>8 DEF OpenNextRound, CreateRound, OpenRound, At
  <2>5. x.todo \in MailLists => x.round # nrounds + 1
      BY <1>4, Counts
  <2> QED
      BY <1>3, <1>4, <2>2, <2>3, <2>4, <2>5 DEF MailFacts
<1>9. At(r, "decide") => ClaimDecision(r)
  <2>1. At(r, "decide") => Head(t.todo) = "decide"
      BY DEF At
  <2> QED
      BY <2>1 DEF Step, ReplaceSlots, PutSlots, MarkSlot, ClaimSlot, SelectSlot, SendInvites, Release, Complete, Join,
                  Unjoin, OpenNextRound, LiftHold, Hold, Hire, Transition, SendMail, ClearSlots, OfferSlots,
                  Unschedule, LookAtRound, RecordResult, CreateRound, FindFailed, ReopenRound, Overwrite, OpenRound,
                  SetHiring, At
<1>10. Head(t.todo) = "decide" => At(r, "decide")
    BY <1>1, ListOf DEF At
<1> QED
    BY <1>5, <1>6, <1>7, <1>8, <1>9, <1>10, DecisionsKept

LEMMA MailInit == Init => MailInv
<1> SUFFICES ASSUME Init PROVE \A t \in Current : MailFacts(t)
    BY DEF MailInv
<1>1. Current = {Resting}
    BY RestingType DEF Init, Current, Quiet, Idle
<1>2. \A i \in Ids : rounds[i].mailed = "None"
    BY DEF Init, NewRound, NoRound
<1>3. <<>> \notin MailLists
    BY DEF MailLists
<1> QED
    BY <1>1, <1>2, <1>3, RestingType DEF MailFacts

LEMMA MailNext == Inv /\ RunsAlone /\ MailInv /\ [Next]_vars => MailInv'
<1> SUFFICES ASSUME Inv, RunsAlone, MailInv, [Next]_vars, alone' PROVE \A t \in Current' : MailFacts(t)'
    BY DEF MailInv
<1>1. ASSUME NEW r \in Requests, Start(r) PROVE \A t \in Current' : MailFacts(t)'
  <2>1. PICK d, t : BeginAt(r, d, t) /\ t.todo # <<>> /\ Began(d, t)
      BY <1>1, StartBegan
  <2>2. alone /\ Current = {Resting} /\ Current' = {t}
      BY <2>1, CurrentStart
  <2>3. t.todo \in MailLists => BeganMail(t)
    <3>1. \A m \in MailLists : Head(m) \in {"next", "hold", "hire", "stage", "liftHold", "mail"}
        BY DEF MailLists
    <3>2. BeganUndo(t) => t.todo \notin MailLists
      <4>1. <<"stage">> \notin MailLists /\ <<"stage", "find", "reopen">> \notin MailLists
          BY DEF MailLists
      <4> QED
          BY <4>1 DEF BeganUndo
    <3> QED
        BY <2>1, <3>1, <3>2, BeganHeads DEF Began
  <2>4. UNCHANGED rounds
      BY <2>1 DEF BeginAt
  <2> QED
      BY <2>2, <2>3, <2>4 DEF MailInv, MailFacts, BeganMail
<1>2. ASSUME NEW r \in Requests, Step(r) PROVE \A t \in Current' : MailFacts(t)'
  <2>1. PICK t : t = task[r]
      OBVIOUS
  <2>2. PICK x \in Task : task' = [task EXCEPT ![r] = x] /\ Moves(t, x)
      BY <1>2, <2>1, StepMoves
  <2>3. alone /\ Current = {t} /\ Current' = {x}
      BY <1>2, <2>1, <2>2, StepMoves, ListOf, CurrentStep DEF Moves
  <2>4. t \in Task /\ MailFacts(t)
      BY <2>1, <2>3 DEF MailInv, Inv
  <2>5. MailFacts(x)'
      BY <1>2, <2>1, <2>2, <2>4, MailStep
  <2> QED
      BY <2>3, <2>5
<1>3. CASE Tick \/ UNCHANGED vars
    BY <1>3, CurrentStays DEF Tick, vars, MailInv, MailFacts
<1>4. CASE Restart
    BY <1>4 DEF Restart
<1> QED
    BY <1>1, <1>2, <1>3, <1>4 DEF Next

\* "A Hold's mail must not count as this decision's": while handlers run one at a time a
\* round's decision mail counts as sent only if it told the decision that stands. Between
\* the two writes of a decision that holds only because what the handler is about to mail
\* is what it recorded (MailFacts).
THEOREM MailsTellDecisions == Spec => []MailTellsDecision
<1>1. Inv /\ MailInv => MailTellsDecision
    BY DEF MailInv, MailTellsDecision, Current, MailFacts
<1>2. Inv /\ RunsAlone /\ MailInv /\ [Next]_vars => Inv' /\ RunsAlone' /\ MailInv'
    BY NextKeepsInv, AloneNext, MailNext
<1>3. Init => Inv /\ RunsAlone /\ MailInv
    BY InitInv, AloneInit, MailInit
<1> QED
    BY <1>1, <1>2, <1>3, PTL DEF Spec

-----------------------------------------------------------------------------
(* Slots.                                                                  *)

Selected(i) == {s \in SlotIds : slots[s].round = i /\ slots[s].selected}
SlotsFit(i) ==
    /\ rounds[i].status = "Scheduled" =>
           \E s \in Selected(i) : Selected(i) = {s} /\ slots[s].at = rounds[i].at /\ ~slots[s].unavailable
    /\ rounds[i].status \in Schedulable => Selected(i) = {}

\* Between the claim of the round and the selection of its slot the round has none.
SlotFacts(t) ==
    /\ \A i \in 1 .. nrounds : SlotsFit(i) \/ (t.todo = SelectList /\ i = t.round)
    /\ t.todo \in {ClaimList, SelectList} =>
           /\ t.slot \in SlotIds /\ slots[t.slot].round = t.round /\ slots[t.slot].at = t.at
           /\ ~slots[t.slot].unavailable
    /\ t.todo = ClaimList => rounds[t.round].status \in Schedulable
    /\ t.todo = SelectList => rounds[t.round].status = "Scheduled" /\ rounds[t.round].at = t.at
    /\ t.todo \in {<<"markUnavailable">>, <<"markAvailable">>} =>
           /\ t.slot \in SlotIds
           /\ ~(slots[t.slot].selected /\ rounds[slots[t.slot].round].status = "Scheduled")
SlotInv == (alone /\ desk # "portal") => \A t \in Current : SlotFacts(t)

\* No list becomes one that a confirm or a mark begins with.
LEMMA SlotTails ==
    ASSUME NEW l \in DeskLists
    PROVE  /\ Tail(l) \notin {ClaimList, <<"markUnavailable">>, <<"markAvailable">>}
           /\ Tail(l) = SelectList => l = ClaimList
<1>1. Head(l) \in Statements /\ l \in Lists
    BY DeskList, ListOf
<1>2. /\ Head(ClaimList) = "claimSlot" /\ Head(SelectList) = "select" /\ Head(<<"markUnavailable">>) = "markUnavailable"
      /\ Head(<<"markAvailable">>) = "markAvailable" /\ ClaimList # <<>> /\ SelectList # <<>>
      /\ <<"markUnavailable">> # <<>> /\ <<"markAvailable">> # <<>>
    BY DEF ClaimList, SelectList
<1> DEFINE First == {"claimSlot", "select", "markUnavailable", "markAvailable"}
<1>3. CASE Head(l) = "claimSlot"
  <2>1. l = ClaimList /\ Tail(l) = SelectList
      BY <1>1, <1>3, ListOf, TailOf DEF ClaimList, SelectList
  <2> QED
      BY <1>2, <2>1
<1>4. CASE Head(l) # "claimSlot"
  <2>1. Tail(l) # <<>> => Head(Tail(l)) \notin First
    <3>1. CASE Head(l) \in {"slots", "markUnavailable", "markAvailable", "joined", "unjoined", "mail", "invite"}
        BY <1>1, <3>1, TailOf
    <3>2. CASE Head(l) \in {"select", "release", "complete", "hire"}
      <4>1. /\ Head(<<"stage", "invite">>) = "stage" /\ Head(<<"stage">>) = "stage" /\ Head(<<"stage", "mail">>) = "stage"
          OBVIOUS
      <4> QED
          BY <1>1, <3>2, <4>1, TailOf
    <3>3. CASE Head(l) \in {"hold", "liftHold"}
      <4>1. Head(<<"mail">>) = "mail"
          OBVIOUS
      <4> QED
          BY <1>1, <3>3, <4>1, TailOf
    <3>4. CASE Head(l) \in {"decide", "next"}
      <4>1. Head(<<"stage">>) = "stage" /\ Head(<<"stage", "mail">>) = "stage"
          OBVIOUS
      <4> QED
          BY <1>1, <3>4, <4>1, TailOf, HeadsAre
    <3>5. CASE Head(l) = "stage"
      <4>1. Head(<<"mail">>) = "mail" /\ Head(<<"invite">>) = "invite" /\ Head(<<"find", "reopen">>) = "find"
          OBVIOUS
      <4> QED
          BY <1>1, <3>5, <4>1, TailOf, HeadsAre
    <3> QED
        BY <1>1, <1>4, <3>1, <3>2, <3>3, <3>4, <3>5, DeskList DEF Statements
  <2> QED
      BY <1>2, <2>1
<1> QED
    BY <1>3, <1>4

\* A round whose selected slots stay the same fits as long as its time and status stay.
LEMMA FitStays ==
    ASSUME NEW i, SlotsFit(i),
           rounds'[i].status = rounds[i].status, rounds'[i].at = rounds[i].at,
           Selected(i)' = Selected(i),
           \A s \in Selected(i) : slots'[s].at = slots[s].at /\ slots'[s].unavailable = slots[s].unavailable
    PROVE  SlotsFit(i)'
BY DEF SlotsFit

LEMMA FitKept ==
    ASSUME NEW i, SlotsFit(i), rounds'[i].status = rounds[i].status, rounds'[i].at = rounds[i].at, slots' = slots
    PROVE  SlotsFit(i)'
BY DEF SlotsFit, Selected

\* What is left to show of a step that is not a claim.
LEMMA SlotRest ==
    ASSUME NEW t, t.todo \in DeskLists, NEW x, Moves(t, x), t.todo # ClaimList \/ x.todo = <<>>,
           \A i \in 1 .. nrounds' : SlotsFit(i)'
    PROVE  SlotFacts(x)'
<1>1. x.todo \notin {ClaimList, SelectList, <<"markUnavailable">>, <<"markAvailable">>}
  <2>1. <<>> \notin {ClaimList, SelectList, <<"markUnavailable">>, <<"markAvailable">>}
      BY DEF ClaimList, SelectList
  <2> QED
      BY <2>1, SlotTails DEF Moves
<1> QED
    BY <1>1 DEF SlotFacts

\* Statements that keep the slots and every round's status and time.
LEMMA SlotQuiet ==
    ASSUME Inv, NEW r \in Requests, NEW t, task[r] = t, t.todo \in DeskLists, NEW x, Moves(t, x), SlotFacts(t),
           Head(t.todo) \notin {"claimSlot", "select"}, UNCHANGED <<slots, nrounds>>,
           \A i \in 1 .. nrounds : rounds'[i].status = rounds[i].status /\ rounds'[i].at = rounds[i].at
    PROVE  SlotFacts(x)'
<1>1. t.todo # ClaimList /\ t.todo # SelectList
    BY DEF ClaimList, SelectList
<1>2. \A i \in 1 .. nrounds' : SlotsFit(i)'
  <2>1. ASSUME NEW i \in 1 .. nrounds PROVE SlotsFit(i)'
      BY <1>1, <2>1, FitKept DEF SlotFacts
  <2> QED
      BY <2>1
<1> QED
    BY <1>1, <1>2, SlotRest

LEMMA ClaimSlotFits ==
    ASSUME Inv, NEW r \in Requests, NEW t \in Task, task[r] = t, t.todo \in DeskLists, SlotFacts(t), ClaimSlot(r),
           NEW x, task' = [task EXCEPT ![r] = x], Moves(t, x)
    PROVE  SlotFacts(x)'
<1>1. At(r, "claimSlot") /\ Head(t.todo) = "claimSlot" /\ UNCHANGED <<slots, nrounds>>
    BY DEF ClaimSlot, At
<1>2. t.todo = ClaimList /\ Tail(t.todo) = SelectList
    BY <1>1, DeskList, ListOf, TailOf DEF ClaimList, SelectList
<1>3. Target(r).status \in Schedulable
    BY <1>2 DEF SlotFacts, Target
<1>4. /\ SetRound(r, [Target(r) EXCEPT !.status = "Scheduled", !.at = task[r].at, !.joined = FALSE])
      /\ Continue(r)
    BY <1>3 DEF ClaimSlot
<1>5. PICK row : row = [Target(r) EXCEPT !.status = "Scheduled", !.at = task[r].at, !.joined = FALSE]
    OBVIOUS
<1>6. Target(r) \in Round /\ t.round \in 1 .. nrounds /\ t.round \in Ids
    BY <1>1, RunningRound DEF Target
<1>7. row.status = "Scheduled" /\ row.at = t.at
    BY <1>5, <1>6 DEF Round
<1>8. rounds'[t.round] = row /\ \A i \in Ids : i # t.round => rounds'[i] = rounds[i]
    BY <1>1, <1>4, <1>5, Rewritten
<1>9. SelectList # <<>>
    BY DEF SelectList
<1>10. x = [t EXCEPT !.todo = SelectList]
  <2>1. x = Rest(t)
      BY <1>4 DEF Continue, Inv
  <2> QED
      BY <1>2, <1>9, <2>1 DEF Rest
<1>11. x.todo = SelectList /\ x.round = t.round /\ x.slot = t.slot /\ x.at = t.at
    BY <1>10 DEF Task
<1>12. ASSUME NEW i \in 1 .. nrounds, i # t.round PROVE SlotsFit(i)'
  <2>1. SlotsFit(i) /\ rounds'[i] = rounds[i]
      BY <1>2, <1>8, <1>12, Counts DEF SlotFacts, ClaimList, SelectList
  <2> QED
      BY <1>1, <2>1, FitKept
<1>13. x.todo \notin {ClaimList, <<"markUnavailable">>, <<"markAvailable">>}
    BY <1>11 DEF ClaimList, SelectList
<1>14. t.slot \in SlotIds /\ slots[t.slot].round = t.round /\ slots[t.slot].at = t.at /\ ~slots[t.slot].unavailable
    BY <1>2 DEF SlotFacts
<1> QED
    BY <1>1, <1>7, <1>8, <1>11, <1>12, <1>13, <1>14 DEF SlotFacts

\* The slot that was confirmed becomes the round's only selected one.
LEMMA SelectSlotFits ==
    ASSUME Inv, NEW r \in Requests, NEW t \in Task, task[r] = t, t.todo \in DeskLists, SlotFacts(t), SelectSlot(r),
           NEW x, task' = [task EXCEPT ![r] = x], Moves(t, x)
    PROVE  SlotFacts(x)'
<1>1. At(r, "select") /\ Head(t.todo) = "select" /\ UNCHANGED <<rounds, nrounds>>
    BY DEF SelectSlot, At
<1>2. t.todo = SelectList /\ t.todo # ClaimList
    BY <1>1, DeskList, ListOf DEF ClaimList, SelectList
<1>3. /\ t.slot \in SlotIds /\ slots[t.slot].round = t.round /\ slots[t.slot].at = t.at
      /\ ~slots[t.slot].unavailable /\ rounds[t.round].status = "Scheduled" /\ rounds[t.round].at = t.at
    BY <1>2 DEF SlotFacts
<1>4. t.round \in 1 .. nrounds /\ t.round # 0
    BY <1>1, RunningRound, Counts
<1>5. slots' = [u \in SlotIds |-> IF slots[u].round = t.round
                                  THEN [slots[u] EXCEPT !.selected = (u = t.slot)] ELSE slots[u]]
    BY <1>3, <1>4 DEF SelectSlot
<1>6. ASSUME NEW u \in SlotIds
      PROVE  /\ slots'[u].round = slots[u].round /\ slots'[u].at = slots[u].at
             /\ slots'[u].unavailable = slots[u].unavailable
             /\ slots[u].round = t.round => (slots'[u].selected <=> u = t.slot)
             /\ slots[u].round # t.round => slots'[u].selected = slots[u].selected
  <2>1. slots[u] \in Slot
      BY DEF Inv, DataOK
  <2>2. CASE slots[u].round = t.round
    <3>1. slots'[u] = [slots[u] EXCEPT !.selected = (u = t.slot)]
        BY <1>5, <2>2
    <3> QED
        BY <2>1, <2>2, <3>1 DEF Slot
  <2>3. CASE slots[u].round # t.round
      BY <1>5, <2>3
  <2> QED
      BY <2>2, <2>3
<1>7. SlotsFit(t.round)'
  <2>1. Selected(t.round)' = {t.slot}
      BY <1>3, <1>6 DEF Selected
  <2> QED
      BY <1>1, <1>3, <1>6, <2>1 DEF SlotsFit, Schedulable
<1>8. ASSUME NEW i \in 1 .. nrounds, i # t.round PROVE SlotsFit(i)'
  <2>1. SlotsFit(i)
      BY <1>8 DEF SlotFacts
  <2>2. Selected(i)' = Selected(i)
      BY <1>6, <1>8 DEF Selected
  <2> QED
      BY <1>1, <1>6, <2>1, <2>2, FitStays DEF Selected
<1> QED
    BY <1>1, <1>2, <1>7, <1>8, SlotRest

\* A released round has no slot selected any more.
LEMMA ReleaseFits ==
    ASSUME Inv, NEW r \in Requests, NEW t \in Task, task[r] = t, t.todo \in DeskLists, SlotFacts(t), Release(r),
           NEW x, task' = [task EXCEPT ![r] = x], Moves(t, x)
    PROVE  SlotFacts(x)'
<1>1. At(r, "release") /\ Head(t.todo) = "release" /\ nrounds' = nrounds
    BY DEF Release, At
<1>2. t.todo # ClaimList /\ t.todo # SelectList
    BY <1>1 DEF ClaimList, SelectList
<1>3. t.round \in 1 .. nrounds /\ Target(r) \in Round
    BY <1>1, RunningRound DEF Target
<1>4. PICK row : /\ SetRound(r, row)
                /\ row = [Target(r) EXCEPT !.releases = @ + 1,
                            !.status = IF task[r].stage = "INTERVIEW_NOT_ATTENDED" THEN "NoShow" ELSE "RescheduleRequested"]
    BY DEF Release
<1>5. row.status \in {"NoShow", "RescheduleRequested"}
    BY <1>3, <1>4 DEF Round
<1>6. rounds'[t.round] = row /\ \A i \in Ids : i # t.round => rounds'[i] = rounds[i]
    BY <1>1, <1>4, Rewritten
<1>7. slots' = [s \in SlotIds |-> IF slots[s].round = t.round /\ slots[s].selected
                                  THEN [slots[s] EXCEPT !.selected = FALSE, !.unavailable = TRUE] ELSE slots[s]]
    BY DEF Release
<1>8. ASSUME NEW u \in SlotIds
      PROVE  /\ slots'[u].round = slots[u].round
             /\ slots[u].round = t.round => ~slots'[u].selected
             /\ slots[u].round # t.round => slots'[u] = slots[u]
  <2>1. slots[u] \in Slot
      BY DEF Inv, DataOK
  <2>2. CASE slots[u].round = t.round /\ slots[u].selected
    <3>1. slots'[u] = [slots[u] EXCEPT !.selected = FALSE, !.unavailable = TRUE]
        BY <1>7, <2>2
    <3> QED
        BY <2>1, <2>2, <3>1 DEF Slot
  <2>3. CASE ~(slots[u].round = t.round /\ slots[u].selected)
      BY <1>7, <2>3
  <2> QED
      BY <2>2, <2>3
<1>9. SlotsFit(t.round)'
  <2>1. Selected(t.round)' = {}
      BY <1>8 DEF Selected
  <2> QED
      BY <1>5, <1>6, <2>1 DEF SlotsFit
<1>10. ASSUME NEW i \in 1 .. nrounds, i # t.round PROVE SlotsFit(i)'
  <2>1. SlotsFit(i) /\ rounds'[i] = rounds[i]
      BY <1>2, <1>6, <1>10, Counts DEF SlotFacts
  <2>2. Selected(i)' = Selected(i)
      BY <1>8, <1>10 DEF Selected
  <2> QED
      BY <1>8, <1>10, <2>1, <2>2, FitStays DEF Selected
<1> QED
    BY <1>1, <1>2, <1>9, <1>10, SlotRest

\* A slot that stands for a scheduled round is not marked.
LEMMA MarkSlotFits ==
    ASSUME Inv, NEW r \in Requests, NEW t \in Task, task[r] = t, t.todo \in DeskLists, SlotFacts(t), MarkSlot(r),
           NEW x, task' = [task EXCEPT ![r] = x], Moves(t, x)
    PROVE  SlotFacts(x)'
<1>1. /\ At(r, "markUnavailable") \/ At(r, "markAvailable")
      /\ UNCHANGED <<rounds, nrounds>>
    BY DEF MarkSlot
<1>2. Head(t.todo) \in {"markUnavailable", "markAvailable"} /\ t.todo \in {<<"markUnavailable">>, <<"markAvailable">>}
    BY <1>1, DeskList, ListOf DEF At
<1>3. t.todo # ClaimList /\ t.todo # SelectList
    BY <1>2 DEF ClaimList, SelectList
<1>4. t.slot \in SlotIds /\ ~(slots[t.slot].selected /\ rounds[slots[t.slot].round].status = "Scheduled")
    BY <1>2 DEF SlotFacts
<1>5. ASSUME NEW u \in SlotIds
      PROVE  /\ slots'[u].round = slots[u].round
             /\ slots'[u].selected => slots[u].selected
             /\ u # t.slot => slots'[u] = slots[u]
  <2>1. CASE slots[t.slot].round = 0
      BY <2>1 DEF MarkSlot
  <2>2. CASE slots[t.slot].round # 0
    <3>1. slots' = [slots EXCEPT ![t.slot].unavailable = At(r, "markUnavailable"),
                                 ![t.slot].selected = @ /\ At(r, "markAvailable")]
        BY <2>2 DEF MarkSlot
    <3>2. slots \in [SlotIds -> Slot] /\ slots[u] \in Slot
        BY DEF Inv, DataOK
    <3>3. CASE u # t.slot
        BY <3>1, <3>2, <3>3
    <3>4. CASE u = t.slot
      <4>1. slots'[u] = [slots[u] EXCEPT !.unavailable = At(r, "markUnavailable"),
                                         !.selected = slots[u].selected /\ At(r, "markAvailable")]
          BY <1>4, <3>1, <3>2, <3>4 DEF Slot
      <4>2. slots'[u].round = slots[u].round /\ slots'[u].selected = (slots[u].selected /\ At(r, "markAvailable"))
          BY <3>2, <4>1 DEF Slot
      <4> QED
          BY <3>4, <4>2
    <3> QED
        BY <3>3, <3>4
  <2> QED
      BY <2>1, <2>2
<1>6. ASSUME NEW i \in 1 .. nrounds PROVE SlotsFit(i)'
  <2>1. SlotsFit(i)
      BY <1>3 DEF SlotFacts
  <2>2. CASE rounds[i].status = "Scheduled"
    <3>1. t.slot \notin Selected(i)
        BY <1>4, <2>2 DEF Selected
    <3>2. Selected(i)' = Selected(i)
        BY <1>5, <3>1 DEF Selected
    <3> QED
        BY <1>1, <1>5, <2>1, <3>1, <3>2, FitStays DEF Selected
  <2>3. CASE rounds[i].status \in Schedulable
    <3>1. Selected(i)' = {}
        BY <1>5, <2>1, <2>3 DEF Selected, SlotsFit
    <3> QED
        BY <1>1, <2>3, <3>1 DEF SlotsFit, Schedulable
  <2>4. CASE rounds[i].status \notin Schedulable \union {"Scheduled"}
      BY <1>1, <2>4 DEF SlotsFit
  <2> QED
      BY <2>2, <2>3, <2>4
<1> QED
    BY <1>1, <1>3, <1>6, SlotRest

\* Replacing the company's slots touches no selected one.
LEMMA ReplaceSlotsFit ==
    ASSUME Inv, NEW r \in Requests, NEW t \in Task, task[r] = t, t.todo \in DeskLists, SlotFacts(t), ReplaceSlots(r),
           NEW x, task' = [task EXCEPT ![r] = x], Moves(t, x)
    PROVE  SlotFacts(x)'
<1>1. At(r, "slots") /\ Head(t.todo) = "slots" /\ UNCHANGED <<rounds, nrounds>>
    BY DEF ReplaceSlots, PutSlots, At
<1>2. t.todo # ClaimList /\ t.todo # SelectList
    BY <1>1 DEF ClaimList, SelectList
<1> DEFINE fresh == nslots + 1 .. nslots + Cardinality(t.times)
<1>3. PICK f \in [fresh -> t.times] :
          slots' = [s \in SlotIds |-> IF s \in fresh THEN [NoSlot EXCEPT !.round = t.round, !.at = f[s]]
                                      ELSE IF s \in Kept(r) THEN slots[s] ELSE NoSlot]
    BY DEF ReplaceSlots, PutSlots
<1>4. \A s \in fresh \cap SlotIds : slots[s] = NoSlot
    BY Counts, InterviewsAssumption DEF Inv, RowsOK, SlotIds
<1> HIDE DEF fresh
<1>5. ASSUME NEW u \in SlotIds
      PROVE  /\ slots'[u].selected => slots'[u] = slots[u]
             /\ slots[u].selected => slots'[u] = slots[u]
  <2>1. CASE u \in fresh
    <3>1. slots'[u] = [NoSlot EXCEPT !.round = t.round, !.at = f[u]]
        BY <1>3, <2>1
    <3>2. ~slots'[u].selected
        BY <3>1 DEF NoSlot
    <3> QED
        BY <1>4, <2>1, <3>2, NoSlotType
  <2>2. CASE u \notin fresh /\ u \in Kept(r)
      BY <1>3, <2>2
  <2>3. CASE u \notin fresh /\ u \notin Kept(r)
    <3>1. slots'[u] = NoSlot /\ ~slots[u].selected
        BY <1>3, <2>3 DEF Kept
    <3> QED
        BY <3>1, NoSlotType
  <2> QED
      BY <2>1, <2>2, <2>3
<1>6. ASSUME NEW i \in 1 .. nrounds PROVE SlotsFit(i)'
  <2>1. SlotsFit(i)
      BY <1>2 DEF SlotFacts
  <2>2. Selected(i)' = Selected(i)
      BY <1>5 DEF Selected
  <2> QED
      BY <1>1, <1>5, <2>1, <2>2, FitStays DEF Selected
<1> QED
    BY <1>1, <1>2, <1>6, SlotRest

\* A new round has no slots yet.
LEMMA OpenNextFits ==
    ASSUME Inv, NEW r \in Requests, NEW t \in Task, task[r] = t, t.todo \in DeskLists, SlotFacts(t), OpenNextRound(r),
           NEW x, task' = [task EXCEPT ![r] = x], Moves(t, x)
    PROVE  SlotFacts(x)'
<1>1. At(r, "next") /\ Head(t.todo) = "next" /\ nrounds' = nrounds + 1 /\ slots' = slots /\ nrounds < MaxRounds
    BY DEF OpenNextRound, OpenRound, At
<1>2. t.todo # ClaimList /\ t.todo # SelectList
    BY <1>1 DEF ClaimList, SelectList
<1>3. PICK row : rounds' = [rounds EXCEPT ![nrounds + 1] = row] /\ row.status = "Pending"
  <2>1. NewRound(Target(r).number + 1, task[r].decision = "FinalRound").status = "Pending"
      BY DEF NewRound
  <2> QED
      BY Zenon, <2>1 DEF OpenNextRound, OpenRound
<1>4. nrounds + 1 \in Ids
    BY <1>1, Counts DEF Ids
<1>5. ASSUME NEW i \in 1 .. nrounds' PROVE SlotsFit(i)'
  <2>1. CASE i \in 1 .. nrounds
    <3>1. SlotsFit(i) /\ rounds'[i] = rounds[i]
        BY <1>2, <1>3, <2>1, Counts DEF SlotFacts, Inv, DataOK
    <3> QED
        BY <1>1, <3>1, FitKept
  <2>2. CASE i = nrounds + 1
    <3>1. rounds'[i].status = "Pending"
        BY <1>3, <1>4, <2>2 DEF Inv, DataOK
    <3>2. \A s \in SlotIds : slots[s].round # i
        BY <2>2, Counts DEF Inv, DataOK, RowsOK, Slot
    <3>3. Selected(i)' = {}
        BY <1>1, <3>2 DEF Selected
    <3> QED
        BY <3>1, <3>3 DEF SlotsFit
  <2> QED
      BY <1>1, <2>1, <2>2, Counts
<1> QED
    BY <1>2, <1>5, SlotRest

\* The statements of the desk that write neither a slot nor a round's status or time.
LEMMA SlotsKept ==
    ASSUME Inv, NEW r \in Requests, NEW t, task[r] = t,
           \/ SendInvites(r) \/ Join(r) \/ Unjoin(r) \/ ClaimDecision(r) \/ SendMail(r)
           \/ LiftHold(r) \/ Hold(r) \/ Hire(r) \/ Transition(r)
    PROVE  /\ Head(t.todo) \notin {"claimSlot", "select"} /\ UNCHANGED <<slots, nrounds>>
           /\ \A i \in Ids : rounds'[i].status = rounds[i].status /\ rounds'[i].at = rounds[i].at
<1>1. ASSUME NEW row, SetRound(r, row), row.status = Target(r).status, row.at = Target(r).at
      PROVE  \A i \in Ids : rounds'[i].status = rounds[i].status /\ rounds'[i].at = rounds[i].at
    BY <1>1 DEF SetRound, Target, Inv, DataOK
<1>2. ASSUME NEW s, At(r, s), s \notin {"stage", "find"} PROVE Target(r) \in Round
    BY <1>2, RunningRound DEF Target
<1>3. CASE SendInvites(r) \/ Join(r) \/ Unjoin(r) \/ SendMail(r)
  <2>1. Head(t.todo) \in {"invite", "joined", "unjoined", "mail"} /\ UNCHANGED <<slots, nrounds>>
      BY <1>3 DEF SendInvites, Join, Unjoin, SendMail, Overwrite, At
  <2>2. \E row : SetRound(r, row) /\ row.status = Target(r).status /\ row.at = Target(r).at
      BY <1>2, <1>3 DEF SendInvites, Join, Unjoin, SendMail, Overwrite, Round
  <2> QED
      BY <1>1, <2>1, <2>2
<1>4. CASE ClaimDecision(r)
  <2>1. Head(t.todo) = "decide" /\ UNCHANGED <<slots, nrounds>>
      BY <1>4 DEF ClaimDecision, At
  <2>2. CASE UNCHANGED rounds
      BY <2>1, <2>2
  <2>3. CASE SetRound(r, [Target(r) EXCEPT !.decision = task[r].decision, !.mailed = "None",
                                           !.result = ResultFor(task[r].decision)])
    <3>1. PICK row : row = [Target(r) EXCEPT !.decision = task[r].decision, !.mailed = "None",
                                             !.result = ResultFor(task[r].decision)]
        OBVIOUS
    <3>2. row.status = Target(r).status /\ row.at = Target(r).at
        BY <1>2, <1>4, <3>1 DEF ClaimDecision, Round
    <3> QED
        BY <1>1, <2>1, <2>3, <3>1, <3>2
  <2> QED
      BY <1>4, <2>2, <2>3 DEF ClaimDecision
<1>5. CASE LiftHold(r) \/ Hold(r) \/ Hire(r) \/ Transition(r)
    BY <1>5 DEF LiftHold, Hold, Hire, SetHiring, Transition, At
<1> QED
    BY <1>3, <1>4, <1>5

LEMMA SlotStep ==
    ASSUME Inv, NEW r \in Requests, Step(r), NEW t \in Task, task[r] = t, t.todo \in DeskLists, SlotFacts(t),
           NEW x \in Task, task' = [task EXCEPT ![r] = x], Moves(t, x)
    PROVE  SlotFacts(x)'
<1>1. CASE ReplaceSlots(r) \/ MarkSlot(r) \/ ClaimSlot(r) \/ SelectSlot(r) \/ Release(r) \/ OpenNextRound(r)
    BY <1>1, ReplaceSlotsFit, MarkSlotFits, ClaimSlotFits, SelectSlotFits, ReleaseFits, OpenNextFits
<1>2. CASE \/ SendInvites(r) \/ Join(r) \/ Unjoin(r) \/ ClaimDecision(r) \/ SendMail(r)
           \/ LiftHold(r) \/ Hold(r) \/ Hire(r) \/ Transition(r)
    BY <1>2, SlotsKept, SlotQuiet, Counts
<1>3. CASE Complete(r)
  <2>1. At(r, "complete") /\ Head(t.todo) = "complete" /\ UNCHANGED <<slots, nrounds>>
      BY <1>3 DEF Complete, Overwrite, At
  <2>2. t.todo # ClaimList /\ t.todo # SelectList
      BY <2>1 DEF ClaimList, SelectList
  <2>3. PICK row : SetRound(r, row) /\ row = [Target(r) EXCEPT !.status = "Completed"]
      BY <1>3 DEF Complete, Overwrite
  <2>4. row.status = "Completed"
      BY <2>1, <2>3, RunningRound DEF Target, Round
  <2>5. rounds'[t.round] = row /\ \A i \in Ids : i # t.round => rounds'[i] = rounds[i]
      BY <2>1, <2>3, Rewritten
  <2>6. ASSUME NEW i \in 1 .. nrounds PROVE SlotsFit(i)'
    <3>1. CASE i = t.round
        BY <2>4, <2>5, <3>1 DEF SlotsFit, Schedulable
    <3>2. CASE i # t.round
      <4>1. SlotsFit(i) /\ rounds'[i] = rounds[i]
          BY <2>2, <2>5, <3>2, Counts DEF SlotFacts
      <4> QED
          BY <2>1, <4>1, FitKept
    <3> QED
        BY <3>1, <3>2
  <2> QED
      BY <2>1, <2>2, <2>6, SlotRest
<1> QED
    BY <1>1, <1>2, <1>3, DeskStep

LEMMA SlotInit == Init => SlotInv
<1> SUFFICES ASSUME Init PROVE \A t \in Current : SlotFacts(t)
    BY DEF SlotInv
<1>1. Current = {Resting}
    BY RestingType DEF Init, Current, Quiet, Idle
<1>2. \A i \in 1 .. nrounds : rounds[i].status = "Pending"
    BY InterviewsAssumption DEF Init, NewRound, Ids
<1>3. \A i \in 1 .. nrounds : Selected(i) = {}
    BY NoSlotType DEF Init, Selected
<1>4. <<>> \notin {ClaimList, SelectList, <<"markUnavailable">>, <<"markAvailable">>}
    BY DEF ClaimList, SelectList
<1> QED
    BY <1>1, <1>2, <1>3, <1>4, RestingType DEF SlotFacts, SlotsFit

LEMMA SlotNext == Inv /\ DeskOnly /\ RunsAlone /\ SlotInv /\ [Next]_vars => SlotInv'
<1> SUFFICES ASSUME Inv, DeskOnly, RunsAlone, SlotInv, [Next]_vars, alone', desk' # "portal"
             PROVE  \A t \in Current' : SlotFacts(t)'
    BY DEF SlotInv
<1>1. ASSUME NEW r \in Requests, Start(r) PROVE \A t \in Current' : SlotFacts(t)'
  <2>1. PICK d, t : BeginAt(r, d, t) /\ t.todo # <<>> /\ Began(d, t) /\ t \in Task
      BY <1>1, StartBegan
  <2>2. alone /\ Current = {Resting} /\ Current' = {t} /\ d # "portal" /\ desk # "portal"
      BY <2>1, CurrentStart DEF BeginAt, Began
  <2>3. UNCHANGED <<rounds, nrounds, slots>>
      BY <2>1 DEF BeginAt
  <2>4. \A i \in 1 .. nrounds : SlotsFit(i)
    <3>1. <<>> # SelectList
        BY DEF SelectList
    <3> QED
        BY <2>2, <3>1, RestingType DEF SlotInv, SlotFacts
  <2>5. t.todo # SelectList /\ (t.todo = ClaimList => BeganConfirm(t))
        /\ (t.todo \in {<<"markUnavailable">>, <<"markAvailable">>} => BeganMark(t))
    <3>1. /\ Head(SelectList) = "select" /\ Head(ClaimList) = "claimSlot"
          /\ Head(<<"markUnavailable">>) = "markUnavailable" /\ Head(<<"markAvailable">>) = "markAvailable"
        BY DEF SelectList, ClaimList
    <3> QED
        BY <2>1, <2>2, <3>1, BeganHeads DEF Began
  <2>6. SlotFacts(t)
      BY <2>4, <2>5 DEF SlotFacts, BeganConfirm, BeganMark
  <2>7. SlotFacts(t)'
      BY <2>3, <2>6 DEF SlotFacts, SlotsFit, Selected
  <2> QED
      BY <2>2, <2>7
<1>2. ASSUME NEW r \in Requests, Step(r) PROVE \A t \in Current' : SlotFacts(t)'
  <2>1. PICK t : t = task[r]
      OBVIOUS
  <2>2. PICK x \in Task : task' = [task EXCEPT ![r] = x] /\ Moves(t, x)
      BY <1>2, <2>1, StepMoves
  <2>3. alone /\ Current = {t} /\ Current' = {x} /\ desk # "portal" /\ t.todo # <<>>
      BY <1>2, <2>1, <2>2, StepMoves, ListOf, CurrentStep DEF Moves
  <2>4. t \in Task /\ SlotFacts(t) /\ t.todo \in DeskLists
      BY <2>1, <2>3 DEF SlotInv, Inv, DeskOnly
  <2>5. SlotFacts(x)'
      BY <1>2, <2>1, <2>2, <2>4, SlotStep
  <2> QED
      BY <2>3, <2>5
<1>3. CASE Tick \/ UNCHANGED vars
  <2>1. UNCHANGED <<rounds, nrounds, slots, task, alone, desk>>
      BY <1>3 DEF Tick, vars
  <2>2. ASSUME NEW t, SlotFacts(t) PROVE SlotFacts(t)'
      BY <2>1, <2>2 DEF SlotFacts, SlotsFit, Selected
  <2>3. Current' = Current /\ \A t \in Current : SlotFacts(t)
      BY <2>1, CurrentStays DEF SlotInv
  <2> QED
      BY <2>2, <2>3
<1>4. CASE Restart
    BY <1>4 DEF Restart
<1> QED
    BY <1>1, <1>2, <1>3, <1>4 DEF Next

\* While handlers run one at a time and the portal does not answer, a scheduled round has
\* one selected slot, the one its time came from and one the candidate can make, and a freed
\* round has none: the two writes of a confirm and the deletions of a round edit leave no
\* other state behind (SlotFacts).
THEOREM ScheduledSlotsAgree == Spec => []ScheduledSlotAgrees
<1>1. Inv /\ SlotInv => ScheduledSlotAgrees
  <2> SUFFICES ASSUME SlotInv, alone, Quiet, desk # "portal", NEW i \in 1 .. nrounds PROVE SlotsFit(i)
      BY DEF ScheduledSlotAgrees, SlotsFit, Selected
  <2>1. SlotFacts(Resting)
      BY DEF SlotInv, Current
  <2>2. <<>> # SelectList
      BY DEF SelectList
  <2> QED
      BY <2>1, <2>2, RestingType DEF SlotFacts
<1>2. Inv /\ DeskOnly /\ RunsAlone /\ SlotInv /\ [Next]_vars => Inv' /\ DeskOnly' /\ RunsAlone' /\ SlotInv'
    BY NextKeepsInv, DeskOnlyNext, AloneNext, SlotNext
<1>3. Init => Inv /\ DeskOnly /\ RunsAlone /\ SlotInv
    BY InitInv, DeskOnlyInit, AloneInit, SlotInit
<1> QED
    BY <1>1, <1>2, <1>3, PTL DEF Spec

-----------------------------------------------------------------------------
(* The status of the application, Q3 answering.                            *)

NextLiftLists == {<<"next", "stage", "liftHold">>, <<"next", "stage", "liftHold", "mail">>}
StageLiftLists == {<<"stage", "liftHold">>, <<"stage", "liftHold", "mail">>}
NextStage(t) == StageFor(NewRound(rounds[t.round].number + 1, t.decision = "FinalRound"))

\* The tables, but for what the running handler is still to write.
StageTables(t) ==
    /\ \A i \in 1 .. nrounds : (i < nrounds \/ rounds[i].decision # "None") => rounds[i].status = "Completed"
    /\ hiring.onHold => \/ rounds[nrounds].decision \in {"Hold", "Rejected"}
                        \/ t.todo \in NextLiftLists \union StageLiftLists \union LiftLists \union HireLists
    /\ hiring.selected => rounds[nrounds].decision = "Selected"
    /\ rounds[nrounds].decision = "Selected" => hiring.selected \/ t.todo \in HireLists
    /\ IF t.todo \in StageLists \union {SelectList, <<"stage", "invite">>} THEN Shows(t.stage)
       ELSE t.todo \in NextLists \union HireLists \/ Shows(stage)
\* What it writes.
StageTask(t) ==
    /\ t.todo = ClaimList => rounds[t.round].status \in Schedulable /\ t.stage = StageFor(rounds[t.round])
    /\ t.todo = ReleaseList => /\ rounds[t.round].status = "Scheduled"
                               /\ t.stage \in {"INTERVIEW_NOT_ATTENDED", "RESCHEDULE_REQUESTED"}
    /\ t.todo = CompleteList => rounds[t.round].status = "Scheduled" /\ t.stage = "INTERVIEW_ATTENDED"
    /\ t.todo \in DecideLists =>
           /\ rounds[t.round].status = "Completed"
           /\ t.decision \in {"NextRound", "FinalRound"} /\ hiring.onHold => Tail(t.todo) \in NextLiftLists
           /\ t.decision \in {"NextRound", "FinalRound"} => t.stage = NextStage(t)
           /\ t.decision = "Selected" => t.stage = "SELECTED"
           /\ t.decision = "Rejected" => t.stage = "REJECTED"
    /\ t.todo \in NextLists => t.stage = NextStage(t)
    /\ t.todo \in HireLists => t.stage = "SELECTED"
    /\ t.todo \in HoldLists => rounds[nrounds].decision = "Hold"
StageInv == (alone /\ desk # "portal") => \A t \in Current : StageTables(t) /\ StageTask(t)

\* Shows, spelled out for a row that is the newest of n.
Stands(st, row, n) ==
    /\ row.decision = "Rejected" => st = "REJECTED"
    /\ row.decision = "Selected" => st = "SELECTED"
    /\ row.decision \notin {"Rejected", "Selected"} =>
           /\ row.status = "Completed" => st = "INTERVIEW_ATTENDED"
           /\ row.status = "NoShow" => st = "INTERVIEW_NOT_ATTENDED"
           /\ row.status = "RescheduleRequested" => st = "RESCHEDULE_REQUESTED"
           /\ row.status \notin {"Completed", "NoShow", "RescheduleRequested"} =>
                  IF row.status = "Pending" /\ n = 1 /\ st # "INTERVIEW_R1"
                  THEN st = "SHORTLISTED" ELSE st = StageFor(row)

LEMMA CaseStands ==
    ASSUME NEW st, NEW row, NEW n
    PROVE  (st = CASE row.decision = "Rejected" -> "REJECTED"
                [] row.decision = "Selected" -> "SELECTED"
                [] row.decision \notin {"Rejected", "Selected"} ->
                     CASE row.status = "Completed" -> "INTERVIEW_ATTENDED"
                       [] row.status = "NoShow" -> "INTERVIEW_NOT_ATTENDED"
                       [] row.status = "RescheduleRequested" -> "RESCHEDULE_REQUESTED"
                       [] row.status = "Pending" /\ n = 1 /\ st # "INTERVIEW_R1" -> "SHORTLISTED"
                       [] OTHER -> StageFor(row))
             <=> Stands(st, row, n)
<1> DEFINE Shown == CASE row.decision = "Rejected" -> "REJECTED"
                    [] row.decision = "Selected" -> "SELECTED"
                    [] row.decision \notin {"Rejected", "Selected"} ->
                         CASE row.status = "Completed" -> "INTERVIEW_ATTENDED"
                           [] row.status = "NoShow" -> "INTERVIEW_NOT_ATTENDED"
                           [] row.status = "RescheduleRequested" -> "RESCHEDULE_REQUESTED"
                           [] row.status = "Pending" /\ n = 1 /\ st # "INTERVIEW_R1" -> "SHORTLISTED"
                           [] OTHER -> StageFor(row)
<1>1. CASE row.decision = "Rejected"
    BY <1>1 DEF Stands
<1>2. CASE row.decision = "Selected"
    BY <1>2 DEF Stands
<1>3. CASE row.decision \notin {"Rejected", "Selected"}
  <2>1. Shown = CASE row.status = "Completed" -> "INTERVIEW_ATTENDED"
                  [] row.status = "NoShow" -> "INTERVIEW_NOT_ATTENDED"
                  [] row.status = "RescheduleRequested" -> "RESCHEDULE_REQUESTED"
                  [] row.status = "Pending" /\ n = 1 /\ st # "INTERVIEW_R1" -> "SHORTLISTED"
                  [] OTHER -> StageFor(row)
      BY <1>3
  <2>2. CASE row.status = "Completed"
      BY <1>3, <2>1, <2>2 DEF Stands
  <2>3. CASE row.status = "NoShow"
      BY <1>3, <2>1, <2>3 DEF Stands
  <2>4. CASE row.status = "RescheduleRequested"
      BY <1>3, <2>1, <2>4 DEF Stands
  <2>5. CASE row.status = "Pending" /\ n = 1 /\ st # "INTERVIEW_R1"
      BY <1>3, <2>1, <2>5 DEF Stands
  <2>6. CASE /\ row.status \notin {"Completed", "NoShow", "RescheduleRequested"}
             /\ ~(row.status = "Pending" /\ n = 1 /\ st # "INTERVIEW_R1")
      BY <1>3, <2>1, <2>6 DEF Stands
  <2> QED
      BY <2>2, <2>3, <2>4, <2>5, <2>6
<1> QED
    BY <1>1, <1>2, <1>3

LEMMA ShowsIs ==
    ASSUME NEW st
    PROVE  /\ Shows(st) <=> Stands(st, rounds[nrounds], nrounds)
           /\ Shows(st)' <=> Stands(st, rounds'[nrounds'], nrounds')
BY Zenon, CaseStands DEF Shows

\* The rows that the status stands for stay.
KeepsRows ==
    /\ nrounds' = nrounds
    /\ \A i \in 1 .. nrounds : /\ rounds'[i].decision = rounds[i].decision /\ rounds'[i].status = rounds[i].status
                              /\ rounds'[i].number = rounds[i].number /\ rounds'[i].final = rounds[i].final

LEMMA ShowsKept ==
    ASSUME Inv, KeepsRows, NEW st, Shows(st)
    PROVE  Shows(st)'
<1>1. PICK row : row = rounds[nrounds]
    OBVIOUS
<1>2. PICK new : new = rounds'[nrounds]
    OBVIOUS
<1>3. /\ new.decision = row.decision /\ new.status = row.status /\ new.number = row.number /\ new.final = row.final
      /\ nrounds' = nrounds
    BY <1>1, <1>2, Counts DEF KeepsRows
<1>4. StageFor(new) = StageFor(row)
    BY <1>3 DEF StageFor
<1>5. Stands(st, row, nrounds)
    BY <1>1, ShowsIs
<1>6. Stands(st, new, nrounds)
    BY <1>3, <1>4, <1>5 DEF Stands
<1> QED
    BY <1>2, <1>3, <1>6, ShowsIs

\* What a list of the desk becomes, by its first statement.
LEMMA DeskTail ==
    ASSUME NEW l \in DeskLists
    PROVE  /\ Head(l) \in {"slots", "markUnavailable", "markAvailable", "joined", "unjoined", "mail", "invite"} =>
                  Tail(l) = <<>>
           /\ Head(l) = "claimSlot" => l = ClaimList /\ Tail(l) = SelectList
           /\ Head(l) = "select" => l = SelectList /\ Tail(l) = <<"stage", "invite">>
           /\ Head(l) \in {"release", "complete"} => l \in {ReleaseList, CompleteList} /\ Tail(l) = <<"stage">>
           /\ Head(l) \in {"hold", "liftHold"} => Tail(l) \in {<<>>, <<"mail">>}
           /\ Head(l) = "hire" => Tail(l) \in {<<"stage">>, <<"stage", "mail">>}
           /\ Head(l) = "stage" => Tail(l) \in {<<>>, <<"mail">>, <<"invite">>} \union LiftLists
           /\ l \in StageLiftLists => Tail(l) \in LiftLists
           /\ Head(l) = "next" => Tail(l) \in StageLists
           /\ l \in NextLiftLists => Tail(l) \in StageLiftLists
           /\ Head(l) = "decide" => Tail(l) \in NextLists \union HoldLists \union HireLists
                                                  \union {<<"stage">>, <<"stage", "mail">>}
<1>1. Head(l) \in Statements /\ l \in Lists
    BY DeskList, ListOf
<1>2. Head(l) = "claimSlot" => l = ClaimList /\ Tail(l) = SelectList
    BY <1>1, ListOf, TailOf DEF ClaimList, SelectList
<1>3. Head(l) = "select" => l = SelectList /\ Tail(l) = <<"stage", "invite">>
    BY <1>1, ListOf, TailOf DEF SelectList
<1>4. Head(l) \in {"release", "complete"} => l \in {ReleaseList, CompleteList} /\ Tail(l) = <<"stage">>
    BY <1>1, ListOf, TailOf DEF ReleaseList, CompleteList
<1>5. Head(l) = "stage" => Tail(l) \in {<<>>, <<"mail">>, <<"invite">>} \union LiftLists
  <2>1. Head(l) = "stage" => Tail(l) # <<"find", "reopen">>
    <3>1. \A m \in StageLists : Tail(m) = <<>> \/ Head(Tail(m)) # "find"
        BY DEF StageLists
    <3>2. /\ Tail(<<"stage", "invite">>) = <<"invite">> /\ Head(<<"invite">>) = "invite"
          /\ Head(<<"find", "reopen">>) = "find" /\ <<"find", "reopen">> # <<>>
        OBVIOUS
    <3> QED
        BY <3>1, <3>2, DeskList
  <2> QED
      BY <1>1, <2>1, TailOf
<1>6. \A m \in StageLiftLists : Tail(m) \in LiftLists
  <2>1. /\ Tail(<<"stage", "liftHold">>) = <<"liftHold">>
        /\ Tail(<<"stage", "liftHold", "mail">>) = <<"liftHold", "mail">>
      OBVIOUS
  <2> QED
      BY <2>1 DEF StageLiftLists, LiftLists
<1>7. \A m \in NextLiftLists : Tail(m) \in StageLiftLists
  <2>1. /\ Tail(<<"next", "stage", "liftHold">>) = <<"stage", "liftHold">>
        /\ Tail(<<"next", "stage", "liftHold", "mail">>) = <<"stage", "liftHold", "mail">>
      OBVIOUS
  <2> QED
      BY <2>1 DEF StageLiftLists, NextLiftLists
<1> QED
    BY <1>1, <1>2, <1>3, <1>4, <1>5, <1>6, <1>7, TailOf

\* While these are executed the status is still to be written; during those, a hold to be lifted.
WritingLists == StageLists \union {SelectList, <<"stage", "invite">>}
LiftingLists == NextLiftLists \union StageLiftLists \union LiftLists \union HireLists
TaskLists == {ClaimList, ReleaseList, CompleteList} \union DecideLists \union NextLists \union HireLists \union HoldLists

LEMMA WritingHeads ==
    /\ \A l \in WritingLists : l # <<>> /\ Head(l) \in {"stage", "select"}
    /\ \A l \in LiftingLists : l # <<>> /\ Head(l) \in {"next", "stage", "liftHold", "hire"}
    /\ \A l \in TaskLists : l # <<>> /\ Head(l) \in {"claimSlot", "release", "complete", "decide", "next", "hire", "hold"}
    /\ NextLists \subseteq TaskLists /\ HireLists \subseteq TaskLists
<1>1. \A l \in WritingLists : l # <<>> /\ Head(l) \in {"stage", "select"}
    BY DEF WritingLists, StageLists, SelectList
<1>2. \A l \in LiftingLists : l # <<>> /\ Head(l) \in {"next", "stage", "liftHold", "hire"}
    BY DEF LiftingLists, NextLiftLists, StageLiftLists, LiftLists, HireLists
<1>3. \A l \in {ClaimList, ReleaseList, CompleteList} : l # <<>> /\ Head(l) \in {"claimSlot", "release", "complete"}
    BY DEF ClaimList, ReleaseList, CompleteList
<1>4. <<>> \notin DecideLists \union NextLists \union HireLists \union HoldLists
    BY DEF DecideLists, NextLists, HireLists, HoldLists
<1>5. \A l \in TaskLists : l # <<>> /\ Head(l) \in {"claimSlot", "release", "complete", "decide", "next", "hire", "hold"}
    BY <1>3, <1>4, HeadsAre DEF TaskLists
<1> QED
    BY <1>1, <1>2, <1>5 DEF TaskLists

\* A list that neither writes the status nor waits to.
LEMMA FreeHead ==
    ASSUME NEW l, l = <<>> \/ Head(l) \notin {"next", "stage", "liftHold", "hire", "select"}
    PROVE  l \notin WritingLists \union LiftingLists \union NextLists \union HireLists
<1>1. \A m \in WritingLists \union LiftingLists \union NextLists \union HireLists :
          m # <<>> /\ Head(m) \in {"next", "stage", "liftHold", "hire", "select"}
  <2>1. <<>> \notin NextLists \union HireLists
      BY DEF NextLists, HireLists
  <2> QED
      BY <2>1, WritingHeads, HeadsAre
<1> QED
    BY <1>1

\* The rows and the hiring of StageTables, for a newest row.
LEMMA TablesAre ==
    ASSUME NEW t
    PROVE  StageTables(t) <=>
               /\ \A i \in 1 .. nrounds : (i < nrounds \/ rounds[i].decision # "None") => rounds[i].status = "Completed"
               /\ hiring.onHold => rounds[nrounds].decision \in {"Hold", "Rejected"} \/ t.todo \in LiftingLists
               /\ hiring.selected => rounds[nrounds].decision = "Selected"
               /\ rounds[nrounds].decision = "Selected" => hiring.selected \/ t.todo \in HireLists
               /\ t.todo \in WritingLists => Shows(t.stage)
               /\ t.todo \in WritingLists \union NextLists \union HireLists \/ Shows(stage)
BY DEF StageTables, WritingLists, LiftingLists

\* A statement after which nothing of the handler's own is left but what StageTables says.
LEMMA StageRest ==
    ASSUME NEW t, t.todo \in DeskLists, NEW x, Moves(t, x), Head(t.todo) # "decide", StageTables(x)'
    PROVE  StageTables(x)' /\ StageTask(x)'
<1>1. x.todo = <<>> \/ (x.todo = Tail(t.todo) /\ Tail(t.todo) # <<>>)
    BY DEF Moves
<1>2. t.todo \in Lists /\ Head(t.todo) \in Statements
    BY DeskList, ListOf
<1>3. Tail(t.todo) # <<>> => Head(Tail(t.todo)) \in {"select", "stage", "invite", "mail", "liftHold"}
  <2>1. /\ Head(SelectList) = "select" /\ Head(<<"stage", "invite">>) = "stage" /\ Head(<<"stage">>) = "stage"
        /\ Head(<<"mail">>) = "mail" /\ Head(<<"stage", "mail">>) = "stage" /\ Head(<<"invite">>) = "invite"
      BY DEF SelectList
  <2>2. CASE Head(t.todo) \in {"slots", "markUnavailable", "markAvailable", "joined", "unjoined", "mail", "invite"}
      BY <2>2, DeskTail
  <2>3. CASE Head(t.todo) \in {"claimSlot", "select", "release", "complete", "hold", "liftHold", "hire"}
      BY <2>1, <2>3, DeskTail
  <2>4. CASE Head(t.todo) \in {"stage", "next"}
      BY <2>1, <2>4, DeskTail, HeadsAre
  <2> QED
      BY <1>2, <2>2, <2>3, <2>4, DeskList DEF Statements
<1>4. x.todo \notin TaskLists
    BY <1>1, <1>3, WritingHeads
<1> QED
    BY <1>4 DEF StageTask, TaskLists

\* Statements that keep the rows, the hiring and the status.
LEMMA StageQuiet ==
    ASSUME Inv, NEW r \in Requests, NEW t, task[r] = t, t.todo \in DeskLists, NEW x, Moves(t, x), StageTables(t),
           Head(t.todo) \in {"slots", "markUnavailable", "markAvailable", "joined", "unjoined", "mail", "invite"}
                \/ (x.todo = <<>> /\ Head(t.todo) = "decide"),
           KeepsRows, UNCHANGED <<hiring, stage>>
    PROVE  StageTables(x)' /\ StageTask(x)'
<1>1. x.todo = <<>>
    BY DeskTail DEF Moves
<1>2. /\ t.todo \notin WritingLists \union LiftingLists \union NextLists \union HireLists
      /\ x.todo \notin WritingLists \union LiftingLists \union NextLists \union HireLists
    BY <1>1, FreeHead
<1>3. Shows(stage)'
  <2>1. PICK st : st = stage
      OBVIOUS
  <2>2. Shows(st)'
      BY <1>2, <2>1, ShowsKept, TablesAre
  <2> QED
      BY <2>1, <2>2 DEF Shows
<1>4. StageTables(x)'
  <2>1. nrounds' = nrounds /\ nrounds \in 1 .. nrounds
      BY Counts DEF KeepsRows
  <2> QED
      BY <1>2, <1>3, <2>1, TablesAre DEF StageTables, KeepsRows, WritingLists, LiftingLists
<1>5. StageTask(x)'
  <2>1. x.todo \notin TaskLists
      BY <1>1, WritingHeads
  <2> QED
      BY <2>1 DEF StageTask, TaskLists
<1> QED
    BY <1>4, <1>5

\* A round that is not completed is the newest and without a decision.
LEMMA OpenIsNewest ==
    ASSUME Inv, NEW t, StageTables(t), NEW i \in 1 .. nrounds, rounds[i].status # "Completed"
    PROVE  i = nrounds /\ rounds[nrounds].decision = "None"
BY Counts DEF StageTables

\* A handler of the desk rewrites the status of the newest round.
StatusTo(t, row) ==
    /\ nrounds' = nrounds
    /\ t.round = nrounds /\ rounds[nrounds].decision = "None"
    /\ rounds'[nrounds] = row /\ row.decision = "None" /\ row.number = rounds[nrounds].number
    /\ row.final = rounds[nrounds].final
    /\ \A i \in 1 .. nrounds : i # nrounds => rounds'[i] = rounds[i]

LEMMA StatusWritten ==
    ASSUME Inv, NEW t, t.todo \in {ClaimList, ReleaseList, CompleteList}, StageTables(t), NEW row, StatusTo(t, row),
           UNCHANGED <<hiring, stage>>, NEW x, x.todo \in WritingLists, x.stage = t.stage,
           x.todo \notin LiftingLists, Stands(t.stage, row, nrounds)
    PROVE  StageTables(x)'
<1>1. t.todo \notin WritingLists \union LiftingLists \union NextLists \union HireLists
  <2>1. Head(t.todo) \in {"claimSlot", "release", "complete"}
      BY DEF ClaimList, ReleaseList, CompleteList
  <2> QED
      BY <2>1, FreeHead
<1>2. Shows(x.stage)'
  <2>1. PICK st : st = t.stage
      OBVIOUS
  <2>2. Shows(st)'
      BY <2>1, ShowsIs DEF StatusTo
  <2> QED
      BY <2>1, <2>2 DEF Shows
<1>3. \A i \in 1 .. nrounds' : (i < nrounds' \/ rounds'[i].decision # "None") => rounds'[i].status = "Completed"
    BY Counts DEF StageTables, StatusTo
<1>4. hiring' = hiring /\ ~hiring.selected /\ ~hiring.onHold /\ rounds'[nrounds'].decision = "None"
    BY <1>1, TablesAre DEF StatusTo
<1> QED
    BY <1>2, <1>3, <1>4 DEF StageTables, WritingLists, LiftingLists

LEMMA ClaimSlotStage ==
    ASSUME Inv, NEW r \in Requests, NEW t \in Task, task[r] = t, t.todo \in DeskLists, ClaimSlot(r),
           StageTables(t), StageTask(t), NEW x, task' = [task EXCEPT ![r] = x], Moves(t, x)
    PROVE  StageTables(x)' /\ StageTask(x)'
<1>1. At(r, "claimSlot") /\ Head(t.todo) = "claimSlot" /\ UNCHANGED <<nrounds, hiring, stage>>
    BY DEF ClaimSlot, At
<1>2. t.todo = ClaimList /\ Tail(t.todo) = SelectList
    BY <1>1, DeskTail
<1>3. Target(r).status \in Schedulable /\ t.stage = StageFor(rounds[t.round])
    BY <1>2 DEF StageTask, Target
<1>4. /\ SetRound(r, [Target(r) EXCEPT !.status = "Scheduled", !.at = task[r].at, !.joined = FALSE])
      /\ Continue(r)
    BY <1>3 DEF ClaimSlot
<1>5. PICK row : row = [Target(r) EXCEPT !.status = "Scheduled", !.at = task[r].at, !.joined = FALSE]
    OBVIOUS
<1>6. Target(r) \in Round /\ t.round \in 1 .. nrounds /\ t.round \in Ids
    BY <1>1, RunningRound DEF Target
<1>7. /\ row.status = "Scheduled" /\ row.decision = Target(r).decision /\ row.number = Target(r).number
      /\ row.final = Target(r).final
    BY <1>5, <1>6 DEF Round
<1>8. rounds'[t.round] = row /\ \A i \in Ids : i # t.round => rounds'[i] = rounds[i]
    BY <1>1, <1>4, <1>5, Rewritten
<1>9. t.round = nrounds /\ rounds[nrounds].decision = "None"
    BY <1>3, <1>6, OpenIsNewest DEF Target, Schedulable
<1>10. StatusTo(t, row)
    BY <1>1, <1>7, <1>8, <1>9, Counts DEF StatusTo, Target
<1>11. Stands(t.stage, row, nrounds)
  <2>1. StageFor(row) = StageFor(rounds[t.round])
      BY <1>7 DEF StageFor, Target
  <2> QED
      BY <1>3, <1>7, <1>9, <2>1 DEF Stands, Target
<1>12. SelectList # <<>> /\ SelectList \in WritingLists /\ SelectList \notin LiftingLists
  <2>1. SelectList # <<>> /\ Head(SelectList) = "select"
      BY DEF SelectList
  <2> QED
      BY <2>1, WritingHeads DEF WritingLists
<1>13. x.todo = SelectList /\ x.stage = t.stage
  <2>1. x = Rest(t)
      BY <1>4 DEF Continue, Inv
  <2>2. x = [t EXCEPT !.todo = SelectList]
      BY <1>2, <1>12, <2>1 DEF Rest
  <2> QED
      BY <2>2 DEF Task
<1>14. StageTables(x)'
    BY <1>1, <1>2, <1>10, <1>11, <1>12, <1>13, StatusWritten
<1> QED
    BY <1>1, <1>14, StageRest

LEMMA ReleaseStage ==
    ASSUME Inv, NEW r \in Requests, NEW t \in Task, task[r] = t, t.todo \in DeskLists, Release(r) \/ Complete(r),
           StageTables(t), StageTask(t), NEW x, task' = [task EXCEPT ![r] = x], Moves(t, x)
    PROVE  StageTables(x)' /\ StageTask(x)'
<1>1. \E s : At(r, s) /\ s \in {"release", "complete"} /\ Head(t.todo) = s
    BY DEF Release, Complete, Overwrite, At
<1>2. /\ Continue(r) /\ UNCHANGED <<nrounds, hiring, stage>>
      /\ Head(t.todo) = IF Release(r) THEN "release" ELSE "complete"
    BY DEF Release, Complete, Overwrite, At
<1>3. t.todo \in {ReleaseList, CompleteList} /\ Tail(t.todo) = <<"stage">>
    BY <1>1, DeskTail
<1>4. rounds[t.round].status = "Scheduled"
    BY <1>3 DEF StageTask
<1>5. Target(r) \in Round /\ t.round \in 1 .. nrounds /\ t.round \in Ids
    BY <1>1, RunningRound DEF Target
<1>6. t.round = nrounds /\ rounds[nrounds].decision = "None"
    BY <1>4, <1>5, OpenIsNewest
<1>7. PICK row : /\ SetRound(r, row) /\ row.decision = Target(r).decision /\ row.number = Target(r).number
                /\ row.final = Target(r).final
                /\ row.status = IF Release(r)
                                THEN IF t.stage = "INTERVIEW_NOT_ATTENDED" THEN "NoShow" ELSE "RescheduleRequested"
                                ELSE "Completed"
  <2>1. CASE Release(r)
    <3>1. PICK status : status = IF t.stage = "INTERVIEW_NOT_ATTENDED" THEN "NoShow" ELSE "RescheduleRequested"
        OBVIOUS
    <3>2. PICK row : SetRound(r, row) /\ row = [Target(r) EXCEPT !.releases = @ + 1, !.status = status]
        BY <2>1, <3>1 DEF Release
    <3>3. row.decision = Target(r).decision /\ row.number = Target(r).number /\ row.final = Target(r).final
          /\ row.status = status
        BY <1>5, <3>2 DEF Round
    <3> QED
        BY <2>1, <3>1, <3>2, <3>3
  <2>2. CASE ~Release(r)
    <3>1. PICK row : SetRound(r, row) /\ row = [Target(r) EXCEPT !.status = "Completed"]
        BY <2>2 DEF Complete, Overwrite
    <3>2. row.decision = Target(r).decision /\ row.number = Target(r).number /\ row.final = Target(r).final
          /\ row.status = "Completed"
        BY <1>5, <3>1 DEF Round
    <3> QED
        BY <2>2, <3>1, <3>2
  <2> QED
      BY <2>1, <2>2
<1>8. rounds'[t.round] = row /\ \A i \in Ids : i # t.round => rounds'[i] = rounds[i]
    BY <1>1, <1>7, Rewritten
<1>9. StatusTo(t, row)
    BY <1>2, <1>6, <1>7, <1>8, Counts DEF StatusTo, Target
<1>10. Stands(t.stage, row, nrounds)
  <2>1. t.todo = IF Release(r) THEN ReleaseList ELSE CompleteList
      BY <1>2, <1>3 DEF ReleaseList, CompleteList
  <2>2. /\ Release(r) => t.stage \in {"INTERVIEW_NOT_ATTENDED", "RESCHEDULE_REQUESTED"}
        /\ ~Release(r) => t.stage = "INTERVIEW_ATTENDED"
      BY <2>1 DEF StageTask
  <2> QED
      BY <1>6, <1>7, <2>2 DEF Stands, Target
<1>11. <<"stage">> # <<>> /\ <<"stage">> \in WritingLists /\ <<"stage">> \notin LiftingLists
  <2>1. <<"stage">> \notin StageLiftLists
      BY DEF StageLiftLists
  <2> QED
      BY <2>1, HeadsAre DEF WritingLists, StageLists, LiftingLists, NextLiftLists, LiftLists, HireLists
<1>12. x.todo = <<"stage">> /\ x.stage = t.stage
  <2>1. x = Rest(t)
      BY <1>2 DEF Continue, Inv
  <2>2. x = [t EXCEPT !.todo = <<"stage">>]
      BY <1>3, <1>11, <2>1 DEF Rest
  <2> QED
      BY <2>2 DEF Task
<1>13. StageTables(x)'
    BY <1>2, <1>3, <1>9, <1>10, <1>11, <1>12, StatusWritten
<1> QED
    BY <1>1, <1>13, StageRest

\* A selection that is not rolled back leaves the status to be written as it was.
LEMMA SelectSlotStage ==
    ASSUME Inv, NEW r \in Requests, NEW t \in Task, task[r] = t, t.todo \in DeskLists, SelectSlot(r), SlotFacts(t),
           StageTables(t), StageTask(t), NEW x, task' = [task EXCEPT ![r] = x], Moves(t, x)
    PROVE  StageTables(x)' /\ StageTask(x)'
<1>1. At(r, "select") /\ Head(t.todo) = "select" /\ UNCHANGED <<rounds, nrounds, hiring, stage>>
    BY DEF SelectSlot, At
<1>2. t.todo = SelectList /\ Tail(t.todo) = <<"stage", "invite">>
    BY <1>1, DeskTail
<1>3. slots[t.slot].round = t.round /\ t.round # 0
    BY <1>1, <1>2, RunningRound, Counts DEF SlotFacts
<1>4. Continue(r)
    BY <1>3 DEF SelectSlot
<1>5. x.todo = <<"stage", "invite">> /\ x.stage = t.stage
  <2>1. x = Rest(t) /\ <<"stage", "invite">> # <<>>
      BY <1>4 DEF Continue, Inv
  <2>2. x = [t EXCEPT !.todo = <<"stage", "invite">>]
      BY <1>2, <2>1 DEF Rest
  <2> QED
      BY <2>2 DEF Task
<1>6. t.todo \in WritingLists /\ t.todo \notin LiftingLists /\ t.todo \notin HireLists
    BY <1>1, <1>2, WritingHeads, HeadsAre DEF WritingLists
<1>7. x.todo \in WritingLists
    BY <1>5 DEF WritingLists
<1>8. Shows(t.stage)' /\ x.stage = t.stage
    BY <1>1, <1>5, <1>6, TablesAre DEF Shows
<1>9. StageTables(x)'
    BY <1>1, <1>6, <1>7, <1>8, TablesAre DEF StageTables, WritingLists, LiftingLists
<1> QED
    BY <1>1, <1>9, StageRest

\* The status is written.
LEMMA TransitionStage ==
    ASSUME Inv, NEW r \in Requests, NEW t \in Task, task[r] = t, t.todo \in DeskLists, Transition(r),
           StageTables(t), StageTask(t), NEW x, task' = [task EXCEPT ![r] = x], Moves(t, x)
    PROVE  StageTables(x)' /\ StageTask(x)'
<1>1. Head(t.todo) = "stage" /\ UNCHANGED <<rounds, nrounds, hiring>> /\ stage' = t.stage /\ Continue(r)
    BY DEF Transition, At
<1>2. t.todo \in WritingLists /\ t.todo \notin HireLists
    BY <1>1, DeskList, HeadsAre DEF WritingLists
<1>3. x.todo = Tail(t.todo)
  <2>1. x = Rest(t)
      BY <1>1 DEF Continue, Inv
  <2> QED
      BY <2>1, RestingType DEF Rest, Task
<1>4. x.todo \in {<<>>, <<"mail">>, <<"invite">>} \union LiftLists /\ (t.todo \in LiftingLists => x.todo \in LiftLists)
  <2>1. t.todo \in LiftingLists => t.todo \in StageLiftLists
    <3>1. \A m \in NextLiftLists : Head(m) = "next"
        BY DEF NextLiftLists
    <3> QED
        BY <1>1, <3>1, HeadsAre DEF LiftingLists
  <2> QED
      BY <1>1, <1>3, <2>1, DeskTail
<1>5. x.todo = <<>> \/ Head(x.todo) \in {"mail", "invite", "liftHold"}
    BY <1>4, HeadsAre
<1>6. x.todo \notin WritingLists \union HireLists \union NextLists
  <2>1. <<>> \notin HireLists \union NextLists
      BY DEF HireLists, NextLists
  <2> QED
      BY <1>5, <2>1, WritingHeads, HeadsAre
<1>7. Shows(stage)'
  <2>1. Shows(t.stage)
      BY <1>2, TablesAre
  <2> QED
      BY <1>1, <2>1 DEF Shows
<1>8. StageTables(x)'
  <2>1. /\ \A i \in 1 .. nrounds' : (i < nrounds' \/ rounds'[i].decision # "None") => rounds'[i].status = "Completed"
        /\ hiring'.onHold => rounds'[nrounds'].decision \in {"Hold", "Rejected"} \/ x.todo \in LiftingLists
        /\ hiring'.selected => rounds'[nrounds'].decision = "Selected"
        /\ rounds'[nrounds'].decision = "Selected" => hiring'.selected \/ x.todo \in HireLists
      BY <1>1, <1>2, <1>4, TablesAre DEF LiftingLists
  <2> QED
      BY <1>6, <1>7, <2>1 DEF StageTables, WritingLists, LiftingLists
<1> QED
    BY <1>1, <1>8, StageRest

\* Statements that touch neither the hiring nor the status nor the rows it stands for.
LEMMA QuietRows ==
    ASSUME Inv, NEW r \in Requests,
           ReplaceSlots(r) \/ MarkSlot(r) \/ SendInvites(r) \/ Join(r) \/ Unjoin(r) \/ SendMail(r)
    PROVE  /\ KeepsRows /\ UNCHANGED <<hiring, stage>>
           /\ Head(task[r].todo) \in {"slots", "markUnavailable", "markAvailable", "joined", "unjoined", "mail", "invite"}
<1>1. CASE ReplaceSlots(r) \/ MarkSlot(r)
    BY <1>1 DEF ReplaceSlots, MarkSlot, PutSlots, At, KeepsRows
<1>2. ASSUME NEW s, s \in {"invite", "joined", "unjoined", "mail"}, NEW row, Overwrite(r, s, row),
             row.decision = Target(r).decision, row.status = Target(r).status,
             row.number = Target(r).number, row.final = Target(r).final
      PROVE  KeepsRows /\ UNCHANGED <<hiring, stage>> /\ Head(task[r].todo) = s
  <2>1. At(r, s) /\ SetRound(r, row) /\ UNCHANGED <<nrounds, hiring, stage>> /\ Head(task[r].todo) = s
      BY <1>2 DEF Overwrite, At
  <2>2. rounds'[task[r].round] = row /\ \A i \in Ids : i # task[r].round => rounds'[i] = rounds[i]
      BY <1>2, <2>1, Rewritten
  <2> QED
      BY <1>2, <2>1, <2>2, Counts DEF KeepsRows, Target
<1>3. ASSUME NEW s, s \in {"invite", "joined", "unjoined", "mail"}, At(r, s) PROVE Target(r) \in Round
    BY <1>3, RunningRound DEF Target
<1>4. CASE SendInvites(r)
  <2>1. PICK row : row = [Target(r) EXCEPT !.invites = @ + 1]
      OBVIOUS
  <2>2. Overwrite(r, "invite", row) /\ Target(r) \in Round
      BY <1>3, <1>4, <2>1 DEF SendInvites, Overwrite
  <2> QED
      BY <1>2, <2>1, <2>2 DEF Round
<1>5. CASE Join(r)
  <2>1. PICK row : row = [Target(r) EXCEPT !.joined = TRUE]
      OBVIOUS
  <2>2. Overwrite(r, "joined", row) /\ Target(r) \in Round
      BY <1>3, <1>5, <2>1 DEF Join, Overwrite
  <2> QED
      BY <1>2, <2>1, <2>2 DEF Round
<1>6. CASE Unjoin(r)
  <2>1. PICK row : row = [Target(r) EXCEPT !.joined = FALSE]
      OBVIOUS
  <2>2. Overwrite(r, "unjoined", row) /\ Target(r) \in Round
      BY <1>3, <1>6, <2>1 DEF Unjoin, Overwrite
  <2> QED
      BY <1>2, <2>1, <2>2 DEF Round
<1>7. CASE SendMail(r)
  <2>1. PICK row : row = [Target(r) EXCEPT !.mailed = task[r].decision]
      OBVIOUS
  <2>2. Overwrite(r, "mail", row) /\ Target(r) \in Round
      BY <1>3, <1>7, <2>1 DEF SendMail, Overwrite
  <2> QED
      BY <1>2, <2>1, <2>2 DEF Round
<1> QED
    BY <1>1, <1>4, <1>5, <1>6, <1>7

\* A hold is lifted or set.
LEMMA HoldStage ==
    ASSUME Inv, NEW r \in Requests, NEW t \in Task, task[r] = t, t.todo \in DeskLists, LiftHold(r) \/ Hold(r),
           StageTables(t), StageTask(t), NEW x, task' = [task EXCEPT ![r] = x], Moves(t, x)
    PROVE  StageTables(x)' /\ StageTask(x)'
<1>1. Head(t.todo) \in {"liftHold", "hold"} /\ UNCHANGED <<rounds, nrounds, stage>>
    BY DEF LiftHold, Hold, SetHiring, At
<1>2. x.todo = <<>> \/ x.todo = <<"mail">>
    BY <1>1, DeskTail DEF Moves
<1>3. t.todo \notin WritingLists \union NextLists \union HireLists
    BY <1>1, DeskList, WritingHeads, HeadsAre
<1>4. x.todo \notin WritingLists \union LiftingLists \union NextLists \union HireLists
  <2>1. Head(<<"mail">>) = "mail"
      OBVIOUS
  <2> QED
      BY <1>2, <2>1, FreeHead
<1>5. hiring'.selected = hiring.selected
    BY DEF LiftHold, Hold, SetHiring, Inv, DataOK
<1>6. hiring'.onHold => rounds[nrounds].decision = "Hold"
  <2>1. CASE LiftHold(r)
      BY <2>1 DEF LiftHold, SetHiring, Inv, DataOK
  <2>2. CASE Hold(r)
    <3>1. t.todo \in HoldLists
        BY <2>2, DeskList, ListOf DEF Hold, SetHiring, At
    <3> QED
        BY <3>1 DEF StageTask
  <2> QED
      BY <2>1, <2>2
<1>7. Shows(stage)'
  <2>1. Shows(stage)
      BY <1>3, TablesAre
  <2> QED
      BY <1>1, <2>1 DEF Shows
<1>8. /\ \A i \in 1 .. nrounds : (i < nrounds \/ rounds[i].decision # "None") => rounds[i].status = "Completed"
      /\ hiring.selected => rounds[nrounds].decision = "Selected"
      /\ rounds[nrounds].decision = "Selected" => hiring.selected
    BY <1>3, TablesAre
<1>9. StageTables(x)'
    BY <1>1, <1>4, <1>5, <1>6, <1>7, <1>8 DEF StageTables, WritingLists, LiftingLists
<1> QED
    BY <1>1, <1>9, StageRest

\* The application is hired; its status is still to be written.
LEMMA HireStage ==
    ASSUME Inv, NEW r \in Requests, NEW t \in Task, task[r] = t, t.todo \in DeskLists, Hire(r), Backed(t),
           StageTables(t), StageTask(t), NEW x, task' = [task EXCEPT ![r] = x], Moves(t, x)
    PROVE  StageTables(x)' /\ StageTask(x)'
<1>1. Head(t.todo) = "hire" /\ UNCHANGED <<rounds, nrounds, stage>> /\ Continue(r)
      /\ hiring' = [selected |-> TRUE, onHold |-> FALSE]
    BY DEF Hire, SetHiring, At
<1>2. t.todo \in HireLists
    BY <1>1, DeskList, ListOf
<1>3. rounds[nrounds].decision = "Selected" /\ t.stage = "SELECTED"
    BY <1>2 DEF Backed, StageTask
<1>4. Tail(t.todo) \in WritingLists /\ Tail(t.todo) # <<>>
  <2>1. /\ <<"stage">> \in WritingLists /\ <<"stage", "mail">> \in WritingLists
      BY DEF WritingLists, StageLists
  <2> QED
      BY <1>1, <2>1, DeskTail, WritingHeads
<1>5. x.todo = Tail(t.todo) /\ x.stage = "SELECTED"
  <2>1. x = Rest(t)
      BY <1>1 DEF Continue, Inv
  <2>2. x = [t EXCEPT !.todo = Tail(t.todo)]
      BY <1>4, <2>1 DEF Rest
  <2> QED
      BY <1>3, <2>2 DEF Task
<1>6. Shows(x.stage)'
  <2>1. Stands("SELECTED", rounds'[nrounds'], nrounds')
      BY <1>1, <1>3 DEF Stands
  <2>2. Shows("SELECTED")'
      BY <2>1, ShowsIs
  <2> QED
      BY <1>5, <2>2 DEF Shows
<1>7. \A i \in 1 .. nrounds : (i < nrounds \/ rounds[i].decision # "None") => rounds[i].status = "Completed"
    BY TablesAre
<1>8. StageTables(x)'
    BY <1>1, <1>3, <1>4, <1>5, <1>6, <1>7 DEF StageTables, WritingLists
<1> QED
    BY <1>1, <1>8, StageRest

\* The decision is recorded on the newest round: what it makes of the status and of a hold
\* is up to the statements that follow.
LEMMA DecisionStage ==
    ASSUME Inv, Rungs, \A q \in Requests : Backed(task[q]),
           NEW r \in Requests, NEW t \in Task, task[r] = t, t.todo \in DeskLists, ClaimDecision(r),
           StageTables(t), StageTask(t), NEW x \in Task, task' = [task EXCEPT ![r] = x], Moves(t, x)
    PROVE  StageTables(x)' /\ StageTask(x)'
<1>1. At(r, "decide") /\ Head(t.todo) = "decide" /\ UNCHANGED <<nrounds, hiring, stage>>
    BY DEF ClaimDecision, At
<1>2. t.todo \in DecideLists /\ Agrees(t)
    BY <1>1, DeskList, ListOf DEF Inv, TasksAgree
<1>3. CASE Target(r).decision \notin {"None", "Hold"}
  <2>1. Abort(r) /\ UNCHANGED rounds
      BY <1>3 DEF ClaimDecision
  <2>2. x = Resting
      BY <2>1 DEF Abort, Inv
  <2>3. KeepsRows /\ x.todo = <<>>
      BY <1>1, <2>1, <2>2, RestingType DEF KeepsRows
  <2> QED
      BY <1>1, <2>3, StageQuiet
<1>4. CASE Target(r).decision \in {"None", "Hold"}
  <2>1. PICK k : k = nrounds
      OBVIOUS
  <2>2. /\ t.round = k /\ k \in 1 .. nrounds /\ k \in Ids /\ rounds[k] \in Round
        /\ rounds[k].decision \in {"None", "Hold"}
      BY <1>4, <2>1, ClaimsNewest DEF Claims
  <2>3. PICK row : row = [Target(r) EXCEPT !.decision = task[r].decision, !.mailed = "None",
                                           !.result = ResultFor(task[r].decision)]
      OBVIOUS
  <2>4. SetRound(r, row) /\ Continue(r)
      BY <1>4, <2>3 DEF ClaimDecision
  <2>5. rounds'[k] = row /\ \A i \in Ids : i # k => rounds'[i] = rounds[i]
      BY <1>1, <2>2, <2>4, Rewritten
  <2>6. row.decision = t.decision /\ row.number = rounds[k].number /\ row.status = "Completed"
      BY <1>2, <2>2, <2>3 DEF Round, Target, StageTask
  <2>7. Tail(t.todo) # <<>>
    <3>1. <<>> \notin NextLists \union HoldLists \union HireLists \union {<<"stage">>, <<"stage", "mail">>}
        BY DEF NextLists, HoldLists, HireLists
    <3> QED
        BY <1>1, <3>1, DeskTail
  <2>8. x.todo = Tail(t.todo) /\ x.stage = t.stage /\ x.decision = t.decision /\ x.round = k
    <3>1. x = Rest(t)
        BY <2>4 DEF Continue, Inv
    <3>2. x = [t EXCEPT !.todo = Tail(t.todo)]
        BY <2>7, <3>1 DEF Rest
    <3> QED
        BY <2>2, <3>2 DEF Task
  \* Before: an answer was awaited, or a hold taken, after the interview.
  <2>9. t.todo \notin WritingLists \union LiftingLists \union NextLists \union HireLists
      BY <1>1, FreeHead
  <2>10. ~hiring.selected /\ (hiring.onHold => rounds[k].decision = "Hold")
      BY <2>1, <2>2, <2>9, TablesAre
  <2>11. stage = "INTERVIEW_ATTENDED"
    <3>1. Stands(stage, rounds[k], k)
        BY <2>1, <2>9, TablesAre, ShowsIs
    <3>2. rounds[k].status = "Completed"
        BY <1>2, <2>2 DEF StageTask
    <3> QED
        BY <2>2, <3>1, <3>2 DEF Stands
  <2>12. \A i \in 1 .. nrounds : (i < nrounds \/ rounds'[i].decision # "None") => rounds'[i].status = "Completed"
    <3>1. ASSUME NEW i \in 1 .. nrounds, i < nrounds \/ rounds'[i].decision # "None"
          PROVE  rounds'[i].status = "Completed"
      <4>1. CASE i = k
          BY <2>5, <2>6, <4>1
      <4>2. CASE i # k
          BY <2>5, <3>1, <4>2, Counts DEF StageTables
      <4> QED
          BY <4>1, <4>2
    <3> QED
        BY <3>1
  <2>13. x.todo \notin {ClaimList, ReleaseList, CompleteList} \union DecideLists
    <3>1. Head(x.todo) \in {"next", "hold", "hire", "stage"}
      <4>1. Head(<<"stage">>) = "stage" /\ Head(<<"stage", "mail">>) = "stage"
          OBVIOUS
      <4>2. x.todo \in NextLists \union HoldLists \union HireLists \/ x.todo \in {<<"stage">>, <<"stage", "mail">>}
          BY <1>1, <2>8, DeskTail
      <4>3. x.todo \in {<<"stage">>, <<"stage", "mail">>} => Head(x.todo) = "stage"
          BY <4>1
      <4> QED
          BY <4>2, <4>3, HeadsAre
    <3> QED
        BY <3>1, HeadsAre DEF ClaimList, ReleaseList, CompleteList
  <2>14. t.decision \in Decisions
      BY <1>2 DEF Agrees
  <2>15. CASE t.decision \in {"NextRound", "FinalRound"}
    <3>1. x.todo \in NextLists /\ (hiring.onHold => x.todo \in NextLiftLists)
        BY <1>2, <2>8, <2>15 DEF Agrees, StageTask
    <3>2. x.todo \notin HireLists \union HoldLists \union WritingLists
        BY <3>1, HeadsAre, WritingHeads
    <3>3. StageTables(x)'
        BY <1>1, <2>1, <2>5, <2>6, <2>10, <2>12, <2>15, <3>1, <3>2 DEF StageTables, WritingLists
    <3>4. (x.stage = NextStage(x))'
      <4>1. t.stage = StageFor(NewRound(rounds[k].number + 1, t.decision = "FinalRound"))
          BY <1>2, <2>2, <2>15 DEF StageTask, NextStage
      <4>2. rounds'[x.round].number = rounds[k].number
          BY <2>5, <2>6, <2>8
      <4> QED
          BY <2>8, <4>1, <4>2 DEF NextStage
    <3>5. StageTask(x)'
        BY <2>13, <3>2, <3>4 DEF StageTask
    <3> QED
        BY <3>3, <3>5
  <2>16. CASE t.decision = "Hold"
    <3>1. x.todo \in HoldLists
        BY <1>2, <2>8, <2>16 DEF Agrees
    <3>2. x.todo \notin WritingLists \union LiftingLists \union NextLists \union HireLists
        BY <3>1, HeadsAre, FreeHead
    <3>3. Shows(stage)'
      <4>1. PICK st : st = stage
          OBVIOUS
      <4>2. Stands(st, row, k)
          BY <2>6, <2>11, <2>16, <4>1 DEF Stands
      <4>3. Shows(st)'
          BY <1>1, <2>1, <2>5, <4>2, ShowsIs
      <4> QED
          BY <1>1, <4>1, <4>3 DEF Shows
    <3>4. StageTables(x)'
        BY <1>1, <2>1, <2>5, <2>6, <2>10, <2>12, <2>16, <3>2, <3>3 DEF StageTables, WritingLists
    <3>5. StageTask(x)'
        BY <1>1, <2>1, <2>5, <2>6, <2>13, <2>16, <3>2 DEF StageTask
    <3> QED
        BY <3>4, <3>5
  <2>17. CASE t.decision = "Rejected"
    <3>1. x.todo \in {<<"stage">>, <<"stage", "mail">>} /\ x.stage = "REJECTED"
        BY <1>1, <1>2, <2>8, <2>17, DeskTail DEF Agrees, StageTask
    <3>2. x.todo \in WritingLists /\ Head(x.todo) = "stage"
        BY <3>1, HeadsAre DEF WritingLists, StageLists
    <3>3. x.todo \notin NextLists \union HireLists \union HoldLists
        BY <3>2, HeadsAre
    <3>4. Shows(x.stage)'
      <4>1. Stands("REJECTED", row, k)
          BY <2>6, <2>17 DEF Stands
      <4>2. Shows("REJECTED")'
          BY <1>1, <2>1, <2>5, <4>1, ShowsIs
      <4> QED
          BY <3>1, <4>2 DEF Shows
    <3>5. StageTables(x)'
        BY <1>1, <2>1, <2>5, <2>6, <2>10, <2>12, <2>17, <3>2, <3>4 DEF StageTables, WritingLists
    <3>6. StageTask(x)'
        BY <2>13, <3>3 DEF StageTask
    <3> QED
        BY <3>5, <3>6
  <2>18. CASE t.decision = "Selected"
    <3>1. x.todo \in HireLists /\ x.stage = "SELECTED"
        BY <1>2, <2>8, <2>18 DEF Agrees, StageTask
    <3>2. x.todo \notin NextLists \union HoldLists \union WritingLists
        BY <3>1, HeadsAre, WritingHeads
    <3>3. StageTables(x)'
        BY <1>1, <2>1, <2>5, <2>6, <2>10, <2>12, <2>18, <3>1, <3>2 DEF StageTables, WritingLists
    <3>4. StageTask(x)'
        BY <2>13, <3>1, <3>2 DEF StageTask
    <3> QED
        BY <3>3, <3>4
  <2> QED
      BY <2>14, <2>15, <2>16, <2>17, <2>18 DEF Decisions
<1> QED
    BY <1>3, <1>4

\* The next round exists; its status is still to be written.
LEMMA OpenNextStage ==
    ASSUME Inv, NEW r \in Requests, NEW t \in Task, task[r] = t, t.todo \in DeskLists, OpenNextRound(r), Backed(t),
           StageTables(t), StageTask(t), NEW x \in Task, task' = [task EXCEPT ![r] = x], Moves(t, x)
    PROVE  StageTables(x)' /\ StageTask(x)'
<1>1. /\ Head(t.todo) = "next" /\ UNCHANGED <<hiring, stage>> /\ nrounds' = nrounds + 1 /\ nrounds < MaxRounds
      /\ rounds' = [rounds EXCEPT ![nrounds + 1] = NewRound(Target(r).number + 1, task[r].decision = "FinalRound")]
      /\ task' = [task EXCEPT ![r] = [task[r] EXCEPT !.todo = Tail(@)]]
    BY DEF OpenNextRound, OpenRound, At
<1>2. t.todo \in NextLists /\ Agrees(t)
    BY <1>1, DeskList, ListOf DEF Inv, TasksAgree
<1>3. t.round = nrounds /\ rounds[nrounds].decision \in {"NextRound", "FinalRound"} /\ t.stage = NextStage(t)
    BY <1>2 DEF Backed, Agrees, StageTask
<1>4. PICK row : row = NewRound(rounds[nrounds].number + 1, t.decision = "FinalRound")
    OBVIOUS
<1>5. row.status = "Pending" /\ row.decision = "None" /\ t.stage = StageFor(row)
    BY <1>3, <1>4 DEF NewRound, NextStage
<1>6. PICK k : k = nrounds + 1
    OBVIOUS
<1>7. k \in Ids /\ k # 1 /\ k = nrounds'
    BY <1>1, <1>6, Counts DEF Ids
<1>8. rounds'[k] = row /\ \A i \in 1 .. nrounds : rounds'[i] = rounds[i]
  <2>1. rounds' = [rounds EXCEPT ![k] = row]
      BY <1>1, <1>3, <1>4, <1>6 DEF Target
  <2>2. \A i \in 1 .. nrounds : i # k /\ i \in Ids
      BY <1>6, Counts
  <2> QED
      BY <1>7, <2>1, <2>2 DEF Inv, DataOK
<1>9. x = [t EXCEPT !.todo = Tail(t.todo)]
    BY <1>1 DEF Inv
<1>10. x.todo = Tail(t.todo) /\ x.stage = t.stage
    BY <1>9 DEF Task
<1>11. x.todo \in StageLists /\ x.todo \in WritingLists
    BY <1>1, <1>10, DeskTail DEF WritingLists
<1>12. x.todo \notin HireLists
    BY <1>11, HeadsAre
<1>13. hiring.onHold => x.todo \in StageLiftLists
  <2>1. hiring.onHold => t.todo \in LiftingLists
      BY <1>3, TablesAre
  <2>2. t.todo \in LiftingLists => t.todo \in NextLiftLists
    <3>1. \A m \in StageLiftLists : Head(m) = "stage"
        BY DEF StageLiftLists
    <3> QED
        BY <1>1, <3>1, HeadsAre DEF LiftingLists
  <2> QED
      BY <1>10, <2>1, <2>2, DeskTail
<1>14. ~hiring.selected
    BY <1>3, TablesAre
<1>15. Shows(x.stage)'
  <2>1. PICK st : st = t.stage
      OBVIOUS
  <2>2. Stands(st, row, k)
      BY <1>5, <1>7, <2>1 DEF Stands
  <2>3. Shows(st)'
      BY <1>7, <1>8, <2>2, ShowsIs
  <2> QED
      BY <1>10, <2>1, <2>3 DEF Shows
<1>16. \A i \in 1 .. nrounds' : (i < nrounds' \/ rounds'[i].decision # "None") => rounds'[i].status = "Completed"
  <2>1. ASSUME NEW i \in 1 .. k, i < k \/ rounds'[i].decision # "None" PROVE rounds'[i].status = "Completed"
    <3>1. CASE i = k
        BY <1>5, <1>8, <2>1, <3>1, Counts, <1>6
    <3>2. CASE i # k
      <4>1. i \in 1 .. nrounds /\ (i < nrounds \/ i = nrounds)
          BY <1>6, <3>2, Counts
      <4> QED
          BY <1>3, <1>8, <4>1 DEF StageTables
    <3> QED
        BY <3>1, <3>2
  <2> QED
      BY <1>7, <2>1
<1>17. StageTables(x)'
    BY <1>1, <1>5, <1>7, <1>8, <1>11, <1>12, <1>13, <1>14, <1>15, <1>16 DEF StageTables, WritingLists
<1> QED
    BY <1>1, <1>17, StageRest

LEMMA StageStep ==
    ASSUME Inv, Rungs, \A q \in Requests : Backed(task[q]), NEW r \in Requests, Step(r),
           NEW t \in Task, task[r] = t, t.todo \in DeskLists, SlotFacts(t), StageTables(t), StageTask(t),
           NEW x \in Task, task' = [task EXCEPT ![r] = x], Moves(t, x)
    PROVE  StageTables(x)' /\ StageTask(x)'
<1>1. CASE ReplaceSlots(r) \/ MarkSlot(r) \/ SendInvites(r) \/ Join(r) \/ Unjoin(r) \/ SendMail(r)
    BY <1>1, QuietRows, StageQuiet
<1>2. Backed(t)
    OBVIOUS
<1>3. CASE ClaimSlot(r) \/ SelectSlot(r) \/ Release(r) \/ Complete(r) \/ Transition(r)
    BY <1>3, ClaimSlotStage, SelectSlotStage, ReleaseStage, TransitionStage
<1>4. CASE LiftHold(r) \/ Hold(r) \/ Hire(r) \/ ClaimDecision(r) \/ OpenNextRound(r)
    BY <1>2, <1>4, HoldStage, HireStage, DecisionStage, OpenNextStage
<1> QED
    BY <1>1, <1>3, <1>4, DeskStep

LEMMA StageInit == Init => StageInv
<1> SUFFICES ASSUME Init PROVE StageTables(Resting) /\ StageTask(Resting)
  <2>1. Init => Current = {Resting}
      BY RestingType DEF Init, Current, Quiet, Idle
  <2> QED
      BY <2>1 DEF StageInv
<1>1. nrounds = 1 /\ rounds[1] = NewRound(1, FALSE) /\ ~hiring.selected /\ ~hiring.onHold
  <2>1. 1 \in Ids
      BY InterviewsAssumption DEF Ids
  <2>2. hiring = [selected |-> FALSE, onHold |-> FALSE] /\ nrounds = 1
      BY DEF Init
  <2>3. rounds = [i \in Ids |-> IF i = 1 THEN NewRound(1, FALSE) ELSE NoRound]
      BY DEF Init
  <2> QED
      BY <2>1, <2>2, <2>3
<1>2. NewRound(1, FALSE).decision = "None" /\ NewRound(1, FALSE).status = "Pending"
    BY DEF NewRound
<1>3. StageFor(NewRound(1, FALSE)) = "INTERVIEW_R1"
    BY DEF NewRound, StageFor, FinalNumber
<1>4. Shows(stage)
  <2>1. stage \in {"SHORTLISTED", "INTERVIEW_R1"}
      BY DEF Init
  <2>2. Stands(stage, NewRound(1, FALSE), 1)
      BY <1>2, <1>3, <2>1 DEF Stands
  <2> QED
      BY <1>1, <2>2, ShowsIs
<1>5. <<>> \notin WritingLists \union LiftingLists \union NextLists \union HireLists
    BY FreeHead
<1>6. StageTables(Resting)
  <2>1. \A i \in 1 .. nrounds : i = 1 /\ ~(i < nrounds)
      BY <1>1
  <2>2. \A i \in 1 .. nrounds : ~(i < nrounds) /\ rounds[i].decision = "None"
      BY Zenon, <1>1, <1>2, <2>1
  <2> QED
      BY <1>1, <1>2, <1>4, <1>5, <2>2, RestingType, TablesAre
<1>7. StageTask(Resting)
  <2>1. <<>> \notin TaskLists
      BY WritingHeads
  <2> QED
      BY <2>1, RestingType DEF StageTask, TaskLists
<1> QED
    BY <1>6, <1>7

\* What the desk's handlers begin with.
LEMMA StageBegins ==
    ASSUME Inv, Rungs, StageTables(Resting), NEW t \in Task,
           \/ BeganPlain(t) \/ BeganMark(t) \/ BeganConfirm(t) \/ BeganRelease(t) \/ BeganComplete(t) \/ BeganMail(t)
           \/ BeganDecide(t)
    PROVE  StageTables(t) /\ StageTask(t)
<1>1. Head(t.todo) \in {"slots", "joined", "unjoined", "markUnavailable", "markAvailable", "claimSlot", "release",
                        "complete", "mail", "decide"}
    BY BeganHeads
<1>2. t.todo \notin WritingLists \union LiftingLists \union NextLists \union HireLists
    BY <1>1, FreeHead
<1>3. Resting.todo \notin WritingLists \union LiftingLists \union NextLists \union HireLists
    BY RestingType, FreeHead
<1>4. StageTables(t)
    BY <1>2, <1>3, TablesAre
<1>5. /\ Head(ClaimList) = "claimSlot" /\ Head(ReleaseList) = "release" /\ Head(CompleteList) = "complete"
      /\ \A l \in DecideLists : Head(l) = "decide"
      /\ \A l \in HoldLists : Head(l) = "hold"
    BY HeadsAre DEF ClaimList, ReleaseList, CompleteList
<1>6. t.todo \notin NextLists \union HireLists \union HoldLists
    BY <1>1, <1>2, <1>5
<1>7. t.todo = ClaimList => BeganConfirm(t)
    BY <1>5, BeganHeads
<1>8. t.todo = ReleaseList => BeganRelease(t)
    BY <1>5, BeganHeads
<1>9. t.todo = CompleteList => BeganComplete(t)
    BY <1>5, BeganHeads
<1>10. t.todo \in DecideLists => BeganDecide(t)
    BY <1>5, BeganHeads
<1>11. StageTask(t)
  <2>1. t.todo \in DecideLists =>
           /\ rounds[t.round].status = "Completed"
           /\ t.decision \in {"NextRound", "FinalRound"} /\ hiring.onHold => Tail(t.todo) \in NextLiftLists
           /\ t.decision \in {"NextRound", "FinalRound"} => t.stage = NextStage(t)
           /\ t.decision = "Selected" => t.stage = "SELECTED"
           /\ t.decision = "Rejected" => t.stage = "REJECTED"
      BY Zenon, <1>10 DEF BeganDecide, NextLiftLists, NextStage
  <2> QED
      BY <1>6, <1>7, <1>8, <1>9, <2>1 DEF StageTask, BeganConfirm, BeganRelease, BeganComplete
<1> QED
    BY <1>4, <1>11

LEMMA StageNext == Inv /\ DeskOnly /\ RunsAlone /\ LadderInv /\ SlotInv /\ StageInv /\ [Next]_vars => StageInv'
<1> SUFFICES ASSUME Inv, DeskOnly, RunsAlone, LadderInv, SlotInv, StageInv, [Next]_vars, alone', desk' # "portal"
             PROVE  \A t \in Current' : StageTables(t)' /\ StageTask(t)'
    BY DEF StageInv
<1>1. ASSUME NEW r \in Requests, Start(r) PROVE \A t \in Current' : StageTables(t)' /\ StageTask(t)'
  <2>1. PICK d, t : BeginAt(r, d, t) /\ t.todo # <<>> /\ Began(d, t) /\ t \in Task
      BY <1>1, StartBegan
  <2>2. alone /\ Current = {Resting} /\ Current' = {t} /\ d # "portal" /\ desk # "portal"
      BY <2>1, CurrentStart DEF BeginAt, Began
  <2>3. UNCHANGED <<rounds, nrounds, hiring, stage>>
      BY <2>1 DEF BeginAt
  <2>4. StageTables(Resting) /\ Rungs
      BY <2>2 DEF StageInv, LadderInv
  <2>5. StageTables(t) /\ StageTask(t)
      BY <2>1, <2>2, <2>4, StageBegins DEF Began
  <2>6. StageTables(t)' /\ StageTask(t)'
      BY <2>3, <2>5 DEF StageTables, StageTask, Shows, NextStage
  <2> QED
      BY <2>2, <2>6
<1>2. ASSUME NEW r \in Requests, Step(r) PROVE \A t \in Current' : StageTables(t)' /\ StageTask(t)'
  <2>1. PICK t : t = task[r]
      OBVIOUS
  <2>2. PICK x \in Task : task' = [task EXCEPT ![r] = x] /\ Moves(t, x)
      BY <1>2, <2>1, StepMoves
  <2>3. alone /\ Current = {t} /\ Current' = {x} /\ desk # "portal" /\ t.todo # <<>>
      BY <1>2, <2>1, <2>2, StepMoves, ListOf, CurrentStep DEF Moves
  <2>4. t \in Task /\ SlotFacts(t) /\ t.todo \in DeskLists
      BY <2>1, <2>3 DEF SlotInv, Inv, DeskOnly
  <2>5. StageTables(t) /\ StageTask(t) /\ Rungs /\ \A q \in Requests : Backed(task[q])
      BY <2>3 DEF StageInv, LadderInv
  <2>6. StageTables(x)' /\ StageTask(x)'
      BY <1>2, <2>1, <2>2, <2>4, <2>5, StageStep
  <2> QED
      BY <2>3, <2>6
<1>3. CASE Tick \/ UNCHANGED vars
  <2>1. UNCHANGED <<rounds, nrounds, hiring, stage, task, alone, desk>>
      BY <1>3 DEF Tick, vars
  <2>2. ASSUME NEW t, StageTables(t), StageTask(t) PROVE StageTables(t)' /\ StageTask(t)'
      BY <2>1, <2>2 DEF StageTables, StageTask, Shows, NextStage
  <2>3. Current' = Current /\ \A t \in Current : StageTables(t) /\ StageTask(t)
      BY <2>1, CurrentStays DEF StageInv
  <2> QED
      BY <2>2, <2>3
<1>4. CASE Restart
    BY <1>4 DEF Restart
<1> QED
    BY <1>1, <1>2, <1>3, <1>4 DEF Next

\* While handlers run one at a time and the portal does not answer, the status that every
\* screen shows is the one the newest round stands for, whatever was confirmed, missed,
\* held, cleared, rejected or selected before, and a hold does not outlive a selection or a
\* cleared round (StageTables, StageTask).
THEOREM StatusesAgree == Spec => []StageAgrees
<1>1. Inv /\ StageInv => StageAgrees
  <2> SUFFICES ASSUME StageInv, alone, Quiet, desk # "portal"
               PROVE  /\ hiring.onHold => rounds[nrounds].decision \in {"Hold", "Rejected"}
                      /\ hiring.selected <=> rounds[nrounds].decision = "Selected"
                      /\ Shows(stage)
      BY DEF StageAgrees
  <2>1. StageTables(Resting)
      BY DEF StageInv, Current
  <2>2. Resting.todo \notin WritingLists \union LiftingLists \union NextLists \union HireLists
      BY RestingType, FreeHead
  <2> QED
      BY <2>1, <2>2, TablesAre
<1>2. Inv /\ DeskOnly /\ RunsAlone /\ LadderInv /\ SlotInv /\ StageInv /\ [Next]_vars
          => Inv' /\ DeskOnly' /\ RunsAlone' /\ LadderInv' /\ SlotInv' /\ StageInv'
    BY NextKeepsInv, DeskOnlyNext, AloneNext, LadderNext, SlotNext, StageNext
<1>3. Init => Inv /\ DeskOnly /\ RunsAlone /\ LadderInv /\ SlotInv /\ StageInv
    BY InitInv, DeskOnlyInit, AloneInit, LadderInit, SlotInit, StageInit
<1> QED
    BY <1>1, <1>2, <1>3, PTL DEF Spec
=============================================================================
