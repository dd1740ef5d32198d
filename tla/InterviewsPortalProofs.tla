----------------------- MODULE InterviewsPortalProofs -----------------------
(***************************************************************************)
(* The interviews while the company answers in its portal and Q3 only      *)
(* schedules, handlers running one at a time: the status agrees with the   *)
(* newest round's result whenever nothing runs. As in InterviewsSerial-    *)
(* Proofs, what holds in between is stated of the tables and of the task   *)
(* that is being executed.                                                 *)
(***************************************************************************)
EXTENDS InterviewsSerialProofs

\* Lists that are executed until Q3 has answered.
UnansweredLists == OneLists \union BookLists \union PortalLists \union {<<"stage">>, <<"mail">>}
PortalOnly == desk # "q3" => \A r \in Requests : task[r].todo \in UnansweredLists \union {<<>>}

UndoList == <<"stage", "find", "reopen">>
CreateList == <<"nextRound", "offer", "stage">>
LookLists == {<<"look", "result", "stage">>, <<"look", "result", "nextRound", "offer", "stage">>}
OfferLists == {<<"clear", "offer", "unschedule">>, <<"offer", "unschedule">>, <<"unschedule">>}
\* The round is written, the status is to follow; the status is taken back, the round is to follow.
Settling == {<<"stage">>, <<"stage", "invite">>, SelectList, <<"offer", "stage">>}
Reopening == {<<"find", "reopen">>, <<"reopen">>}

RoundStages == {"INTERVIEW_R1", "INTERVIEW_R2", "INTERVIEW_R3", "FINAL_ROUND"}

\* A status and what undo would return to, beside the newest round.
FitsRow(st, back, row) ==
    /\ st = "REJECTED" <=> row.result = "Failed"
    /\ st = "SELECTED" <=> row.result = "Passed"
    /\ st = "ON_HOLD" => row.result = "Hold"
    /\ (st \notin {"REJECTED", "SELECTED"} /\ row.status = "Completed") => st = "INTERVIEW_ATTENDED"
    /\ row.status = "Scheduled" => back \in FromInterview
    /\ st = "REJECTED" => back \in FromInterview
    /\ st = "SHORTLISTED" => back = "SENT_TO_COMPANY"
    /\ st \notin Marks => back = st
Fits(st, back) == FitsRow(st, back, rounds[nrounds])
BackFrom(st) == IF st \in Marks THEN logged ELSE st

\* Every round but the newest was passed.
RowsFit ==
    /\ \A i, j \in 1 .. nrounds : i < j => rounds[i].number < rounds[j].number
    /\ \A i \in 1 .. nrounds : i < nrounds => rounds[i].status = "Completed" /\ rounds[i].result = "Passed"
    /\ rounds[nrounds].result \in {"Failed", "Passed"} => rounds[nrounds].status = "Completed"

PortalTables(t) ==
    /\ RowsFit
    /\ IF t.todo \in Settling THEN Fits(t.stage, BackFrom(t.stage))
       ELSE t.todo \in Reopening \union {CreateList} \/ Fits(stage, logged)
\* What the task of the running handler relies on.
PortalTask(t) ==
    /\ t.todo \in {ClaimList, SelectList} => slots[t.slot].round = t.round
    /\ t.todo = ClaimList => rounds[t.round].status \in Schedulable /\ t.stage \in RoundStages
    /\ t.todo = ReleaseList => /\ rounds[t.round].status = "Scheduled"
                               /\ t.stage \in {"INTERVIEW_NOT_ATTENDED", "RESCHEDULE_REQUESTED"}
    /\ t.todo = CompleteList => rounds[t.round].status = "Scheduled" /\ t.stage = "INTERVIEW_ATTENDED"
    /\ t.todo \in OfferLists => rounds[t.round].status # "Completed"
    /\ t.todo \in LookLists \union ResultLists =>
           /\ t.round = nrounds /\ rounds[nrounds].status = "Scheduled"
           /\ t.result \in {"Passed", "Failed", "Hold"}
           /\ t.result = "Failed" => t.stage = "REJECTED"
           /\ t.result = "Hold" => t.stage = "ON_HOLD"
           /\ (t.result = "Passed" /\ t.todo \notin NextRoundLists) => t.stage = "SELECTED"
    /\ t.todo \in ResultLists => t.was = "Scheduled"
    /\ t.todo \in NextRoundLists =>
           /\ t.round = nrounds /\ t.number > rounds[nrounds].number
           /\ t.result = "Passed" /\ t.stage \in RoundStages
    /\ t.todo = CreateList => rounds[nrounds].status = "Completed" /\ rounds[nrounds].result = "Passed"
    /\ t.todo = UndoList => t.stage = logged /\ stage = "REJECTED"
    /\ t.todo \in Reopening =>
           /\ t.stage = stage /\ stage = logged /\ stage \in FromInterview
           /\ rounds[nrounds].result = "Failed"
    /\ t.todo = <<"reopen">> => t.round = nrounds
PortalInv == (alone /\ desk # "q3") => \A t \in Current : PortalTables(t) /\ PortalTask(t)

-----------------------------------------------------------------------------
(* Lists until Q3 answers.                                                 *)

LEMMA PortalHeads ==
    /\ \A l \in Settling : l # <<>> /\ Head(l) \in {"stage", "select", "offer"}
    /\ \A l \in Reopening : l # <<>> /\ Head(l) \in {"find", "reopen"}
    /\ \A l \in LookLists : l # <<>> /\ Head(l) = "look"
    /\ \A l \in ResultLists : l # <<>> /\ Head(l) = "result"
    /\ \A l \in NextRoundLists : l # <<>> /\ Head(l) \in {"look", "result", "nextRound"}
    /\ \A l \in OfferLists : l # <<>> /\ Head(l) \in {"clear", "offer", "unschedule"}
    /\ ClaimList # <<>> /\ Head(ClaimList) = "claimSlot" /\ SelectList # <<>> /\ Head(SelectList) = "select"
    /\ ReleaseList # <<>> /\ Head(ReleaseList) = "release" /\ CompleteList # <<>> /\ Head(CompleteList) = "complete"
    /\ CreateList # <<>> /\ Head(CreateList) = "nextRound" /\ UndoList # <<>> /\ Head(UndoList) = "stage"
    /\ UndoList \notin Settling /\ <<"offer", "unschedule">> \notin Settling /\ <<"offer", "stage">> \notin OfferLists
    /\ <<"result", "stage">> \notin NextRoundLists /\ <<"look", "result", "stage">> \notin NextRoundLists
<1>1. \A l \in Settling : l # <<>> /\ Head(l) \in {"stage", "select", "offer"}
    BY DEF Settling, SelectList
<1>2. \A l \in Reopening : l # <<>> /\ Head(l) \in {"find", "reopen"}
    BY DEF Reopening
<1>3. \A l \in LookLists : l # <<>> /\ Head(l) = "look"
    BY DEF LookLists
<1>4. \A l \in ResultLists : l # <<>> /\ Head(l) = "result"
    BY DEF ResultLists
<1>5. \A l \in NextRoundLists : l # <<>> /\ Head(l) \in {"look", "result", "nextRound"}
    BY DEF NextRoundLists
<1>6. \A l \in OfferLists : l # <<>> /\ Head(l) \in {"clear", "offer", "unschedule"}
    BY DEF OfferLists
<1>7. /\ ClaimList # <<>> /\ Head(ClaimList) = "claimSlot" /\ SelectList # <<>> /\ Head(SelectList) = "select"
      /\ ReleaseList # <<>> /\ Head(ReleaseList) = "release" /\ CompleteList # <<>> /\ Head(CompleteList) = "complete"
    BY DEF ClaimList, SelectList, ReleaseList, CompleteList
<1>8. CreateList # <<>> /\ Head(CreateList) = "nextRound" /\ UndoList # <<>> /\ Head(UndoList) = "stage"
    BY DEF CreateList, UndoList
<1>9. UndoList \notin Settling /\ <<"offer", "unschedule">> \notin Settling
    BY DEF UndoList, Settling, SelectList
<1>10. <<"offer", "stage">> \notin OfferLists
    BY DEF OfferLists
<1>11. <<"result", "stage">> \notin NextRoundLists /\ <<"look", "result", "stage">> \notin NextRoundLists
    BY DEF NextRoundLists
<1> QED
    BY <1>1, <1>2, <1>3, <1>4, <1>5, <1>6, <1>7, <1>8, <1>9, <1>10, <1>11

LEMMA UnansweredList ==
    ASSUME NEW l \in UnansweredLists
    PROVE  /\ l \in Lists /\ l # <<>>
           /\ Head(l) \notin {"decide", "next", "liftHold", "hold", "hire"}
           /\ Head(l) \in {"slots", "markUnavailable", "markAvailable", "joined", "unjoined", "mail", "invite",
                           "unschedule", "reopen"} => Tail(l) = <<>>
           /\ Head(l) = "claimSlot" => l = ClaimList /\ Tail(l) = SelectList
           /\ Head(l) = "select" => l = SelectList /\ Tail(l) = <<"stage", "invite">>
           /\ Head(l) = "release" => l = ReleaseList /\ Tail(l) = <<"stage">>
           /\ Head(l) = "complete" => l = CompleteList /\ Tail(l) = <<"stage">>
           /\ Head(l) = "stage" => \/ l = <<"stage">> /\ Tail(l) = <<>>
                                   \/ l = <<"stage", "invite">> /\ Tail(l) = <<"invite">>
                                   \/ l = UndoList /\ Tail(l) = <<"find", "reopen">>
           /\ Head(l) = "clear" => l \in OfferLists /\ Tail(l) = <<"offer", "unschedule">>
           /\ Head(l) = "offer" => \/ l = <<"offer", "unschedule">> /\ Tail(l) = <<"unschedule">>
                                   \/ l = <<"offer", "stage">> /\ Tail(l) = <<"stage">>
           /\ Head(l) = "unschedule" => l \in OfferLists
           /\ Head(l) = "look" => \/ l = <<"look", "result", "stage">> /\ Tail(l) = <<"result", "stage">>
                                  \/ /\ l = <<"look", "result", "nextRound", "offer", "stage">>
                                     /\ Tail(l) = <<"result", "nextRound", "offer", "stage">>
           /\ Head(l) = "result" => \/ l = <<"result", "stage">> /\ Tail(l) = <<"stage">>
                                    \/ /\ l = <<"result", "nextRound", "offer", "stage">> /\ l \in NextRoundLists
                                       /\ Tail(l) = CreateList
           /\ Head(l) = "nextRound" => l = CreateList /\ Tail(l) = <<"offer", "stage">>
           /\ Head(l) = "find" => l = <<"find", "reopen">> /\ Tail(l) = <<"reopen">>
           /\ Head(l) = "reopen" => l = <<"reopen">>
<1> DEFINE Goal(m) ==
           /\ m # <<>>
           /\ Head(m) \notin {"decide", "next", "liftHold", "hold", "hire"}
           /\ Head(m) \in {"slots", "markUnavailable", "markAvailable", "joined", "unjoined", "mail", "invite",
                           "unschedule", "reopen"} => Tail(m) = <<>>
           /\ Head(m) = "claimSlot" => m = ClaimList /\ Tail(m) = SelectList
           /\ Head(m) = "select" => m = SelectList /\ Tail(m) = <<"stage", "invite">>
           /\ Head(m) = "release" => m = ReleaseList /\ Tail(m) = <<"stage">>
           /\ Head(m) = "complete" => m = CompleteList /\ Tail(m) = <<"stage">>
           /\ Head(m) = "stage" => \/ m = <<"stage">> /\ Tail(m) = <<>>
                                   \/ m = <<"stage", "invite">> /\ Tail(m) = <<"invite">>
                                   \/ m = UndoList /\ Tail(m) = <<"find", "reopen">>
           /\ Head(m) = "clear" => m \in OfferLists /\ Tail(m) = <<"offer", "unschedule">>
           /\ Head(m) = "offer" => \/ m = <<"offer", "unschedule">> /\ Tail(m) = <<"unschedule">>
                                   \/ m = <<"offer", "stage">> /\ Tail(m) = <<"stage">>
           /\ Head(m) = "unschedule" => m \in OfferLists
           /\ Head(m) = "look" => \/ m = <<"look", "result", "stage">> /\ Tail(m) = <<"result", "stage">>
                                  \/ /\ m = <<"look", "result", "nextRound", "offer", "stage">>
                                     /\ Tail(m) = <<"result", "nextRound", "offer", "stage">>
           /\ Head(m) = "result" => \/ m = <<"result", "stage">> /\ Tail(m) = <<"stage">>
                                    \/ /\ m = <<"result", "nextRound", "offer", "stage">> /\ m \in NextRoundLists
                                       /\ Tail(m) = CreateList
           /\ Head(m) = "nextRound" => m = CreateList /\ Tail(m) = <<"offer", "stage">>
           /\ Head(m) = "find" => m = <<"find", "reopen">> /\ Tail(m) = <<"reopen">>
           /\ Head(m) = "reopen" => m = <<"reopen">>
<1>1. l \in OneLists \union {<<"mail">>, <<"invite">>} => Goal(l)
  <2>1. \A m \in OneLists \union {<<"mail">>, <<"invite">>} :
            /\ m # <<>> /\ Tail(m) = <<>>
            /\ Head(m) \in {"slots", "markUnavailable", "markAvailable", "joined", "unjoined", "mail", "invite"}
    <3>1. /\ Tail(<<"slots">>) = <<>> /\ Tail(<<"markUnavailable">>) = <<>> /\ Tail(<<"markAvailable">>) = <<>>
          /\ Tail(<<"joined">>) = <<>> /\ Tail(<<"unjoined">>) = <<>> /\ Tail(<<"mail">>) = <<>>
          /\ Tail(<<"invite">>) = <<>>
        OBVIOUS
    <3>2. /\ Head(<<"slots">>) = "slots" /\ Head(<<"markUnavailable">>) = "markUnavailable"
          /\ Head(<<"markAvailable">>) = "markAvailable" /\ Head(<<"joined">>) = "joined"
          /\ Head(<<"unjoined">>) = "unjoined" /\ Head(<<"mail">>) = "mail" /\ Head(<<"invite">>) = "invite"
        OBVIOUS
    <3>3. \A m \in OneLists \union {<<"mail">>, <<"invite">>} : m # <<>>
        BY DEF OneLists
    <3> QED
        BY <3>1, <3>2, <3>3 DEF OneLists
  <2> QED
      BY <2>1
<1>2. l \in {ClaimList, SelectList, ReleaseList, CompleteList} => Goal(l)
  <2>1. /\ Tail(ClaimList) = SelectList /\ Tail(SelectList) = <<"stage", "invite">>
        /\ Tail(ReleaseList) = <<"stage">> /\ Tail(CompleteList) = <<"stage">>
      BY DEF ClaimList, SelectList, ReleaseList, CompleteList
  <2> QED
      BY <2>1, PortalHeads
<1>3. l \in {<<"stage">>, <<"stage", "invite">>, UndoList} => Goal(l)
  <2>1. Tail(UndoList) = <<"find", "reopen">>
      BY DEF UndoList
  <2>2. /\ Tail(<<"stage">>) = <<>> /\ Tail(<<"stage", "invite">>) = <<"invite">>
        /\ Head(<<"stage">>) = "stage" /\ Head(<<"stage", "invite">>) = "stage"
        /\ <<"stage">> # <<>> /\ <<"stage", "invite">> # <<>>
      OBVIOUS
  <2> QED
      BY <2>1, <2>2, PortalHeads
<1>4. l \in OfferLists \union {<<"offer", "stage">>} => Goal(l)
  <2>1. /\ Tail(<<"clear", "offer", "unschedule">>) = <<"offer", "unschedule">>
        /\ Tail(<<"offer", "unschedule">>) = <<"unschedule">> /\ Tail(<<"unschedule">>) = <<>>
        /\ Tail(<<"offer", "stage">>) = <<"stage">>
      OBVIOUS
  <2>2. /\ Head(<<"clear", "offer", "unschedule">>) = "clear" /\ Head(<<"offer", "unschedule">>) = "offer"
        /\ Head(<<"unschedule">>) = "unschedule" /\ Head(<<"offer", "stage">>) = "offer" /\ <<"offer", "stage">> # <<>>
      OBVIOUS
  <2> QED
      BY <2>1, <2>2, PortalHeads DEF OfferLists
<1>5. l \in LookLists => Goal(l)
  <2>1. /\ Tail(<<"look", "result", "stage">>) = <<"result", "stage">>
        /\ Tail(<<"look", "result", "nextRound", "offer", "stage">>) = <<"result", "nextRound", "offer", "stage">>
      OBVIOUS
  <2> QED
      BY <2>1, PortalHeads DEF LookLists
<1>6. l \in ResultLists => Goal(l)
  <2>1. Tail(<<"result", "stage">>) = <<"stage">>
      OBVIOUS
  <2>2. Tail(<<"result", "nextRound", "offer", "stage">>) = CreateList
      BY DEF CreateList
  <2>3. <<"result", "nextRound", "offer", "stage">> \in NextRoundLists
      BY DEF NextRoundLists
  <2> QED
      BY <2>1, <2>2, <2>3, PortalHeads DEF ResultLists
<1>7. l = CreateList \/ l \in Reopening => Goal(l)
  <2>1. Tail(CreateList) = <<"offer", "stage">>
      BY DEF CreateList
  <2>2. /\ Tail(<<"find", "reopen">>) = <<"reopen">> /\ Tail(<<"reopen">>) = <<>>
        /\ Head(<<"find", "reopen">>) = "find" /\ Head(<<"reopen">>) = "reopen"
      OBVIOUS
  <2> QED
      BY <2>1, <2>2, PortalHeads DEF Reopening
<1>8. \/ l \in OneLists \union {<<"mail">>, <<"invite">>}
      \/ l \in {ClaimList, SelectList, ReleaseList, CompleteList}
      \/ l \in {<<"stage">>, <<"stage", "invite">>, UndoList}
      \/ l \in OfferLists \union {<<"offer", "stage">>}
      \/ l \in LookLists \/ l \in ResultLists \/ l = CreateList \/ l \in Reopening
    BY DEF UnansweredLists, BookLists, PortalLists, ClaimList, SelectList, ReleaseList, CompleteList, UndoList,
           OfferLists, LookLists, ResultLists, CreateList, Reopening
<1>9. l \in Lists
    BY DEF UnansweredLists, Lists, DeskLists, StageLists
<1>10. Goal(l)
    BY <1>1, <1>2, <1>3, <1>4, <1>5, <1>6, <1>7, <1>8
<1> QED
    BY <1>9, <1>10

LEMMA UnansweredTail == ASSUME NEW l \in UnansweredLists PROVE Tail(l) \in UnansweredLists \union {<<>>}
<1>1. /\ <<"stage">> \in UnansweredLists /\ <<"stage", "invite">> \in UnansweredLists /\ <<"invite">> \in UnansweredLists
      /\ SelectList \in UnansweredLists /\ <<"offer", "unschedule">> \in UnansweredLists
      /\ <<"unschedule">> \in UnansweredLists /\ <<"offer", "stage">> \in UnansweredLists
    BY DEF UnansweredLists, BookLists, PortalLists, SelectList
<1>2. /\ <<"result", "stage">> \in UnansweredLists /\ <<"result", "nextRound", "offer", "stage">> \in UnansweredLists
      /\ CreateList \in UnansweredLists /\ <<"find", "reopen">> \in UnansweredLists /\ <<"reopen">> \in UnansweredLists
    BY DEF UnansweredLists, PortalLists, CreateList
<1>3. Head(l) \in Statements
    BY UnansweredList, ListOf
<1> QED
    BY <1>1, <1>2, <1>3, UnansweredList DEF Statements


LEMMA PortalOnlyInit == Init => PortalOnly
BY RestingType DEF Init, PortalOnly

LEMMA PortalOnlyNext == Inv /\ PortalOnly /\ [Next]_vars => PortalOnly'
<1> SUFFICES ASSUME Inv, PortalOnly, [Next]_vars, desk' # "q3"
             PROVE  \A r \in Requests : task'[r].todo \in UnansweredLists \union {<<>>}
    BY DEF PortalOnly
<1>1. ASSUME NEW r \in Requests, Start(r) PROVE \A q \in Requests : task'[q].todo \in UnansweredLists \union {<<>>}
  <2>1. PICK d, t : BeginAt(r, d, t) /\ Began(d, t)
      BY <1>1, StartBegan
  <2>2. task' = [task EXCEPT ![r] = t] /\ d # "q3" /\ desk # "q3"
      BY <2>1 DEF BeginAt, Began
  <2>3. t.todo \in UnansweredLists
    <3>1. BeganPlain(t) \/ BeganMark(t) \/ BeganMail(t) => t.todo \in UnansweredLists
        BY DEF BeganPlain, BeganMark, BeganMail, UnansweredLists, OneLists
    <3>2. BeganConfirm(t) \/ BeganRelease(t) \/ BeganComplete(t) => t.todo \in UnansweredLists
        BY DEF BeganConfirm, BeganRelease, BeganComplete, ClaimList, ReleaseList, CompleteList, UnansweredLists, BookLists
    <3>3. BeganOffer(t) \/ BeganResult(t) \/ BeganUndo(t) => t.todo \in UnansweredLists
        BY DEF BeganOffer, BeganResult, BeganUndo, UnansweredLists, PortalLists
    <3> QED
        BY <2>1, <2>2, <3>1, <3>2, <3>3 DEF Began
  <2> QED
      BY <2>2, <2>3 DEF Inv, PortalOnly
<1>2. ASSUME NEW r \in Requests, Step(r) PROVE \A q \in Requests : task'[q].todo \in UnansweredLists \union {<<>>}
  <2>1. PICK x \in Task : task' = [task EXCEPT ![r] = x] /\ Moves(task[r], x)
      BY <1>2, StepMoves
  <2>2. desk # "q3" /\ task[r].todo # <<>>
      BY <1>2, StepMoves, ListOf
  <2>3. x.todo \in UnansweredLists \union {<<>>}
      BY <2>1, <2>2, UnansweredTail DEF Moves, PortalOnly
  <2> QED
      BY <2>1, <2>2, <2>3 DEF Inv, PortalOnly
<1>3. CASE Tick \/ UNCHANGED vars
    BY <1>3 DEF Tick, vars, PortalOnly
<1>4. CASE Restart
    BY <1>4, RestingType DEF Restart
<1> QED
    BY <1>1, <1>2, <1>3, <1>4 DEF Next

-----------------------------------------------------------------------------
(* What every step needs.                                                  *)

\* A statement that goes on leaves its task as it is.
WentOn(t, x) ==
    /\ x.todo = Tail(t.todo)
    /\ Tail(t.todo) # <<>> => /\ x.round = t.round /\ x.slot = t.slot /\ x.stage = t.stage /\ x.at = t.at
                              /\ x.result = t.result /\ x.number = t.number /\ x.was = t.was

LEMMA GoesOn ==
    ASSUME Inv, NEW r \in Requests, NEW t \in Task, task[r] = t, Continue(r), NEW x, task' = [task EXCEPT ![r] = x]
    PROVE  WentOn(t, x)
<1>1. x = Rest(t)
    BY DEF Continue, Inv
<1>2. CASE Tail(t.todo) = <<>>
    BY <1>1, <1>2, RestingType DEF Rest, WentOn
<1>3. CASE Tail(t.todo) # <<>>
  <2>1. x = [t EXCEPT !.todo = Tail(t.todo)]
      BY <1>1, <1>3 DEF Rest
  <2> QED
      BY <2>1 DEF Task, WentOn
<1> QED
    BY <1>2, <1>3

\* A handler that relies on nothing: at rest, or with a statement to come that always applies.
PlainList(l) ==
    l = <<>> \/ Head(l) \in {"slots", "markUnavailable", "markAvailable", "joined", "unjoined", "mail", "invite"}

LEMMA Plain ==
    ASSUME NEW t, PlainList(t.todo)
    PROVE  PortalTask(t) /\ PortalTask(t)' /\ t.todo \notin Settling \union Reopening \union {CreateList}
<1>1. t.todo \notin Settling \union Reopening \union {CreateList} \union LookLists \union ResultLists \union NextRoundLists
                    \union OfferLists \union {ClaimList, SelectList, ReleaseList, CompleteList, UndoList}
    BY PortalHeads DEF PlainList
<1>2. t.todo # <<"reopen">>
    BY <1>1 DEF Reopening
<1> QED
    BY <1>1, <1>2 DEF PortalTask

\* A list by its first statement settles nothing and relies on nothing of the others.
LEMMA OneKind ==
    ASSUME NEW l, l # <<>>
    PROVE  /\ Head(l) # "claimSlot" => l # ClaimList
           /\ Head(l) # "select" => l # SelectList
           /\ Head(l) # "release" => l # ReleaseList
           /\ Head(l) # "complete" => l # CompleteList
           /\ Head(l) \notin {"stage", "select", "offer"} => l \notin Settling
           /\ Head(l) \notin {"find", "reopen"} => l \notin Reopening
           /\ Head(l) # "reopen" => l # <<"reopen">>
           /\ Head(l) \notin {"clear", "offer", "unschedule"} => l \notin OfferLists
           /\ Head(l) # "look" => l \notin LookLists
           /\ Head(l) # "result" => l \notin ResultLists
           /\ Head(l) \notin {"look", "result", "nextRound"} => l \notin NextRoundLists
           /\ Head(l) # "nextRound" => l # CreateList
           /\ Head(l) # "stage" => l # UndoList
<1>1. Head(<<"reopen">>) = "reopen"
    OBVIOUS
<1> QED
    BY <1>1, PortalHeads

\* A round that is not completed is the newest and has no final answer.
LEMMA UnansweredIsNewest ==
    ASSUME Inv, RowsFit, NEW i \in 1 .. nrounds, rounds[i].status # "Completed"
    PROVE  i = nrounds /\ rounds[nrounds].result \notin {"Passed", "Failed"}
BY Counts DEF RowsFit

\* Steps that keep what the status stands for.
KeepsResults ==
    /\ nrounds' = nrounds
    /\ \A i \in 1 .. nrounds : /\ rounds'[i].status = rounds[i].status /\ rounds'[i].result = rounds[i].result
                               /\ rounds'[i].number = rounds[i].number

LEMMA RowsKept ==
    ASSUME Inv, KeepsResults
    PROVE  /\ RowsFit => RowsFit'
           /\ \A st, back : Fits(st, back) => Fits(st, back)'
<1>1. nrounds \in 1 .. nrounds
    BY Counts
<1>2. RowsFit => RowsFit'
    BY <1>1 DEF RowsFit, KeepsResults
<1>3. ASSUME NEW st, NEW back, Fits(st, back) PROVE Fits(st, back)'
  <2>1. PICK row, new : row = rounds[nrounds] /\ new = rounds'[nrounds']
      OBVIOUS
  <2>2. new.status = row.status /\ new.result = row.result
      BY <1>1, <2>1 DEF KeepsResults
  <2>3. FitsRow(st, back, new)
      BY <1>3, <2>1, <2>2 DEF Fits, FitsRow
  <2> QED
      BY <2>1, <2>3 DEF Fits
<1> QED
    BY <1>2, <1>3

\* A handler rewrites the newest round.
LEMMA NewestWritten ==
    ASSUME Inv, RowsFit, NEW r \in Requests, NEW s, At(r, s), s \notin {"stage", "find"}, task[r].round = nrounds,
           NEW row, SetRound(r, row), nrounds' = nrounds, row.number = rounds[nrounds].number,
           row.result \in {"Failed", "Passed"} => row.status = "Completed"
    PROVE  RowsFit' /\ rounds'[nrounds'] = row
<1>1. rounds'[nrounds] = row /\ \A i \in Ids : i # nrounds => rounds'[i] = rounds[i]
    BY Rewritten
<1>2. \A i \in 1 .. nrounds : i < nrounds => rounds'[i] = rounds[i]
    BY <1>1, Counts
<1>3. \A i \in 1 .. nrounds : rounds'[i].number = rounds[i].number
    BY <1>1, Counts
<1> QED
    BY <1>1, <1>2, <1>3 DEF RowsFit

-----------------------------------------------------------------------------
(* The statements.                                                         *)

LEMMA ResultsKept ==
    ASSUME Inv, NEW r \in Requests,
           \/ ReplaceSlots(r) \/ MarkSlot(r) \/ SendInvites(r) \/ Join(r) \/ Unjoin(r) \/ SendMail(r)
           \/ ClearSlots(r) \/ OfferSlots(r) \/ SelectSlot(r) \/ LookAtRound(r) \/ FindFailed(r)
    PROVE  KeepsResults /\ UNCHANGED <<stage, logged>>
<1>1. CASE ReplaceSlots(r) \/ MarkSlot(r) \/ ClearSlots(r) \/ OfferSlots(r) \/ SelectSlot(r) \/ LookAtRound(r)
           \/ FindFailed(r)
    BY <1>1 DEF ReplaceSlots, MarkSlot, ClearSlots, OfferSlots, SelectSlot, LookAtRound, FindFailed, PutSlots, KeepsResults
<1>2. ASSUME NEW s, s \in {"invite", "joined", "unjoined", "mail"}, NEW row, Overwrite(r, s, row),
             row.result = Target(r).result, row.status = Target(r).status, row.number = Target(r).number
      PROVE  KeepsResults /\ UNCHANGED <<stage, logged>>
  <2>1. At(r, s) /\ SetRound(r, row) /\ UNCHANGED <<nrounds, stage, logged>>
      BY <1>2 DEF Overwrite
  <2>2. rounds'[task[r].round] = row /\ \A i \in Ids : i # task[r].round => rounds'[i] = rounds[i]
      BY <1>2, <2>1, Rewritten
  <2> QED
      BY <1>2, <2>1, <2>2, Counts DEF KeepsResults, Target
<1>3. ASSUME NEW s, s \in {"invite", "joined", "unjoined", "mail"}, At(r, s) PROVE Target(r) \in Round
    BY <1>3, RunningRound DEF Target
<1>4. CASE SendInvites(r)
  <2>1. PICK row : row = [Target(r) EXCEPT !.invites = @ + 1]
      OBVIOUS
  <2>2. Overwrite(r, "invite", row) /\ Target(r) \in Round
      BY <1>3, <1>4, <2>1 DEF SendInvites, Overwrite
  <2> QED
      BY <1>2, <2>1, <2>2 DEF Round
<1>5. CASE Join(r)
  <2>1. PICK row : row = [Target(r) EXCEPT !.joined = TRUE]
      OBVIOUS
  <2>2. Overwrite(r, "joined", row) /\ Target(r) \in Round
      BY <1>3, <1>5, <2>1 DEF Join, Overwrite
  <2> QED
      BY <1>2, <2>1, <2>2 DEF Round
<1>6. CASE Unjoin(r)
  <2>1. PICK row : row = [Target(r) EXCEPT !.joined = FALSE]
      OBVIOUS
  <2>2. Overwrite(r, "unjoined", row) /\ Target(r) \in Round
      BY <1>3, <1>6, <2>1 DEF Unjoin, Overwrite
  <2> QED
      BY <1>2, <2>1, <2>2 DEF Round
<1>7. CASE SendMail(r)
  <2>1. PICK row : row = [Target(r) EXCEPT !.mailed = task[r].decision]
      OBVIOUS
  <2>2. Overwrite(r, "mail", row) /\ Target(r) \in Round
      BY <1>3, <1>7, <2>1 DEF SendMail, Overwrite
  <2> QED
      BY <1>2, <2>1, <2>2 DEF Round
<1> QED
    BY <1>1, <1>4, <1>5, <1>6, <1>7

\* Statements without consequences.
LEMMA PlainStep ==
    ASSUME Inv, NEW r \in Requests, NEW t \in Task, task[r] = t, t.todo \in UnansweredLists,
           ReplaceSlots(r) \/ MarkSlot(r) \/ SendInvites(r) \/ Join(r) \/ Unjoin(r) \/ SendMail(r),
           PortalTables(t), NEW x, task' = [task EXCEPT ![r] = x]
    PROVE  PortalTables(x)' /\ PortalTask(x)'
<1>1. /\ Head(t.todo) \in {"slots", "markUnavailable", "markAvailable", "joined", "unjoined", "mail", "invite"}
      /\ Continue(r)
    BY DEF ReplaceSlots, MarkSlot, PutSlots, SendInvites, Join, Unjoin, SendMail, Overwrite, At
<1>2. x.todo = <<>>
  <2>1. WentOn(t, x)
      BY <1>1, GoesOn
  <2> QED
      BY <1>1, <2>1, UnansweredList DEF WentOn
<1>3. PlainList(t.todo) /\ PlainList(x.todo)
    BY <1>1, <1>2 DEF PlainList
<1>4. RowsFit /\ Fits(stage, logged)
    BY <1>3, Plain DEF PortalTables
<1>5. PICK st, back : st = stage /\ back = logged
    OBVIOUS
<1>6. RowsFit' /\ Fits(st, back)' /\ stage' = st /\ logged' = back
    BY <1>4, <1>5, ResultsKept, RowsKept
<1> QED
    BY <1>3, <1>6, Plain DEF PortalTables, Fits

\* The portal's new slots, for a round it keeps or one it has just opened.
LEMMA OfferStep ==
    ASSUME Inv, NEW r \in Requests, NEW t \in Task, task[r] = t, t.todo \in UnansweredLists, ClearSlots(r) \/ OfferSlots(r),
           PortalTables(t), PortalTask(t), NEW x, task' = [task EXCEPT ![r] = x]
    PROVE  PortalTables(x)' /\ PortalTask(x)'
<1>1. /\ Head(t.todo) \in {"clear", "offer"} /\ Continue(r) /\ (At(r, "clear") \/ At(r, "offer"))
    BY DEF ClearSlots, OfferSlots, PutSlots, At
<1>2. KeepsResults /\ UNCHANGED <<stage, logged>>
    BY ResultsKept
<1>3. t.round \in 1 .. nrounds
    BY <1>1, RunningRound
<1>4. CASE t.todo = <<"offer", "stage">>
  <2>1. Tail(t.todo) = <<"stage">> /\ <<"stage">> # <<>> /\ Head(<<"stage">>) = "stage"
      BY <1>4
  <2>2. x.todo = <<"stage">> /\ x.stage = t.stage
    <3>1. WentOn(t, x)
        BY <1>1, GoesOn
    <3> QED
        BY <2>1, <3>1 DEF WentOn
  <2>3. t.todo \in Settling /\ x.todo \in Settling
      BY <1>4, <2>2 DEF Settling
  <2>4. PICK st, back : st = t.stage /\ back = BackFrom(t.stage)
      OBVIOUS
  <2>5. RowsFit' /\ Fits(st, back)'
      BY <1>2, <2>3, <2>4, RowsKept DEF PortalTables
  <2>6. (BackFrom(x.stage))' = back
      BY <1>2, <2>2, <2>4 DEF BackFrom
  <2>7. PortalTables(x)'
      BY <2>2, <2>3, <2>4, <2>5, <2>6 DEF PortalTables, Fits
  <2>8. PortalTask(x)'
    <3>1. <<"stage">> # UndoList
        BY PortalHeads, <2>2, <2>3
    <3> QED
        BY <2>1, <2>2, <3>1, OneKind DEF PortalTask
  <2> QED
      BY <2>7, <2>8
<1>5. CASE t.todo # <<"offer", "stage">>
  <2>1. /\ t.todo \in {<<"clear", "offer", "unschedule">>, <<"offer", "unschedule">>}
        /\ Tail(t.todo) \in {<<"offer", "unschedule">>, <<"unschedule">>}
    <3>1. Head(t.todo) = "clear" => t.todo = <<"clear", "offer", "unschedule">>
        BY UnansweredList, ListOf
    <3> QED
        BY <1>1, <1>5, <3>1, UnansweredList
  <2>2. /\ <<"offer", "unschedule">> # <<>> /\ <<"unschedule">> # <<>>
        /\ Head(<<"offer", "unschedule">>) = "offer" /\ Head(<<"unschedule">>) = "unschedule"
      OBVIOUS
  <2>3. x.todo \in {<<"offer", "unschedule">>, <<"unschedule">>} /\ x.round = t.round
    <3>1. WentOn(t, x)
        BY <1>1, GoesOn
    <3> QED
        BY <2>1, <2>2, <3>1 DEF WentOn
  <2>4. t.todo \in OfferLists /\ t.todo # <<>> /\ x.todo # <<>>
      BY <2>1, <2>2, <2>3, PortalHeads DEF OfferLists
  <2>5. t.todo \notin Settling \union Reopening \union {CreateList}
      BY <1>1, <2>1, <2>4, OneKind, PortalHeads
  <2>6. Head(x.todo) \in {"offer", "unschedule"} /\ x.todo \notin Settling
      BY <2>2, <2>3, <2>4, OneKind, PortalHeads
  <2>7. PICK st, back : st = stage /\ back = logged
      OBVIOUS
  <2>8. RowsFit' /\ Fits(st, back)' /\ stage' = st /\ logged' = back
      BY <1>2, <2>5, <2>7, RowsKept DEF PortalTables
  <2>9. PortalTables(x)'
      BY <2>6, <2>8 DEF PortalTables, Fits
  <2>10. rounds'[x.round].status # "Completed"
      BY <1>2, <1>3, <2>3, <2>4 DEF PortalTask, KeepsResults
  <2>11. PortalTask(x)'
      BY <2>4, <2>6, <2>10, OneKind DEF PortalTask
  <2> QED
      BY <2>9, <2>11
<1> QED
    BY <1>4, <1>5

\* addSlots takes the round's confirmation back.
LEMMA UnscheduleStep ==
    ASSUME Inv, NEW r \in Requests, NEW t \in Task, task[r] = t, t.todo \in UnansweredLists, Unschedule(r),
           PortalTables(t), PortalTask(t), NEW x, task' = [task EXCEPT ![r] = x]
    PROVE  PortalTables(x)' /\ PortalTask(x)'
<1>1. /\ Head(t.todo) = "unschedule" /\ Continue(r) /\ At(r, "unschedule") /\ UNCHANGED <<nrounds, stage, logged>>
    BY DEF Unschedule, Overwrite, At
<1>2. PICK row : SetRound(r, row) /\ row = [Target(r) EXCEPT !.status = "Pending", !.at = 0]
    BY DEF Unschedule, Overwrite
<1>3. t.round \in 1 .. nrounds /\ Target(r) \in Round
    BY <1>1, RunningRound DEF Target
<1>4. row.status = "Pending" /\ row.result = Target(r).result /\ row.number = Target(r).number
    BY <1>2, <1>3 DEF Round
<1>5. RowsFit /\ Fits(stage, logged) /\ rounds[t.round].status # "Completed"
  <2>1. t.todo \in OfferLists /\ t.todo # <<>>
      BY <1>1, UnansweredList
  <2>2. t.todo \notin Settling \union Reopening \union {CreateList}
      BY <1>1, <2>1, OneKind
  <2> QED
      BY <2>1, <2>2 DEF PortalTables, PortalTask
<1>6. t.round = nrounds /\ row.result \notin {"Passed", "Failed"} /\ row.result = rounds[nrounds].result
      /\ row.number = rounds[nrounds].number
    BY <1>3, <1>4, <1>5, UnansweredIsNewest DEF Target
<1>7. RowsFit' /\ rounds'[nrounds'] = row
    BY <1>1, <1>2, <1>5, <1>6, NewestWritten
<1>8. FitsRow(stage, logged, row)
    BY <1>4, <1>5, <1>6 DEF Fits, FitsRow
<1>9. PlainList(x.todo)
  <2>1. WentOn(t, x)
      BY <1>1, GoesOn
  <2> QED
      BY <1>1, <2>1, UnansweredList DEF PlainList, WentOn
<1> QED
    BY <1>1, <1>7, <1>8, <1>9, Plain DEF PortalTables, Fits

\* A confirm, a reschedule or a conducted interview writes the newest round and leaves its
\* status to be written.
LEMMA RowThenStage ==
    ASSUME Inv, RowsFit, NEW r \in Requests, NEW s, At(r, s), s \notin {"stage", "find"}, task[r].round = nrounds,
           NEW row, SetRound(r, row), nrounds' = nrounds, row.number = rounds[nrounds].number,
           row.result \in {"Failed", "Passed"} => row.status = "Completed", logged' = logged,
           NEW x, x.todo \in Settling, FitsRow(x.stage, BackFrom(x.stage), row)
    PROVE  PortalTables(x)'
<1>1. RowsFit' /\ rounds'[nrounds'] = row
    BY NewestWritten
<1>2. (BackFrom(x.stage))' = BackFrom(x.stage)
    BY DEF BackFrom
<1>3. Fits(x.stage, BackFrom(x.stage))'
    BY <1>1, <1>2 DEF Fits
<1> QED
    BY <1>1, <1>3 DEF PortalTables

LEMMA ConfirmStep ==
    ASSUME Inv, NEW r \in Requests, NEW t \in Task, task[r] = t, t.todo \in UnansweredLists, ClaimSlot(r),
           PortalTables(t), PortalTask(t), NEW x, task' = [task EXCEPT ![r] = x]
    PROVE  PortalTables(x)' /\ PortalTask(x)'
<1>1. Head(t.todo) = "claimSlot" /\ At(r, "claimSlot") /\ UNCHANGED <<nrounds, slots, stage, logged>>
    BY DEF ClaimSlot, At
<1>2. /\ t.todo = ClaimList /\ Tail(t.todo) = SelectList /\ SelectList # <<>> /\ Head(SelectList) = "select"
      /\ SelectList \in Settling
    BY <1>1, UnansweredList, PortalHeads DEF Settling
<1>3. Target(r).status \in Schedulable /\ t.stage \in RoundStages /\ slots[t.slot].round = t.round
    BY <1>2 DEF PortalTask, Target
<1>4. Continue(r) /\ \E row : SetRound(r, row)
                           /\ row = [Target(r) EXCEPT !.status = "Scheduled", !.at = task[r].at, !.joined = FALSE]
    BY <1>3 DEF ClaimSlot
<1>5. PICK row : SetRound(r, row)
                 /\ row = [Target(r) EXCEPT !.status = "Scheduled", !.at = task[r].at, !.joined = FALSE]
    BY <1>4
<1>6. t.round \in 1 .. nrounds /\ Target(r) \in Round
    BY <1>1, RunningRound DEF Target
<1>7. row.status = "Scheduled" /\ row.result = Target(r).result /\ row.number = Target(r).number
    BY <1>5, <1>6 DEF Round
<1>8. t.round = nrounds /\ row.result \notin {"Passed", "Failed"} /\ row.number = rounds[nrounds].number
    BY <1>3, <1>6, <1>7, UnansweredIsNewest DEF Target, Schedulable, PortalTables
<1>9. x.todo = SelectList /\ x.stage = t.stage /\ x.slot = t.slot /\ x.round = t.round
  <2>1. WentOn(t, x)
      BY <1>4, GoesOn
  <2> QED
      BY <1>2, <2>1 DEF WentOn
<1>10. FitsRow(x.stage, BackFrom(x.stage), row)
    BY <1>3, <1>7, <1>8, <1>9 DEF FitsRow, BackFrom, RoundStages, FromInterview, Stages, Marks
<1>11. PortalTables(x)'
    BY <1>1, <1>2, <1>5, <1>8, <1>9, <1>10, RowThenStage DEF PortalTables
<1>12. PortalTask(x)'
    BY <1>1, <1>2, <1>3, <1>9, OneKind DEF PortalTask
<1> QED
    BY <1>11, <1>12

LEMMA SelectStep ==
    ASSUME Inv, NEW r \in Requests, NEW t \in Task, task[r] = t, t.todo \in UnansweredLists, SelectSlot(r),
           PortalTables(t), PortalTask(t), NEW x, task' = [task EXCEPT ![r] = x]
    PROVE  PortalTables(x)' /\ PortalTask(x)'
<1>1. Head(t.todo) = "select" /\ At(r, "select")
    BY DEF SelectSlot, At
<1>2. t.todo = SelectList /\ Tail(t.todo) = <<"stage", "invite">>
    BY <1>1, UnansweredList
<1>3. slots[t.slot].round # 0
    BY <1>1, <1>2, RunningRound, Counts DEF PortalTask
<1>4. Continue(r)
    BY <1>3 DEF SelectSlot
<1>5. x.todo = <<"stage", "invite">> /\ x.stage = t.stage
  <2>1. <<"stage", "invite">> # <<>>
      OBVIOUS
  <2>2. WentOn(t, x)
      BY <1>4, GoesOn
  <2> QED
      BY <1>2, <2>1, <2>2 DEF WentOn
<1>6. t.todo \in Settling /\ x.todo \in Settling
    BY <1>2, <1>5 DEF Settling
<1>7. PICK st, back : st = t.stage /\ back = BackFrom(t.stage)
    OBVIOUS
<1>8. RowsFit' /\ Fits(st, back)' /\ (BackFrom(x.stage))' = back
    BY <1>5, <1>6, <1>7, ResultsKept, RowsKept DEF PortalTables, BackFrom
<1>9. PortalTables(x)'
    BY <1>5, <1>6, <1>7, <1>8 DEF PortalTables, Fits
<1>10. PortalTask(x)'
  <2>1. Head(x.todo) = "stage" /\ x.todo # <<>> /\ x.todo # UndoList
      BY <1>5, <1>6, PortalHeads
  <2> QED
      BY <2>1, OneKind DEF PortalTask
<1> QED
    BY <1>9, <1>10

LEMMA FreeStep ==
    ASSUME Inv, NEW r \in Requests, NEW t \in Task, task[r] = t, t.todo \in UnansweredLists, Release(r) \/ Complete(r),
           PortalTables(t), PortalTask(t), NEW x, task' = [task EXCEPT ![r] = x]
    PROVE  PortalTables(x)' /\ PortalTask(x)'
<1>1. /\ UNCHANGED <<nrounds, stage, logged>> /\ Continue(r)
      /\ \/ Release(r) /\ At(r, "release") /\ Head(t.todo) = "release"
         \/ Complete(r) /\ At(r, "complete") /\ Head(t.todo) = "complete"
    BY DEF Release, Complete, Overwrite, At
<1>2. Tail(t.todo) = <<"stage">>
    BY <1>1, UnansweredList
<1>3. t.round \in 1 .. nrounds /\ Target(r) \in Round
    BY <1>1, RunningRound DEF Target
<1>4. rounds[t.round].status = "Scheduled"
    BY <1>1, UnansweredList DEF PortalTask
<1>5. t.round = nrounds /\ rounds[nrounds].result \notin {"Passed", "Failed"}
    BY <1>3, <1>4, UnansweredIsNewest DEF PortalTables
<1>6. PICK row : /\ SetRound(r, row) /\ row.result = Target(r).result /\ row.number = Target(r).number
                /\ \/ /\ row.status \in {"NoShow", "RescheduleRequested"}
                      /\ t.stage \in {"INTERVIEW_NOT_ATTENDED", "RESCHEDULE_REQUESTED"}
                   \/ row.status = "Completed" /\ t.stage = "INTERVIEW_ATTENDED"
  <2>1. CASE Release(r) /\ Head(t.todo) = "release"
    <3>1. PICK status : status = IF t.stage = "INTERVIEW_NOT_ATTENDED" THEN "NoShow" ELSE "RescheduleRequested"
        OBVIOUS
    <3>2. PICK row : SetRound(r, row) /\ row = [Target(r) EXCEPT !.releases = @ + 1, !.status = status]
        BY <2>1, <3>1 DEF Release
    <3>3. row.result = Target(r).result /\ row.number = Target(r).number /\ row.status = status
        BY <1>3, <3>2 DEF Round
    <3>4. t.stage \in {"INTERVIEW_NOT_ATTENDED", "RESCHEDULE_REQUESTED"}
        BY <2>1, UnansweredList DEF PortalTask
    <3> QED
        BY <3>1, <3>2, <3>3, <3>4
  <2>2. CASE Complete(r) /\ Head(t.todo) = "complete"
    <3>1. PICK row : SetRound(r, row) /\ row = [Target(r) EXCEPT !.status = "Completed"]
        BY <2>2 DEF Complete, Overwrite
    <3>2. row.result = Target(r).result /\ row.number = Target(r).number /\ row.status = "Completed"
        BY <1>3, <3>1 DEF Round
    <3>3. t.stage = "INTERVIEW_ATTENDED"
        BY <2>2, UnansweredList DEF PortalTask
    <3> QED
        BY <3>1, <3>2, <3>3
  <2> QED
      BY <1>1, <2>1, <2>2
<1>7. x.todo = <<"stage">> /\ x.stage = t.stage /\ x.todo \in Settling
  <2>1. <<"stage">> # <<>> /\ <<"stage">> \in Settling
      BY DEF Settling
  <2>2. WentOn(t, x)
      BY <1>1, GoesOn
  <2> QED
      BY <1>2, <2>1, <2>2 DEF WentOn
<1>8. FitsRow(x.stage, BackFrom(x.stage), row)
    BY <1>5, <1>6, <1>7 DEF FitsRow, BackFrom, Target, FromInterview, Stages, Marks
<1>9. PortalTables(x)'
    BY <1>1, <1>5, <1>6, <1>7, <1>8, RowThenStage DEF PortalTables, Target
<1>10. PortalTask(x)'
  <2>1. Head(x.todo) = "stage" /\ x.todo # <<>> /\ x.todo # UndoList
      BY <1>7, PortalHeads
  <2> QED
      BY <2>1, OneKind DEF PortalTask
<1> QED
    BY <1>9, <1>10

\* The status is written; a rejection taken back has its round still to reopen.
LEMMA SettleStep ==
    ASSUME Inv, NEW r \in Requests, NEW t \in Task, task[r] = t, t.todo \in UnansweredLists, Transition(r),
           PortalTables(t), PortalTask(t), NEW x, task' = [task EXCEPT ![r] = x]
    PROVE  PortalTables(x)' /\ PortalTask(x)'
<1>1. Head(t.todo) = "stage" /\ UNCHANGED <<rounds, nrounds>> /\ Continue(r)
      /\ stage' = t.stage /\ logged' = BackFrom(t.stage)
    BY DEF Transition, At, BackFrom
<1>2. WentOn(t, x)
    BY <1>1, GoesOn
<1>3. RowsFit'
    BY <1>1 DEF PortalTables, RowsFit
<1>4. CASE t.todo \in {<<"stage">>, <<"stage", "invite">>}
  <2>1. PlainList(x.todo)
    <3>1. Head(<<"invite">>) = "invite"
        OBVIOUS
    <3>2. t.todo # UndoList
        BY <1>4, PortalHeads DEF Settling
    <3>3. x.todo = <<>> \/ x.todo = <<"invite">>
        BY <1>1, <1>2, <3>2, UnansweredList DEF WentOn
    <3> QED
        BY <3>1, <3>3 DEF PlainList
  <2>2. Fits(t.stage, BackFrom(t.stage))
      BY <1>4 DEF PortalTables, Settling
  <2>3. Fits(stage, logged)'
      BY <1>1, <2>2 DEF Fits
  <2> QED
      BY <1>3, <2>1, <2>3, Plain DEF PortalTables
<1>5. CASE t.todo = UndoList
  <2>1. x.todo = <<"find", "reopen">> /\ x.stage = t.stage
    <3>1. <<"find", "reopen">> # <<>>
        OBVIOUS
    <3>2. Tail(t.todo) = <<"find", "reopen">>
        BY <1>5 DEF UndoList
    <3> QED
        BY <1>2, <3>1, <3>2 DEF WentOn
  <2>2. t.stage = logged /\ stage = "REJECTED" /\ Fits(stage, logged)
    <3>1. t.todo \notin Settling \union Reopening \union {CreateList}
        BY <1>1, <1>5, PortalHeads, OneKind
    <3> QED
        BY <1>5, <3>1 DEF PortalTask, PortalTables
  <2>3. logged \in FromInterview /\ rounds[nrounds].result = "Failed"
      BY <2>2 DEF Fits, FitsRow
  <2>4. stage' = logged /\ logged' = logged /\ x.stage = logged
      BY <1>1, <2>1, <2>2 DEF BackFrom
  <2>5. x.todo \in Reopening /\ x.todo # <<>> /\ Head(x.todo) = "find"
      BY <2>1 DEF Reopening
  <2>6. x.todo \notin Settling
      BY <2>5, OneKind
  <2>7. PortalTables(x)'
      BY <1>3, <2>5, <2>6 DEF PortalTables
  <2>8. PortalTask(x)'
      BY <1>1, <2>3, <2>4, <2>5, OneKind DEF PortalTask
  <2> QED
      BY <2>7, <2>8
<1> QED
    BY <1>1, <1>4, <1>5, UnansweredList

\* undo finds the newest round: no other was failed.
LEMMA FindStep ==
    ASSUME Inv, NEW r \in Requests, NEW t \in Task, task[r] = t, t.todo \in UnansweredLists, FindFailed(r),
           PortalTables(t), PortalTask(t), NEW x, task' = [task EXCEPT ![r] = x]
    PROVE  PortalTables(x)' /\ PortalTask(x)'
<1>1. Head(t.todo) = "find" /\ UNCHANGED <<rounds, nrounds, stage, logged>>
    BY DEF FindFailed, At
<1>2. t.todo = <<"find", "reopen">> /\ Tail(t.todo) = <<"reopen">>
    BY <1>1, UnansweredList
<1>3. /\ t.stage = stage /\ stage = logged /\ stage \in FromInterview /\ rounds[nrounds].result = "Failed"
      /\ RowsFit
    BY <1>2 DEF PortalTask, Reopening, PortalTables
<1>4. \A i \in 1 .. nrounds : rounds[i].result = "Failed" => i = nrounds
    BY <1>3, Counts DEF RowsFit
<1>5. nrounds \in 1 .. nrounds
    BY Counts
<1>6. \E i \in 1 .. nrounds : /\ rounds[i].result = "Failed"
                              /\ task' = [task EXCEPT ![r].round = i, ![r].at = rounds[i].at, ![r].todo = Tail(@)]
    BY <1>3, <1>5 DEF FindFailed
<1>7. PICK i \in 1 .. nrounds : /\ rounds[i].result = "Failed"
                                /\ task' = [task EXCEPT ![r].round = i, ![r].at = rounds[i].at, ![r].todo = Tail(@)]
    BY <1>6
<1>8. x = [t EXCEPT !.round = i, !.at = rounds[i].at, !.todo = Tail(t.todo)]
    BY <1>7 DEF Inv
<1>9. x.todo = <<"reopen">> /\ x.round = nrounds /\ x.stage = t.stage
    BY <1>2, <1>4, <1>7, <1>8 DEF Task
<1>10. x.todo \in Reopening /\ x.todo # <<>> /\ Head(x.todo) = "reopen"
    BY <1>9 DEF Reopening
<1>11. PortalTables(x)'
  <2>1. x.todo \notin Settling
      BY <1>10, OneKind
  <2>2. RowsFit'
      BY <1>1, <1>3 DEF RowsFit
  <2> QED
      BY <1>10, <2>1, <2>2 DEF PortalTables
<1>12. PortalTask(x)'
    BY <1>1, <1>3, <1>9, <1>10, OneKind DEF PortalTask
<1> QED
    BY <1>11, <1>12

\* The failed round is open again.
LEMMA ReopenStep ==
    ASSUME Inv, NEW r \in Requests, NEW t \in Task, task[r] = t, t.todo \in UnansweredLists, ReopenRound(r),
           PortalTables(t), PortalTask(t), NEW x, task' = [task EXCEPT ![r] = x]
    PROVE  PortalTables(x)' /\ PortalTask(x)'
<1>1. /\ Head(t.todo) = "reopen" /\ At(r, "reopen") /\ Continue(r) /\ UNCHANGED <<nrounds, stage, logged>>
    BY DEF ReopenRound, Overwrite, At
<1>2. t.todo = <<"reopen">> /\ Tail(t.todo) = <<>>
    BY <1>1, UnansweredList
<1>3. /\ t.stage = stage /\ stage = logged /\ stage \in FromInterview /\ t.round = nrounds
      /\ RowsFit
    BY <1>2 DEF PortalTask, Reopening, PortalTables
<1>4. PICK result, status : /\ result = IF t.stage = "ON_HOLD" THEN "Hold" ELSE "Pending"
                            /\ status = IF t.at = 0 THEN "Pending" ELSE "Scheduled"
    OBVIOUS
<1>5. PICK row : SetRound(r, row) /\ row = [Target(r) EXCEPT !.result = result, !.status = status]
    BY <1>4 DEF ReopenRound, Overwrite
<1>6. Target(r) \in Round /\ t.round \in 1 .. nrounds
    BY <1>1, RunningRound DEF Target
<1>7. row.result = result /\ row.status = status /\ row.number = rounds[nrounds].number
    BY <1>3, <1>5, <1>6 DEF Round, Target
<1>8. RowsFit' /\ rounds'[nrounds'] = row
  <2>1. row.result \in {"Failed", "Passed"} => row.status = "Completed"
      BY <1>4, <1>7
  <2>2. At(r, "reopen") /\ SetRound(r, row) /\ nrounds' = nrounds /\ task[r].round = nrounds
      BY <1>1, <1>3, <1>5
  <2>3. row.number = rounds[nrounds].number
      BY <1>7
  <2> QED
      BY <1>3, <2>1, <2>2, <2>3, NewestWritten
<1>9. FitsRow(stage, logged, row)
  <2>1. stage \notin {"REJECTED", "SELECTED", "SHORTLISTED"} /\ logged \in FromInterview
      BY <1>3 DEF FromInterview, Marks
  <2> QED
      BY <1>3, <1>4, <1>7, <2>1 DEF FitsRow
<1>10. PlainList(x.todo)
  <2>1. WentOn(t, x)
      BY <1>1, GoesOn
  <2> QED
      BY <1>2, <2>1 DEF PlainList, WentOn
<1> QED
    BY <1>1, <1>8, <1>9, <1>10, Plain DEF PortalTables, Fits

\* submitResult reads the round once more: alone, it is still the confirmed one.
LEMMA LookStep ==
    ASSUME Inv, NEW r \in Requests, NEW t \in Task, task[r] = t, t.todo \in UnansweredLists, LookAtRound(r),
           PortalTables(t), PortalTask(t), NEW x, task' = [task EXCEPT ![r] = x]
    PROVE  PortalTables(x)' /\ PortalTask(x)'
<1>1. /\ Head(t.todo) = "look" /\ UNCHANGED <<rounds, nrounds, stage, logged>>
      /\ task' = [task EXCEPT ![r].was = Target(r).status, ![r].todo = Tail(@)]
    BY DEF LookAtRound, At
<1>2. x = [t EXCEPT !.was = Target(r).status, !.todo = Tail(t.todo)]
    BY <1>1 DEF Inv
<1>3. /\ x.todo = Tail(t.todo) /\ x.was = Target(r).status /\ x.round = t.round /\ x.result = t.result
      /\ x.stage = t.stage /\ x.number = t.number
    BY <1>2 DEF Task
<1>4. /\ t.todo \in LookLists /\ x.todo \in ResultLists
      /\ t.todo \in NextRoundLists <=> x.todo \in NextRoundLists
  <2>1. /\ <<"look", "result", "nextRound", "offer", "stage">> \in NextRoundLists
        /\ <<"result", "nextRound", "offer", "stage">> \in NextRoundLists
      BY DEF NextRoundLists
  <2>2. /\ <<"result", "stage">> \in ResultLists
        /\ <<"result", "nextRound", "offer", "stage">> \in ResultLists
      BY DEF ResultLists
  <2>3. /\ <<"look", "result", "stage">> \in LookLists
        /\ <<"look", "result", "nextRound", "offer", "stage">> \in LookLists
      BY DEF LookLists
  <2>4. CASE t.todo = <<"look", "result", "stage">> /\ x.todo = <<"result", "stage">>
      BY <2>2, <2>3, <2>4, PortalHeads
  <2>5. CASE /\ t.todo = <<"look", "result", "nextRound", "offer", "stage">>
             /\ x.todo = <<"result", "nextRound", "offer", "stage">>
      BY <2>1, <2>2, <2>3, <2>5
  <2> QED
      BY <1>1, <1>3, <2>4, <2>5, UnansweredList
<1>5. Target(r).status = "Scheduled"
    BY <1>4 DEF PortalTask, Target
<1>6. x.todo # <<>> /\ Head(x.todo) = "result" /\ t.todo # <<>>
    BY <1>4, PortalHeads
<1>7. PortalTables(x)'
  <2>1. RowsFit /\ Fits(stage, logged)
      BY <1>1, <1>6, OneKind DEF PortalTables
  <2>2. x.todo \notin Settling
      BY <1>6, OneKind
  <2> QED
      BY <1>1, <2>1, <2>2 DEF PortalTables, RowsFit, Fits
<1>8. PortalTask(x)'
  <2>1. /\ t.round = nrounds /\ rounds[nrounds].status = "Scheduled"
        /\ t.result \in {"Passed", "Failed", "Hold"}
        /\ t.result = "Failed" => t.stage = "REJECTED"
        /\ t.result = "Hold" => t.stage = "ON_HOLD"
        /\ (t.result = "Passed" /\ t.todo \notin NextRoundLists) => t.stage = "SELECTED"
      BY <1>4 DEF PortalTask
  <2>2. t.todo \in NextRoundLists =>
           /\ t.number > rounds[nrounds].number /\ t.result = "Passed" /\ t.stage \in RoundStages
      BY DEF PortalTask
  <2>3. x.todo \notin {ClaimList, SelectList, ReleaseList, CompleteList, CreateList, UndoList, <<"reopen">>}
        /\ x.todo \notin OfferLists \union LookLists \union Reopening
      BY <1>6, OneKind
  <2>4. /\ x.round = nrounds' /\ rounds'[nrounds'].status = "Scheduled"
        /\ x.result \in {"Passed", "Failed", "Hold"} /\ x.was = "Scheduled"
      BY <1>1, <1>3, <1>5, <2>1
  <2>5. /\ x.result = "Failed" => x.stage = "REJECTED"
        /\ x.result = "Hold" => x.stage = "ON_HOLD"
        /\ (x.result = "Passed" /\ x.todo \notin NextRoundLists) => x.stage = "SELECTED"
      BY <1>3, <1>4, <2>1
  <2>6. x.todo \in NextRoundLists =>
           x.number > rounds'[nrounds'].number /\ x.result = "Passed" /\ x.stage \in RoundStages
      BY <1>1, <1>3, <1>4, <2>2
  <2> QED
      BY <2>3, <2>4, <2>5, <2>6 DEF PortalTask
<1> QED
    BY <1>7, <1>8

\* The result is recorded; the status, or a next round, is to follow.
LEMMA ResultStep ==
    ASSUME Inv, NEW r \in Requests, NEW t \in Task, task[r] = t, t.todo \in UnansweredLists, RecordResult(r),
           PortalTables(t), PortalTask(t), NEW x, task' = [task EXCEPT ![r] = x]
    PROVE  PortalTables(x)' /\ PortalTask(x)'
<1>1. /\ Head(t.todo) = "result" /\ At(r, "result") /\ Continue(r) /\ UNCHANGED <<nrounds, stage, logged>>
    BY DEF RecordResult, Overwrite, At
<1>2. /\ t.todo # <<>> /\ t.todo \in ResultLists
      /\ \/ t.todo = <<"result", "stage">> /\ Tail(t.todo) = <<"stage">> /\ t.todo \notin NextRoundLists
         \/ t.todo \in NextRoundLists /\ Tail(t.todo) = CreateList
    BY <1>1, UnansweredList, PortalHeads DEF ResultLists
<1>3. /\ t.round = nrounds /\ rounds[nrounds].status = "Scheduled" /\ t.was = "Scheduled"
      /\ t.result \in {"Passed", "Failed", "Hold"}
      /\ t.result = "Failed" => t.stage = "REJECTED"
      /\ t.result = "Hold" => t.stage = "ON_HOLD"
      /\ (t.result = "Passed" /\ t.todo \notin NextRoundLists) => t.stage = "SELECTED"
    BY <1>2 DEF PortalTask
<1>4. RowsFit /\ Fits(stage, logged)
    BY <1>1, <1>2, OneKind DEF PortalTables
<1>5. logged \in FromInterview
    BY <1>3, <1>4 DEF Fits, FitsRow
<1>6. PICK status : status = IF t.result = "Hold" THEN "Scheduled" ELSE "Completed"
    OBVIOUS
<1>7. PICK row : SetRound(r, row) /\ row = [Target(r) EXCEPT !.result = t.result, !.status = status]
    BY <1>3, <1>6 DEF RecordResult, Overwrite
<1>8. Target(r) \in Round /\ t.round \in 1 .. nrounds
    BY <1>1, RunningRound DEF Target
<1>9. row.result = t.result /\ row.status = status /\ row.number = rounds[nrounds].number
    BY <1>3, <1>7, <1>8 DEF Round, Target
<1>10. WentOn(t, x)
    BY <1>1, GoesOn
<1>11. CASE t.todo \notin NextRoundLists
  <2>1. x.todo = <<"stage">> /\ x.stage = t.stage /\ x.todo \in Settling
    <3>1. <<"stage">> # <<>> /\ <<"stage">> \in Settling
        BY DEF Settling
    <3> QED
        BY <1>2, <1>10, <1>11, <3>1 DEF WentOn
  <2>2. FitsRow(x.stage, BackFrom(x.stage), row)
    <3>1. t.result = "Failed" => BackFrom(x.stage) = logged /\ x.stage = "REJECTED"
        BY <1>3, <2>1 DEF BackFrom, Marks
    <3>2. t.result = "Hold" => BackFrom(x.stage) = "ON_HOLD" /\ x.stage = "ON_HOLD"
        BY <1>3, <2>1 DEF BackFrom, Marks
    <3>3. t.result = "Passed" => BackFrom(x.stage) = "SELECTED" /\ x.stage = "SELECTED"
        BY <1>3, <1>11, <2>1 DEF BackFrom, Marks
    <3>4. "ON_HOLD" \in FromInterview /\ "ON_HOLD" \notin Marks /\ "SELECTED" \notin Marks /\ "REJECTED" \in Marks
        BY DEF FromInterview, Stages, Marks
    <3> QED
        BY <1>3, <1>5, <1>6, <1>9, <3>1, <3>2, <3>3, <3>4 DEF FitsRow
  <2>3. row.result \in {"Failed", "Passed"} => row.status = "Completed"
      BY <1>6, <1>9
  <2>4. PortalTables(x)'
      BY <1>1, <1>3, <1>4, <1>7, <1>9, <2>1, <2>2, <2>3, RowThenStage
  <2>5. PortalTask(x)'
    <3>1. Head(x.todo) = "stage" /\ x.todo # <<>> /\ x.todo # UndoList
        BY <2>1, PortalHeads
    <3> QED
        BY <3>1, OneKind DEF PortalTask
  <2> QED
      BY <2>4, <2>5
<1>12. CASE t.todo \in NextRoundLists
  <2>1. t.number > rounds[nrounds].number /\ t.result = "Passed" /\ t.stage \in RoundStages
      BY <1>12 DEF PortalTask
  <2>2. x.todo = CreateList /\ x.stage = t.stage /\ x.round = t.round /\ x.number = t.number /\ x.result = t.result
      BY <1>2, <1>10, <1>12, PortalHeads DEF WentOn
  <2>3. RowsFit' /\ rounds'[nrounds'] = row
    <3>1. row.result \in {"Failed", "Passed"} => row.status = "Completed"
        BY <1>6, <1>9
    <3>2. At(r, "result") /\ SetRound(r, row) /\ nrounds' = nrounds /\ task[r].round = nrounds
        BY <1>1, <1>3, <1>7
    <3> QED
        BY <1>4, <1>9, <3>1, <3>2, NewestWritten
  <2>4. x.todo # <<>> /\ Head(x.todo) = "nextRound"
      BY <2>2, PortalHeads
  <2>5. PortalTables(x)'
    <3>1. x.todo \notin Settling
        BY <2>4, OneKind
    <3> QED
        BY <2>2, <2>3, <3>1 DEF PortalTables
  <2>6. row.status = "Completed" /\ row.result = "Passed"
      BY <1>6, <1>9, <2>1
  <2>7. PortalTask(x)'
      BY <1>1, <1>3, <1>9, <2>1, <2>2, <2>3, <2>4, <2>6, OneKind DEF PortalTask
  <2> QED
      BY <2>5, <2>7
<1> QED
    BY <1>11, <1>12

\* The next round exists; its slots and the status are to follow.
LEMMA CreateStep ==
    ASSUME Inv, NEW r \in Requests, NEW t \in Task, task[r] = t, t.todo \in UnansweredLists, CreateRound(r),
           PortalTables(t), PortalTask(t), NEW x, task' = [task EXCEPT ![r] = x]
    PROVE  PortalTables(x)' /\ PortalTask(x)'
<1>1. /\ Head(t.todo) = "nextRound" /\ UNCHANGED <<stage, logged>> /\ nrounds' = nrounds + 1 /\ nrounds < MaxRounds
      /\ rounds' = [rounds EXCEPT ![nrounds + 1] = NewRound(task[r].number, FALSE)]
      /\ task' = [task EXCEPT ![r] = [task[r] EXCEPT !.round = nrounds + 1, !.todo = Tail(@)]]
    BY DEF CreateRound, OpenRound, At
<1>2. t.todo = CreateList /\ t.todo # <<>> /\ Tail(t.todo) = <<"offer", "stage">> /\ t.todo \in NextRoundLists
    BY <1>1, UnansweredList DEF NextRoundLists, CreateList
<1>3. /\ rounds[nrounds].status = "Completed" /\ rounds[nrounds].result = "Passed"
      /\ t.number > rounds[nrounds].number /\ t.stage \in RoundStages /\ RowsFit
    BY <1>2 DEF PortalTask, PortalTables
<1>4. PICK row : row = NewRound(t.number, FALSE)
    OBVIOUS
<1>5. row.status = "Pending" /\ row.result = "Pending" /\ row.number = t.number
    BY <1>4 DEF NewRound
<1>6. PICK k : k = nrounds + 1
    OBVIOUS
<1>7. k \in Ids /\ k = nrounds'
    BY <1>1, <1>6, Counts DEF Ids
<1>8. rounds'[k] = row /\ \A i \in 1 .. nrounds : rounds'[i] = rounds[i]
  <2>1. rounds' = [rounds EXCEPT ![k] = row]
      BY <1>1, <1>4, <1>6
  <2>2. \A i \in 1 .. nrounds : i # k /\ i \in Ids
      BY <1>6, Counts
  <2> QED
      BY <1>7, <2>1, <2>2 DEF Inv, DataOK
<1>9. x.todo = <<"offer", "stage">> /\ x.stage = t.stage
  <2>1. x = [t EXCEPT !.round = nrounds + 1, !.todo = Tail(t.todo)]
      BY <1>1 DEF Inv
  <2> QED
      BY <1>2, <2>1 DEF Task
<1>10. RowsFit'
  <2>1. \A i \in 1 .. nrounds : rounds[i].number \in Nat /\ rounds[i].number <= rounds[nrounds].number
    <3>1. \A i \in 1 .. nrounds : rounds[i].number \in Nat
        BY Counts DEF Inv, DataOK, Round, FinalNumber
    <3>2. \A i \in 1 .. nrounds : i < nrounds \/ i = nrounds
        BY Counts
    <3>3. nrounds \in 1 .. nrounds
        BY Counts
    <3> QED
        BY <1>3, <3>1, <3>2, <3>3 DEF RowsFit
  <2>2. t.number \in Nat
      BY DEF Task, FinalNumber
  <2>3. \A i \in 1 .. k : i = k \/ (i \in 1 .. nrounds /\ (i < nrounds \/ i = nrounds))
      BY <1>6, Counts
  <2>4. ASSUME NEW i \in 1 .. k, NEW j \in 1 .. k, i < j PROVE rounds'[i].number < rounds'[j].number
    <3>1. i \in 1 .. nrounds
        BY <1>6, <2>4, Counts
    <3>2. CASE j = k
      <4>1. rounds[nrounds].number \in Nat
          BY <2>1, Counts
      <4> QED
          BY <1>3, <1>5, <1>8, <2>1, <2>2, <3>1, <3>2, <4>1
    <3>3. CASE j # k
        BY <1>3, <1>8, <2>3, <2>4, <3>1, <3>3 DEF RowsFit
    <3> QED
        BY <3>2, <3>3
  <2>5. ASSUME NEW i \in 1 .. k, i < k PROVE rounds'[i].status = "Completed" /\ rounds'[i].result = "Passed"
    <3>1. i \in 1 .. nrounds /\ (i < nrounds \/ i = nrounds)
        BY <1>6, <2>3, <2>5, Counts
    <3> QED
        BY <1>3, <1>8, <3>1 DEF RowsFit
  <2> QED
      BY <1>5, <1>7, <1>8, <2>4, <2>5 DEF RowsFit
<1>11. FitsRow(t.stage, t.stage, row) /\ t.stage \notin Marks
    BY <1>3, <1>5 DEF FitsRow, RoundStages, FromInterview, Stages, Marks
<1>12. PortalTables(x)'
  <2>1. x.todo \in Settling
      BY <1>9 DEF Settling
  <2>2. (BackFrom(x.stage))' = t.stage
      BY <1>9, <1>11 DEF BackFrom
  <2> QED
      BY <1>7, <1>8, <1>9, <1>10, <1>11, <2>1, <2>2 DEF PortalTables, Fits
<1>13. PortalTask(x)'
  <2>1. x.todo # <<>> /\ Head(x.todo) = "offer" /\ x.todo \notin OfferLists
      BY <1>9, PortalHeads
  <2> QED
      BY <2>1, OneKind DEF PortalTask
<1> QED
    BY <1>12, <1>13

LEMMA PortalStep ==
    ASSUME Inv, NEW r \in Requests, Step(r), NEW t \in Task, task[r] = t, t.todo \in UnansweredLists,
           PortalTables(t), PortalTask(t), NEW x, task' = [task EXCEPT ![r] = x]
    PROVE  PortalTables(x)' /\ PortalTask(x)'
<1>1. Head(t.todo) \notin {"decide", "next", "liftHold", "hold", "hire"}
    BY UnansweredList
<1>2. ~ClaimDecision(r) /\ ~OpenNextRound(r) /\ ~LiftHold(r) /\ ~Hold(r) /\ ~Hire(r)
    BY <1>1 DEF ClaimDecision, OpenNextRound, OpenRound, LiftHold, Hold, Hire, SetHiring, At
<1>3. CASE ReplaceSlots(r) \/ MarkSlot(r) \/ SendInvites(r) \/ Join(r) \/ Unjoin(r) \/ SendMail(r)
    BY <1>3, PlainStep
<1>4. CASE ClearSlots(r) \/ OfferSlots(r) \/ Unschedule(r) \/ ClaimSlot(r) \/ SelectSlot(r)
    BY <1>4, OfferStep, UnscheduleStep, ConfirmStep, SelectStep
<1>5. CASE Release(r) \/ Complete(r) \/ Transition(r) \/ FindFailed(r) \/ ReopenRound(r)
    BY <1>5, FreeStep, SettleStep, FindStep, ReopenStep
<1>6. CASE LookAtRound(r) \/ RecordResult(r) \/ CreateRound(r)
    BY <1>6, LookStep, ResultStep, CreateStep
<1> QED
    BY <1>2, <1>3, <1>4, <1>5, <1>6 DEF Step

-----------------------------------------------------------------------------
(* The beginning of a handler.                                             *)

LEMMA RoundStage == ASSUME NEW row, row.number \in Nat, row.number >= 1 PROVE StageFor(row) \in RoundStages
<1>1. CASE row.final \/ row.number >= FinalNumber
    BY <1>1 DEF StageFor, RoundStages
<1>2. CASE ~(row.final \/ row.number >= FinalNumber)
  <2>1. row.number \in {1, 2, 3}
      BY <1>2 DEF FinalNumber
  <2>2. StageFor(row) = <<"INTERVIEW_R1", "INTERVIEW_R2", "INTERVIEW_R3">>[row.number]
      BY <1>2 DEF StageFor
  <2> QED
      BY <2>1, <2>2 DEF RoundStages
<1> QED
    BY <1>1, <1>2

\* latestRound finds the newest round.
LEMMA LatestIsNewest == ASSUME Inv, RowsFit, NEW i \in 1 .. nrounds, Latest(i) PROVE i = nrounds
<1>1. nrounds \in 1 .. nrounds /\ rounds[nrounds].number \in Nat /\ rounds[i].number \in Nat
    BY Counts DEF Inv, DataOK, Round, FinalNumber
<1>2. rounds[nrounds].number <= rounds[i].number
    BY <1>1 DEF Latest
<1>3. ~(i < nrounds)
    BY <1>1, <1>2 DEF RowsFit
<1> QED
    BY <1>3, Counts

LEMMA ResultBegun ==
    ASSUME Inv, RowsFit, Fits(stage, logged), NEW t \in Task, BeganResult(t)
    PROVE  PortalTables(t) /\ PortalTask(t)
<1>1. t.todo # <<>> /\ Head(t.todo) = "look"
  <2>1. <<"look", "result", "stage">> # <<>> /\ <<"look", "result", "nextRound", "offer", "stage">> # <<>>
      OBVIOUS
  <2> QED
      BY <2>1, BeganHeads DEF BeganResult
<1>2. t.round = nrounds /\ rounds[nrounds].status = "Scheduled" /\ t.result \in {"Passed", "Failed", "Hold"}
    BY LatestIsNewest DEF BeganResult, Results
<1>3. t.todo \in NextRoundLists => t.number # 0
  <2>1. t.number = 0 => t.todo = <<"look", "result", "stage">>
      BY DEF BeganResult
  <2> QED
      BY <2>1, PortalHeads
<1>4. t.todo \notin NextRoundLists => t.number = 0
  <2>1. <<"look", "result", "nextRound", "offer", "stage">> \in NextRoundLists
      BY DEF NextRoundLists
  <2> QED
      BY <2>1 DEF BeganResult
<1>5. t.number # 0 => t.stage \in RoundStages
  <2>1. PICK row : row = NewRound(t.number, FALSE)
      OBVIOUS
  <2>2. row.number = t.number
      BY <2>1 DEF NewRound
  <2>3. t.number # 0 => t.stage = StageFor(row)
      BY <2>1 DEF BeganResult
  <2>4. t.number # 0 => t.number \in Nat /\ t.number >= 1
      BY DEF Task, FinalNumber
  <2> QED
      BY <2>2, <2>3, <2>4, RoundStage
<1>6. /\ t.result = "Failed" => t.stage = "REJECTED"
      /\ t.result = "Hold" => t.stage = "ON_HOLD"
      /\ (t.result = "Passed" /\ t.number = 0) => t.stage = "SELECTED"
      /\ t.number # 0 => t.result = "Passed" /\ t.number > rounds[t.round].number
    BY DEF BeganResult
<1>7. PortalTables(t)
    BY <1>1, OneKind DEF PortalTables
<1>8. PortalTask(t)
    BY <1>1, <1>2, <1>3, <1>4, <1>5, <1>6, OneKind DEF PortalTask
<1> QED
    BY <1>7, <1>8

\* A shortlisting is taken back at once, a rejection by way of its round.
LEMMA UndoBegun ==
    ASSUME Inv, RowsFit, Fits(stage, logged), NEW t \in Task, BeganUndo(t)
    PROVE  PortalTables(t) /\ PortalTask(t)
<1>1. t.stage = logged /\ stage \in Marks
    BY DEF BeganUndo
<1>2. CASE stage = "REJECTED"
  <2>1. logged \in FromInterview
      BY <1>2 DEF Fits, FitsRow
  <2>2. t.todo = UndoList
      BY <1>2, <2>1 DEF BeganUndo, UndoList
  <2>3. t.todo # <<>> /\ Head(t.todo) = "stage" /\ t.todo \notin Settling
      BY <2>2, PortalHeads
  <2> QED
      BY <1>1, <1>2, <2>3, OneKind DEF PortalTables, PortalTask
<1>3. CASE stage = "SHORTLISTED"
  <2>1. logged = "SENT_TO_COMPANY" /\ t.todo = <<"stage">>
      BY <1>3 DEF Fits, FitsRow, BeganUndo
  <2>2. "SENT_TO_COMPANY" \notin FromInterview /\ "SENT_TO_COMPANY" \notin Marks
      BY DEF FromInterview, Marks
  <2>3. FitsRow(t.stage, BackFrom(t.stage), rounds[nrounds])
      BY <1>1, <1>3, <2>1, <2>2 DEF Fits, FitsRow, BackFrom
  <2>4. t.todo \in Settling
      BY <2>1 DEF Settling
  <2>5. PortalTask(t)
    <3>1. Head(t.todo) = "stage" /\ t.todo # <<>> /\ t.todo # UndoList
        BY <2>1, <2>4, PortalHeads
    <3> QED
        BY <3>1, OneKind DEF PortalTask
  <2> QED
      BY <2>3, <2>4, <2>5 DEF PortalTables, Fits
<1> QED
    BY <1>1, <1>2, <1>3 DEF Marks

LEMMA PortalBegins ==
    ASSUME Inv, RowsFit, Fits(stage, logged), NEW t \in Task,
           \/ BeganPlain(t) \/ BeganMark(t) \/ BeganConfirm(t) \/ BeganRelease(t) \/ BeganComplete(t) \/ BeganMail(t)
           \/ BeganOffer(t) \/ BeganResult(t) \/ BeganUndo(t)
    PROVE  PortalTables(t) /\ PortalTask(t)
<1>1. CASE BeganPlain(t) \/ BeganMark(t) \/ BeganMail(t)
  <2>1. PlainList(t.todo)
      BY <1>1, BeganHeads DEF PlainList
  <2> QED
      BY <2>1, Plain DEF PortalTables
<1>2. CASE BeganConfirm(t)
  <2>1. t.todo = ClaimList /\ t.todo # <<>> /\ Head(t.todo) = "claimSlot"
      BY <1>2, PortalHeads DEF BeganConfirm
  <2>2. t.stage \in RoundStages
    <3>1. rounds[t.round].number \in Nat /\ rounds[t.round].number >= 1
        BY <1>2, Counts DEF BeganConfirm, Inv, DataOK, RowsOK, Round, FinalNumber
    <3> QED
        BY <1>2, <3>1, RoundStage DEF BeganConfirm
  <2>3. PortalTask(t)
      BY <1>2, <2>1, <2>2, OneKind DEF PortalTask, BeganConfirm
  <2>4. PortalTables(t)
      BY <2>1, OneKind DEF PortalTables
  <2> QED
      BY <2>3, <2>4
<1>3. CASE BeganRelease(t)
  <2>1. t.todo = ReleaseList /\ t.todo # <<>> /\ Head(t.todo) = "release"
      BY <1>3, PortalHeads DEF BeganRelease
  <2> QED
      BY <1>3, <2>1, OneKind DEF PortalTask, PortalTables, BeganRelease
<1>4. CASE BeganComplete(t)
  <2>1. t.todo = CompleteList /\ t.todo # <<>> /\ Head(t.todo) = "complete"
      BY <1>4, PortalHeads DEF BeganComplete
  <2> QED
      BY <1>4, <2>1, OneKind DEF PortalTask, PortalTables, BeganComplete
<1>5. CASE BeganOffer(t)
  <2>1. t.todo \in OfferLists /\ t.todo # <<>> /\ Head(t.todo) = "clear"
      BY <1>5, PortalHeads, BeganHeads DEF BeganOffer, OfferLists
  <2> QED
      BY <1>5, <2>1, OneKind DEF PortalTask, PortalTables, BeganOffer
<1> QED
    BY <1>1, <1>2, <1>3, <1>4, <1>5, ResultBegun, UndoBegun

LEMMA PortalInit == Init => PortalInv
<1> SUFFICES ASSUME Init PROVE PortalTables(Resting) /\ PortalTask(Resting)
  <2>1. Init => Current = {Resting}
      BY RestingType DEF Init, Current, Quiet, Idle
  <2> QED
      BY <2>1 DEF PortalInv
<1>1. nrounds = 1 /\ rounds[1] = NewRound(1, FALSE)
  <2>1. 1 \in Ids
      BY InterviewsAssumption DEF Ids
  <2>2. rounds = [i \in Ids |-> IF i = 1 THEN NewRound(1, FALSE) ELSE NoRound]
      BY DEF Init
  <2> QED
      BY <2>1, <2>2 DEF Init
<1>2. NewRound(1, FALSE).result = "Pending" /\ NewRound(1, FALSE).status = "Pending"
    BY DEF NewRound
<1>3. RowsFit
  <2>1. \A i \in 1 .. nrounds : i = 1 /\ ~(i < nrounds)
      BY <1>1
  <2>2. \A i, j \in 1 .. nrounds : ~(i < j)
      BY <1>1
  <2> QED
      BY <1>1, <1>2, <2>1, <2>2 DEF RowsFit
<1>4. Fits(stage, logged)
    BY <1>1, <1>2 DEF Init, Fits, FitsRow, Marks
<1>5. PlainList(Resting.todo)
    BY RestingType DEF PlainList
<1> QED
    BY <1>3, <1>4, <1>5, Plain DEF PortalTables

LEMMA PortalNext == Inv /\ PortalOnly /\ RunsAlone /\ PortalInv /\ [Next]_vars => PortalInv'
<1> SUFFICES ASSUME Inv, PortalOnly, RunsAlone, PortalInv, [Next]_vars, alone', desk' # "q3"
             PROVE  \A t \in Current' : PortalTables(t)' /\ PortalTask(t)'
    BY DEF PortalInv
<1>1. ASSUME NEW r \in Requests, Start(r) PROVE \A t \in Current' : PortalTables(t)' /\ PortalTask(t)'
  <2>1. PICK d, t : BeginAt(r, d, t) /\ t.todo # <<>> /\ Began(d, t) /\ t \in Task
      BY <1>1, StartBegan
  <2>2. alone /\ Current = {Resting} /\ Current' = {t} /\ d # "q3" /\ desk # "q3"
      BY <2>1, CurrentStart DEF BeginAt, Began
  <2>3. UNCHANGED <<rounds, nrounds, slots, stage, logged>>
      BY <2>1 DEF BeginAt
  <2>4. RowsFit /\ Fits(stage, logged)
    <3>1. PortalTables(Resting) /\ PlainList(Resting.todo)
        BY <2>2, RestingType DEF PortalInv, PlainList
    <3> QED
        BY <3>1, Plain DEF PortalTables
  <2>5. PortalTables(t) /\ PortalTask(t)
      BY <2>1, <2>2, <2>4, PortalBegins DEF Began
  <2>6. PortalTables(t)' /\ PortalTask(t)'
      BY <2>3, <2>5 DEF PortalTables, PortalTask, RowsFit, Fits, BackFrom
  <2> QED
      BY <2>2, <2>6
<1>2. ASSUME NEW r \in Requests, Step(r) PROVE \A t \in Current' : PortalTables(t)' /\ PortalTask(t)'
  <2>1. PICK t : t = task[r]
      OBVIOUS
  <2>2. PICK x \in Task : task' = [task EXCEPT ![r] = x] /\ Moves(t, x)
      BY <1>2, <2>1, StepMoves
  <2>3. alone /\ Current = {t} /\ Current' = {x} /\ desk # "q3" /\ t.todo # <<>>
      BY <1>2, <2>1, <2>2, StepMoves, ListOf, CurrentStep DEF Moves
  <2>4. t \in Task /\ t.todo \in UnansweredLists /\ PortalTables(t) /\ PortalTask(t)
      BY <2>1, <2>3 DEF PortalInv, Inv, PortalOnly
  <2>5. PortalTables(x)' /\ PortalTask(x)'
      BY <1>2, <2>1, <2>2, <2>4, PortalStep
  <2> QED
      BY <2>3, <2>5
<1>3. CASE Tick \/ UNCHANGED vars
  <2>1. UNCHANGED <<rounds, nrounds, slots, stage, logged, task, alone, desk>>
      BY <1>3 DEF Tick, vars
  <2>2. ASSUME NEW t, PortalTables(t), PortalTask(t) PROVE PortalTables(t)' /\ PortalTask(t)'
      BY <2>1, <2>2 DEF PortalTables, PortalTask, RowsFit, Fits, BackFrom
  <2>3. Current' = Current /\ \A t \in Current : PortalTables(t) /\ PortalTask(t)
      BY <2>1, CurrentStays DEF PortalInv
  <2> QED
      BY <2>2, <2>3
<1>4. CASE Restart
    BY <1>4 DEF Restart
<1> QED
    BY <1>1, <1>2, <1>3, <1>4 DEF Next

\* While handlers run one at a time and the company answers in its portal, the status says
\* rejected, selected or on hold only as the newest round's result does, an undone rejection
\* takes its result back with it, and a round without an answer is open unless Q3 closed it:
\* results, their next rounds, new slots, undos and Q3's confirmations in any order
\* (PortalTables, PortalTask).
THEOREM PortalStatusesAgree == Spec => []PortalAgrees
<1>1. Inv /\ PortalInv => PortalAgrees
  <2> SUFFICES ASSUME PortalInv, alone, Quiet, desk = "portal"
               PROVE  /\ stage = "REJECTED" <=> rounds[nrounds].result = "Failed"
                      /\ stage = "SELECTED" <=> rounds[nrounds].result = "Passed"
                      /\ stage = "ON_HOLD" => rounds[nrounds].result = "Hold"
                      /\ (stage \notin {"REJECTED", "SELECTED"} /\ rounds[nrounds].status = "Completed")
                             => stage = "INTERVIEW_ATTENDED"
      BY DEF PortalAgrees
  <2>1. PortalTables(Resting) /\ PlainList(Resting.todo)
      BY RestingType DEF PortalInv, Current, PlainList
  <2>2. Fits(stage, logged)
      BY <2>1, Plain DEF PortalTables
  <2> QED
      BY <2>2 DEF Fits, FitsRow
<1>2. Inv /\ PortalOnly /\ RunsAlone /\ PortalInv /\ [Next]_vars => Inv' /\ PortalOnly' /\ RunsAlone' /\ PortalInv'
    BY NextKeepsInv, PortalOnlyNext, AloneNext, PortalNext
<1>3. Init => Inv /\ PortalOnly /\ RunsAlone /\ PortalInv
    BY InitInv, PortalOnlyInit, AloneInit, PortalInit
<1> QED
    BY <1>1, <1>2, <1>3, PTL DEF Spec
=============================================================================
