------------------------ MODULE InterviewsDeskProofs ------------------------
(***************************************************************************)
(* Q3's interview desk under every interleaving of its handlers and every  *)
(* restart, as long as the company does not answer in its own portal: the  *)
(* invites that go out, and the rounds as a ladder (HiringLadder.tla).     *)
(***************************************************************************)
EXTENDS InterviewsProofs, SequenceTheorems

\* A confirmed round's invites are still to be sent.
InviteLists == {<<"select", "stage", "invite">>, <<"stage", "invite">>, <<"invite">>}
Owing(i) == {r \in Requests : task[r].todo \in InviteLists /\ task[r].round = i}

\* Until the portal answers only the desk's lists are being executed.
DeskOnly == desk # "portal" => \A r \in Requests : task[r].todo \in DeskLists \union {<<>>}

\* A release pays for the next invites: those sent, those owed and those a confirm may
\* still claim.
Paid(i) ==
    /\ IsFiniteSet(Owing(i))
    /\ IF rounds[i].status \in Schedulable
       THEN rounds[i].invites + Cardinality(Owing(i)) + 1 <= rounds[i].releases + 1
       ELSE rounds[i].invites + Cardinality(Owing(i)) <= rounds[i].releases + 1
InvitesPaid == desk # "portal" => \A i \in 1 .. nrounds : Paid(i)

\* Every round but the newest was cleared; a next round or a hire that is still to be
\* written is the consequence of the newest round's decision, and one handler's only.
Rungs ==
    \A i \in 1 .. nrounds :
        /\ rounds[i].number = i
        /\ i < nrounds => rounds[i].decision \in {"NextRound", "FinalRound"}
Backed(t) ==
    /\ t.todo \in NextLists => t.round = nrounds /\ rounds[nrounds].decision = t.decision
    /\ t.todo \in HireLists => t.round = nrounds /\ rounds[nrounds].decision = "Selected"
OneOpens == \A q, r \in Requests : (task[q].todo \in NextLists /\ task[r].todo \in NextLists) => q = r
LadderInv == desk # "portal" => Rungs /\ (\A r \in Requests : Backed(task[r])) /\ OneOpens

-----------------------------------------------------------------------------
(* Lists and steps of the desk.                                            *)

LEMMA DeskList ==
    ASSUME NEW l \in DeskLists
    PROVE  /\ l \in Lists /\ l # <<>>
           /\ Head(l) \notin {"clear", "offer", "unschedule", "look", "result", "nextRound", "find", "reopen"}
           /\ Head(l) = "stage" => l \in StageLists \union {<<"stage", "invite">>}
           /\ Tail(l) \in DeskLists \union {<<>>}
<1>1. l \in Lists /\ l # <<>>
    BY ListOf DEF Lists
<1>2. Head(l) \notin {"clear", "offer", "unschedule", "look", "result", "nextRound", "find", "reopen"}
  <2>1. CASE l \in OneLists \union BookLists \union {<<"mail">>}
      BY <2>1 DEF OneLists, BookLists
  <2>2. CASE l \notin OneLists \union BookLists \union {<<"mail">>}
      BY <2>2, HeadsAre DEF DeskLists
  <2> QED
      BY <2>1, <2>2
<1>3. l # <<"stage", "find", "reopen">>
  <2>1. /\ Head(<<"stage", "find", "reopen">>) = "stage"
        /\ Tail(<<"stage", "find", "reopen">>) = <<"find", "reopen">> /\ Head(<<"find", "reopen">>) = "find"
      OBVIOUS
  <2>2. \A m \in StageLists \union BookLists : Head(m) = "stage" => Tail(m) = <<>> \/ Head(Tail(m)) # "find"
      BY DEF StageLists, BookLists
  <2>3. \A m \in OneLists \union {<<"mail">>} : Head(m) # "stage"
      BY DEF OneLists
  <2>4. <<"find", "reopen">> # <<>>
      OBVIOUS
  <2> QED
      BY <2>1, <2>2, <2>3, <2>4, HeadsAre DEF DeskLists
<1>4. Head(l) = "stage" => l \in StageLists \union {<<"stage", "invite">>}
    BY <1>1, <1>3, ListOf
<1>5. Tail(l) \in DeskLists \union {<<>>}
  <2>1. /\ <<"select", "stage", "invite">> \in DeskLists /\ <<"stage", "invite">> \in DeskLists
        /\ <<"invite">> \in DeskLists /\ <<"mail">> \in DeskLists
        /\ <<"stage">> \in DeskLists /\ <<"stage", "mail">> \in DeskLists
      BY DEF DeskLists, BookLists, StageLists
  <2>2. NextLists \union HoldLists \union HireLists \union StageLists \union LiftLists \subseteq DeskLists
      BY DEF DeskLists
  <2>3. Head(l) = "stage" => Tail(l) # <<"find", "reopen">>
    <3>1. \A m \in StageLists : Tail(m) = <<>> \/ Head(Tail(m)) # "find"
        BY DEF StageLists
    <3>2. /\ Tail(<<"stage", "invite">>) = <<"invite">> /\ Head(<<"invite">>) = "invite"
          /\ Head(<<"find", "reopen">>) = "find" /\ <<"find", "reopen">> # <<>>
        OBVIOUS
    <3> QED
        BY <1>4, <3>1, <3>2
  <2>4. Head(l) \in Statements
      BY <1>1, ListOf
  <2>5. CASE Head(l) \in {"slots", "markUnavailable", "markAvailable", "joined", "unjoined", "mail", "invite"}
      BY <1>1, <2>5, TailOf
  <2>6. CASE Head(l) \in {"claimSlot", "select", "release", "complete", "hold", "liftHold", "hire"}
      BY <1>1, <2>1, <2>6, TailOf
  <2>7. CASE Head(l) \in {"decide", "next", "stage"}
      BY <1>1, <2>1, <2>2, <2>3, <2>7, TailOf
  <2> QED
      BY <1>2, <2>4, <2>5, <2>6, <2>7 DEF Statements
<1> QED
    BY <1>1, <1>2, <1>4, <1>5

\* A handler of the desk only ever executes the desk's statements.
LEMMA DeskStep ==
    ASSUME NEW r \in Requests, task[r].todo \in DeskLists, Step(r)
    PROVE  \/ ReplaceSlots(r) \/ MarkSlot(r) \/ ClaimSlot(r) \/ SelectSlot(r) \/ SendInvites(r) \/ Release(r)
           \/ Complete(r) \/ Join(r) \/ Unjoin(r) \/ ClaimDecision(r) \/ OpenNextRound(r) \/ LiftHold(r)
           \/ Hold(r) \/ Hire(r) \/ Transition(r) \/ SendMail(r)
<1>1. Head(task[r].todo) \notin {"clear", "offer", "unschedule", "look", "result", "nextRound", "find", "reopen"}
    BY DeskList
<1>2. ~ClearSlots(r) /\ ~OfferSlots(r) /\ ~LookAtRound(r) /\ ~FindFailed(r)
    BY <1>1 DEF ClearSlots, OfferSlots, LookAtRound, FindFailed, At
<1>3. ~Unschedule(r) /\ ~RecordResult(r) /\ ~ReopenRound(r) /\ ~CreateRound(r)
    BY <1>1 DEF Unschedule, RecordResult, ReopenRound, CreateRound, Overwrite, OpenRound, At
<1> QED
    BY <1>2, <1>3 DEF Step

\* It goes on to its next statement, or gives up.
Onward(t, x) ==
    /\ x.todo \in DeskLists \union {<<>>}
    /\ x.todo \in {<<>>, Tail(t.todo)}
    /\ x.todo # <<>> => x = [t EXCEPT !.todo = Tail(t.todo)]

LEMMA DeskMoves ==
    ASSUME Inv, NEW r \in Requests, task[r].todo \in DeskLists, Step(r)
    PROVE  desk' = desk /\ \E x \in Task : task' = [task EXCEPT ![r] = x] /\ Onward(task[r], x)
<1>1. PICK t : t = task[r]
    OBVIOUS
<1>2. t \in Task /\ Agrees(t) /\ t.todo \in DeskLists /\ t.todo \in Lists
    BY <1>1, DeskList DEF Inv, TasksAgree
<1>3. Head(t.todo) \notin {"look", "find"}
    BY <1>2, DeskList
<1>4. PICK x : x = Rest(t)
    OBVIOUS
<1>5. /\ x \in Task /\ x.todo = Tail(t.todo)
      /\ x.todo # <<>> => x = [t EXCEPT !.todo = Tail(t.todo)]
    BY <1>2, <1>3, <1>4, RestAgrees
<1>6. Tail(t.todo) \in DeskLists \union {<<>>}
    BY <1>2, DeskList
<1>16. x \in Task /\ Onward(task[r], x)
  <2>1. Onward(t, x)
      BY Zenon, <1>5, <1>6 DEF Onward
  <2> QED
      BY <1>1, <1>5, <2>1
<1>7. CASE Continue(r) /\ desk' = desk
  <2>1. task' = [task EXCEPT ![r] = x]
      BY <1>1, <1>4, <1>7 DEF Continue
  <2> QED
      BY Zenon, <1>16, <1>7, <2>1
<1>8. CASE Abort(r) /\ desk' = desk
  <2>1. task' = [task EXCEPT ![r] = Resting] /\ Resting \in Task /\ Onward(task[r], Resting)
      BY <1>8, RestingType DEF Abort, Onward
  <2> QED
      BY <1>8, <2>1
<1>9. CASE OpenNextRound(r)
  <2>1. /\ At(r, "next") /\ task' = [task EXCEPT ![r] = [task[r] EXCEPT !.todo = Tail(@)]] /\ desk' = desk
      BY <1>9 DEF OpenNextRound, OpenRound
  <2>2. PICK y : y = [t EXCEPT !.todo = Tail(t.todo)]
      OBVIOUS
  <2>3. task' = [task EXCEPT ![r] = y]
      BY <1>1, <2>1, <2>2
  <2>4. Tail(t.todo) \in StageLists
      BY <1>1, <1>2, <2>1, TailOf DEF At
  <2>5. Tail(t.todo) # <<>>
      BY <2>4 DEF StageLists
  <2>6. y = x
      BY <1>4, <2>2, <2>5 DEF Rest
  <2> QED
    <3>1. task' = [task EXCEPT ![r] = x] /\ desk' = desk
        BY <2>1, <2>3, <2>6
    <3> QED
        BY Zenon, <1>16, <3>1
<1>10. ReplaceSlots(r) => Continue(r) /\ desk' = desk
    BY DEF ReplaceSlots, PutSlots
<1>11. MarkSlot(r) => Continue(r) /\ desk' = desk
    BY DEF MarkSlot
<1>12. (ClaimSlot(r) \/ SelectSlot(r) \/ ClaimDecision(r)) => (Continue(r) \/ Abort(r)) /\ desk' = desk
    BY DEF ClaimSlot, SelectSlot, ClaimDecision
<1>13. (SendInvites(r) \/ Complete(r) \/ Join(r) \/ Unjoin(r) \/ SendMail(r)) => Continue(r) /\ desk' = desk
    BY DEF SendInvites, Complete, Join, Unjoin, SendMail, Overwrite
<1>14. (Release(r) \/ Transition(r)) => Continue(r) /\ desk' = desk
    BY DEF Release, Transition
<1>15. (LiftHold(r) \/ Hold(r) \/ Hire(r)) => Continue(r) /\ desk' = desk
    BY DEF LiftHold, Hold, Hire, SetHiring
<1> QED
    BY <1>7, <1>8, <1>9, <1>10, <1>11, <1>12, <1>13, <1>14, <1>15, DeskStep

\* What a handler of the desk may begin with.
FirstLists == {<<"slots">>, <<"markUnavailable">>, <<"markAvailable">>, <<"joined">>, <<"unjoined">>, <<"mail">>,
               <<"claimSlot", "select", "stage", "invite">>, <<"release", "stage">>, <<"complete", "stage">>}
                  \union DecideLists

LEMMA FirstList ==
    ASSUME NEW l \in FirstLists
    PROVE  l \in DeskLists /\ l \notin InviteLists \union NextLists \union HireLists \union {<<>>}
<1>1. l \in DeskLists
    BY DEF FirstLists, DeskLists, OneLists, BookLists
<1>2. Head(l) \notin {"select", "stage", "invite", "next", "hire"}
    BY HeadsAre DEF FirstLists
<1>3. \A m \in InviteLists : Head(m) \in {"select", "stage", "invite"}
    BY DEF InviteLists
<1>4. l # <<>>
    BY <1>1, DeskList
<1> QED
    BY <1>1, <1>2, <1>3, <1>4, HeadsAre

LEMMA DeskStart ==
    ASSUME Inv, NEW r \in Requests, Start(r), desk' # "portal"
    PROVE  desk # "portal" /\ \E t \in Task : BeginAt(r, desk', t) /\ t.todo \in FirstLists
<1>1. ASSUME NEW t \in Task, BeginAt(r, "portal", t) PROVE FALSE
    BY <1>1 DEF BeginAt
<1>2. ASSUME NEW t \in Task, BeginAt(r, "q3", t), desk \in {"none", "q3"}, t.todo \in DecideLists
      PROVE  desk # "portal" /\ BeginAt(r, desk', t) /\ t.todo \in FirstLists
    BY <1>2 DEF BeginAt, FirstLists
<1>3. ASSUME NEW t \in Task, Begin(r, t)
      PROVE  desk # "portal" /\ BeginAt(r, desk', t)
    BY <1>3 DEF Begin, BeginAt
<1>4. ASSUME NEW i \in 1 .. nrounds, NEW times \in SUBSET Times, EditRound(r, i, times)
      PROVE  \E t \in Task : Begin(r, t) /\ t.todo \in FirstLists
  <2>1. <<"slots">> \in FirstLists
      BY DEF FirstLists
  <2> QED
      BY <1>4, <2>1, EditBegins
<1>5. ASSUME NEW i \in 1 .. nrounds, NEW b \in BOOLEAN, Checklist(r, i, b)
      PROVE  \E t \in Task : Begin(r, t) /\ t.todo \in FirstLists
  <2>1. <<"joined">> \in FirstLists /\ <<"unjoined">> \in FirstLists
      BY DEF FirstLists
  <2> QED
      BY <1>5, <2>1, JoinBegins, UnjoinBegins
<1>6. ASSUME NEW i \in 1 .. nrounds, Reschedule(r, i) \/ Conducted(r, i) \/ SendDecisionMail(r, i)
      PROVE  \E t \in Task : Begin(r, t) /\ t.todo \in FirstLists
  <2>1. <<"release", "stage">> \in FirstLists /\ <<"complete", "stage">> \in FirstLists /\ <<"mail">> \in FirstLists
      BY DEF FirstLists
  <2> QED
      BY <1>6, <2>1, RescheduleBegins, ConductedBegins, MailBegins
<1>7. ASSUME NEW i \in 1 .. nrounds, NEW d \in Decisions, NEW b, Decide(r, i, d, b)
      PROVE  \E t \in Task : BeginAt(r, "q3", t) /\ desk \in {"none", "q3"} /\ t.todo \in DecideLists
    BY <1>7, DecideBegins
<1>8. ASSUME NEW i \in 1 .. nrounds,
             \/ \E times \in SUBSET Times : AddSlots(r, i, times)
             \/ \E result \in Results \ {"Pending"}, n \in 0 .. FinalNumber, times \in SUBSET Times :
                    RecordInterviewResult(r, i, result, n, times)
      PROVE  FALSE
  <2>1. \E t \in Task : BeginAt(r, "portal", t)
    <3>1. CASE \E times \in SUBSET Times : AddSlots(r, i, times)
        BY <3>1, OfferBegins
    <3>2. CASE \E result \in Results \ {"Pending"}, n \in 0 .. FinalNumber, times \in SUBSET Times :
                   RecordInterviewResult(r, i, result, n, times)
        BY <3>2, ResultBegins
    <3> QED
        BY <1>8, <3>1, <3>2
  <2> QED
      BY <1>1, <2>1
<1>9. ASSUME NEW s \in SlotIds, (\E b \in BOOLEAN : SetSlotUnavailable(r, s, b)) \/ Confirm(r, s)
      PROVE  \E t \in Task : Begin(r, t) /\ t.todo \in FirstLists
  <2>1. /\ <<"markUnavailable">> \in FirstLists /\ <<"markAvailable">> \in FirstLists
        /\ <<"claimSlot", "select", "stage", "invite">> \in FirstLists
      BY DEF FirstLists
  <2> QED
      BY <1>9, <2>1, AvailabilityBegins, ConfirmBegins
<1>10. ~UndoDecision(r)
    BY <1>1, UndoBegins
<1>11. \/ \E t \in Task : Begin(r, t) /\ t.todo \in FirstLists
       \/ \E t \in Task : BeginAt(r, "q3", t) /\ desk \in {"none", "q3"} /\ t.todo \in DecideLists
    BY <1>4, <1>5, <1>6, <1>7, <1>8, <1>9, <1>10 DEF Start
<1> QED
    BY <1>2, <1>3, <1>11

\* Where a statement rewrites its round, the others stay.
LEMMA Rewritten ==
    ASSUME Inv, NEW r \in Requests, NEW s, At(r, s), s \notin {"stage", "find"}, NEW row, SetRound(r, row)
    PROVE  rounds'[task[r].round] = row /\ \A i \in Ids : i # task[r].round => rounds'[i] = rounds[i]
<1>1. task[r].round \in Ids
    BY RunningRound
<1> QED
    BY <1>1 DEF SetRound, Inv, DataOK

LEMMA StepAt == ASSUME NEW r \in Requests, Step(r) PROVE desk' = desk /\ task[r].todo # <<>>
BY DEF Step, ReplaceSlots, PutSlots, MarkSlot, ClaimSlot, SelectSlot, SendInvites, Release, Complete, Join, Unjoin,
       ClaimDecision, OpenNextRound, LiftHold, Hold, Hire, Transition, SendMail, ClearSlots, OfferSlots, Unschedule,
       LookAtRound, RecordResult, CreateRound, FindFailed, ReopenRound, Overwrite, OpenRound, SetHiring, At

\* No handler makes the desk's lists anything else, and a restart ends them.
LEMMA DeskOnlyInit == Init => DeskOnly
BY RestingType DEF Init, DeskOnly

LEMMA DeskOnlyNext == Inv /\ DeskOnly /\ [Next]_vars => DeskOnly'
<1> SUFFICES ASSUME Inv, DeskOnly, [Next]_vars, desk' # "portal", NEW q \in Requests
             PROVE  task'[q].todo \in DeskLists \union {<<>>}
    BY DEF DeskOnly
<1>1. ASSUME NEW r \in Requests, Start(r) PROVE task'[q].todo \in DeskLists \union {<<>>}
  <2>1. desk # "portal" /\ \E t \in Task : task' = [task EXCEPT ![r] = t] /\ t.todo \in DeskLists
      BY <1>1, DeskStart, FirstList DEF BeginAt
  <2> QED
      BY <2>1 DEF Inv, DeskOnly
<1>2. ASSUME NEW r \in Requests, Step(r) PROVE task'[q].todo \in DeskLists \union {<<>>}
  <2>1. desk # "portal" /\ task[r].todo \in DeskLists
      BY <1>2, StepAt DEF DeskOnly
  <2>2. \E x \in Task : task' = [task EXCEPT ![r] = x] /\ x.todo \in DeskLists \union {<<>>}
      BY <1>2, <2>1, DeskMoves DEF Onward
  <2> QED
      BY <2>1, <2>2 DEF Inv, DeskOnly
<1>3. CASE Tick \/ UNCHANGED vars
    BY <1>3 DEF Tick, vars, DeskOnly
<1>4. CASE Restart
    BY <1>4, RestingType DEF Restart
<1> QED
    BY <1>1, <1>2, <1>3, <1>4 DEF Next

-----------------------------------------------------------------------------
(* Invites.                                                                *)

LEMMA InviteTail ==
    ASSUME NEW l \in DeskLists, Tail(l) \in InviteLists, Head(l) # "claimSlot"
    PROVE  l \in InviteLists /\ Head(l) # "invite"
<1>1. Head(l) \in Statements /\ l \in Lists
    BY DeskList, ListOf
<1>2. /\ \A m \in InviteLists : m # <<>> /\ Head(m) \in {"select", "stage", "invite"}
      /\ <<"stage">> \notin InviteLists /\ <<"stage", "mail">> \notin InviteLists /\ <<"mail">> \notin InviteLists
    BY DEF InviteLists
<1>3. CASE Head(l) \in {"slots", "markUnavailable", "markAvailable", "joined", "unjoined", "mail", "invite"}
    BY <1>1, <1>2, <1>3, TailOf
<1>4. CASE Head(l) \in {"release", "complete", "hire"}
    BY <1>1, <1>2, <1>4, TailOf
<1>5. CASE Head(l) \in {"hold", "liftHold", "decide"}
    BY <1>1, <1>2, <1>5, TailOf, HeadsAre
<1>6. CASE Head(l) = "next"
  <2>1. \A m \in StageLists : m \notin InviteLists
      BY DEF StageLists, InviteLists
  <2> QED
      BY <1>1, <1>6, <2>1, TailOf
<1>7. CASE Head(l) = "stage"
  <2>1. \A m \in StageLists : Tail(m) = <<>> \/ Head(Tail(m)) \in {"mail", "liftHold"}
      BY DEF StageLists
  <2>2. l = <<"stage", "invite">>
      BY <1>2, <1>7, <2>1, DeskList
  <2> QED
      BY <2>2 DEF InviteLists
<1>8. CASE Head(l) = "select"
  <2>1. l = <<"select", "stage", "invite">>
      BY <1>1, <1>8, ListOf
  <2> QED
      BY <2>1 DEF InviteLists
<1> QED
    BY <1>1, <1>3, <1>4, <1>5, <1>6, <1>7, <1>8, DeskList DEF Statements

\* Only a confirmed slot adds to what is owed.
LEMMA OwedLess ==
    ASSUME Inv, NEW r \in Requests, NEW x, task' = [task EXCEPT ![r] = x],
           x.todo \in InviteLists => task[r].todo \in InviteLists /\ x.round = task[r].round,
           NEW i
    PROVE  Owing(i)' \subseteq Owing(i)
BY DEF Inv, Owing

LEMMA DeskOwedLess ==
    ASSUME Inv, NEW r \in Requests, task[r].todo \in DeskLists, NEW x, task' = [task EXCEPT ![r] = x],
           Onward(task[r], x), Head(task[r].todo) # "claimSlot" \/ x.todo = <<>>, NEW i
    PROVE  Owing(i)' \subseteq Owing(i)
<1>1. <<>> \notin InviteLists
    BY DEF InviteLists
<1>2. CASE x.todo = <<>>
    BY <1>1, <1>2, OwedLess
<1>3. CASE x.todo # <<>>
  <2>1. x.todo = Tail(task[r].todo) /\ x = [task[r] EXCEPT !.todo = Tail(task[r].todo)]
      BY <1>3 DEF Onward
  <2>2. x.round = task[r].round
      BY <2>1 DEF Inv, Task
  <2>3. x.todo \in InviteLists => task[r].todo \in InviteLists
      BY <1>3, <2>1, InviteTail
  <2> QED
      BY <2>2, <2>3, OwedLess
<1> QED
    BY <1>2, <1>3

\* A round stays paid for while nothing is owed anew.
LEMMA PaidStays ==
    ASSUME Inv, NEW i \in 1 .. nrounds, Paid(i), Owing(i)' \subseteq Owing(i),
           rounds'[i].invites = rounds[i].invites, rounds'[i].releases = rounds[i].releases,
           rounds'[i].status \in Schedulable => rounds[i].status \in Schedulable
    PROVE  Paid(i)'
<1> DEFINE n == Cardinality(Owing(i))
<1> DEFINE m == Cardinality(Owing(i)')
<1>1. IsFiniteSet(Owing(i)') /\ m <= n /\ m \in Nat /\ n \in Nat
    BY FS_Subset, FS_CardinalityType DEF Paid
<1>2. rounds[i].invites \in Nat /\ rounds[i].releases \in Nat
    BY Counts DEF Inv, DataOK, Round
<1>3. IF rounds[i].status \in Schedulable
      THEN rounds[i].invites + n + 1 <= rounds[i].releases + 1 ELSE rounds[i].invites + n <= rounds[i].releases + 1
    BY DEF Paid
<1> HIDE DEF n, m
<1>4. IF rounds'[i].status \in Schedulable
      THEN rounds'[i].invites + m + 1 <= rounds'[i].releases + 1 ELSE rounds'[i].invites + m <= rounds'[i].releases + 1
    BY <1>1, <1>2, <1>3
<1> QED
    BY <1>1, <1>4 DEF Paid, m

\* Nobody works on a round that does not exist yet.
LEMMA NobodyOwes ==
    ASSUME Inv, NEW i, i \notin 1 .. nrounds
    PROVE  Owing(i) = {}
<1>1. \A l \in InviteLists : l \notin RoundlessLists
    BY DEF InviteLists, RoundlessLists
<1> QED
    BY <1>1 DEF Owing, Inv, TasksAgree, Agrees

\* A statement that writes neither invites, releases nor a status to be scheduled again.
LEMMA InvitesQuietStep ==
    ASSUME Inv, NEW r \in Requests, task[r].todo \in DeskLists, Step(r), \A i \in 1 .. nrounds : Paid(i),
           Head(task[r].todo) # "claimSlot" \/ Abort(r), nrounds' = nrounds,
           \A i \in 1 .. nrounds : /\ rounds'[i].invites = rounds[i].invites
                                   /\ rounds'[i].releases = rounds[i].releases
                                   /\ rounds'[i].status \in Schedulable => rounds[i].status \in Schedulable
    PROVE  \A i \in 1 .. nrounds' : Paid(i)'
<1>1. PICK x \in Task : task' = [task EXCEPT ![r] = x] /\ Onward(task[r], x)
    BY DeskMoves
<1>2. Abort(r) => x.todo = <<>>
    BY <1>1, RestingType DEF Abort, Inv
<1>3. ASSUME NEW i \in 1 .. nrounds PROVE Paid(i)'
  <2>1. Owing(i)' \subseteq Owing(i)
      BY <1>1, <1>2, DeskOwedLess
  <2>2. /\ Paid(i) /\ rounds'[i].invites = rounds[i].invites /\ rounds'[i].releases = rounds[i].releases
        /\ rounds'[i].status \in Schedulable => rounds[i].status \in Schedulable
      OBVIOUS
  <2> QED
      BY <2>1, <2>2, PaidStays
<1> QED
    BY <1>3

LEMMA SendInvitesPaid ==
    ASSUME Inv, NEW r \in Requests, task[r].todo \in DeskLists, Step(r), \A i \in 1 .. nrounds : Paid(i), SendInvites(r)
    PROVE  \A i \in 1 .. nrounds' : Paid(i)'
<1>0. PICK k : k = task[r].round
    OBVIOUS
<1> DEFINE row == [Target(r) EXCEPT !.invites = @ + 1]
<1>1. At(r, "invite") /\ SetRound(r, row) /\ nrounds' = nrounds
    BY DEF SendInvites, Overwrite
<1>2. k \in 1 .. nrounds /\ rounds[k] \in Round /\ Target(r) = rounds[k]
    BY <1>1, <1>0, RunningRound DEF Target
<1>3. rounds'[k] = row /\ \A i \in 1 .. nrounds : i # k => rounds'[i] = rounds[i]
    BY <1>1, <1>0, Rewritten, Counts
<1>4. row.invites = rounds[k].invites + 1 /\ row.releases = rounds[k].releases /\ row.status = rounds[k].status
    BY <1>2 DEF Round
<1>5. task[r].todo = <<"invite">>
    BY <1>1, Running, ListOf
<1>6. PICK x \in Task : task' = [task EXCEPT ![r] = x] /\ Onward(task[r], x)
    BY DeskMoves
<1>7. x.todo = <<>> /\ <<>> \notin InviteLists
    BY <1>5, <1>6 DEF Onward, InviteLists
<1>8. \A i : Owing(i)' \subseteq Owing(i)
    BY <1>6, <1>7, OwedLess
<1>9. Owing(k)' = Owing(k) \ {r} /\ r \in Owing(k)
    BY <1>0, <1>5, <1>6, <1>7 DEF Owing, InviteLists, Inv
<1>10. ASSUME NEW i \in 1 .. nrounds PROVE Paid(i)'
  <2>1. CASE i # k
      BY <1>3, <1>8, <2>1, PaidStays
  <2>2. CASE i = k
    <3> DEFINE n == Cardinality(Owing(k))
    <3>1. IsFiniteSet(Owing(k)) /\ n \in Nat
        BY <1>2, FS_CardinalityType DEF Paid
    <3>2. Cardinality(Owing(k)') = n - 1 /\ IsFiniteSet(Owing(k)')
        BY <1>9, <3>1, FS_RemoveElement
    <3>3. IF rounds[k].status \in Schedulable
          THEN rounds[k].invites + n + 1 <= rounds[k].releases + 1 ELSE rounds[k].invites + n <= rounds[k].releases + 1
        BY <1>2 DEF Paid
    <3>4. rounds[k].invites \in Nat /\ rounds[k].releases \in Nat
        BY <1>2 DEF Round
    <3> HIDE DEF n, row
    <3>5. IF row.status \in Schedulable
          THEN row.invites + (n - 1) + 1 <= row.releases + 1 ELSE row.invites + (n - 1) <= row.releases + 1
        BY <1>4, <3>1, <3>3, <3>4
    <3> QED
        BY <1>3, <2>2, <3>2, <3>5 DEF Paid, n
  <2> QED
      BY <2>1, <2>2
<1> QED
    BY <1>1, <1>10

LEMMA ReleasePaid ==
    ASSUME Inv, NEW r \in Requests, task[r].todo \in DeskLists, Step(r), \A i \in 1 .. nrounds : Paid(i), Release(r)
    PROVE  \A i \in 1 .. nrounds' : Paid(i)'
<1>0. PICK k : k = task[r].round
    OBVIOUS
<1>1. PICK st : /\ st \in Schedulable /\ SetRound(r, [Target(r) EXCEPT !.releases = @ + 1, !.status = st])
                /\ At(r, "release") /\ nrounds' = nrounds
    BY DEF Release, Schedulable
<1> DEFINE row == [Target(r) EXCEPT !.releases = @ + 1, !.status = st]
<1>2. k \in 1 .. nrounds /\ rounds[k] \in Round /\ Target(r) = rounds[k]
    BY <1>1, <1>0, RunningRound DEF Target
<1>3. rounds'[k] = row /\ \A i \in 1 .. nrounds : i # k => rounds'[i] = rounds[i]
    BY <1>1, <1>0, Rewritten, Counts
<1>4. row.releases = rounds[k].releases + 1 /\ row.invites = rounds[k].invites
    BY <1>2 DEF Round
<1>5. PICK x \in Task : task' = [task EXCEPT ![r] = x] /\ Onward(task[r], x)
    BY DeskMoves
<1>6. \A i : Owing(i)' \subseteq Owing(i)
    BY <1>1, <1>5, DeskOwedLess DEF At
<1>7. ASSUME NEW i \in 1 .. nrounds PROVE Paid(i)'
  <2>1. CASE i # k
      BY <1>3, <1>6, <2>1, PaidStays
  <2>2. CASE i = k
    <3> DEFINE n == Cardinality(Owing(k))
    <3> DEFINE m == Cardinality(Owing(k)')
    <3>1. IsFiniteSet(Owing(k)') /\ n \in Nat /\ m \in Nat /\ m <= n
        BY <1>2, <1>6, FS_Subset, FS_CardinalityType DEF Paid
    <3>2. rounds[k].invites + n <= rounds[k].releases + 1
      <4>1. rounds[k].invites + n + 1 <= rounds[k].releases + 1 \/ rounds[k].invites + n <= rounds[k].releases + 1
          BY <1>2 DEF Paid
      <4> QED
          BY <1>2, <3>1, <4>1 DEF Round
    <3>3. rounds[k].invites \in Nat /\ rounds[k].releases \in Nat
        BY <1>2 DEF Round
    <3> HIDE DEF n, m, row
    <3>4. row.invites + m + 1 <= row.releases + 1 /\ row.invites + m <= row.releases + 1
        BY <1>4, <3>1, <3>2, <3>3
    <3> QED
        BY <1>3, <2>2, <3>1, <3>4 DEF Paid, m
  <2> QED
      BY <2>1, <2>2
<1> QED
    BY <1>1, <1>7

LEMMA ClaimSlotPaid ==
    ASSUME Inv, NEW r \in Requests, task[r].todo \in DeskLists, Step(r), \A i \in 1 .. nrounds : Paid(i), ClaimSlot(r),
           Target(r).status \in Schedulable
    PROVE  \A i \in 1 .. nrounds' : Paid(i)'
<1>0. PICK k : k = task[r].round
    OBVIOUS
<1> DEFINE row == [Target(r) EXCEPT !.status = "Scheduled", !.at = task[r].at, !.joined = FALSE]
<1>1. SetRound(r, row) /\ At(r, "claimSlot") /\ nrounds' = nrounds /\ Continue(r)
    BY DEF ClaimSlot
<1>2. k \in 1 .. nrounds /\ rounds[k] \in Round /\ Target(r) = rounds[k]
    BY <1>1, <1>0, RunningRound DEF Target
<1>3. rounds'[k] = row /\ \A i \in 1 .. nrounds : i # k => rounds'[i] = rounds[i]
    BY <1>1, <1>0, Rewritten, Counts
<1>4. row.releases = rounds[k].releases /\ row.invites = rounds[k].invites /\ row.status \notin Schedulable
    BY <1>2 DEF Round, Schedulable
<1>5. task[r].todo = <<"claimSlot", "select", "stage", "invite">>
    BY <1>1, Running, ListOf
<1>6. PICK x : task' = [task EXCEPT ![r] = x] /\ (x.todo \in InviteLists => x.round = k)
  <2>1. PICK y \in Task : task' = [task EXCEPT ![r] = y] /\ Onward(task[r], y)
      BY DeskMoves
  <2>2. y.todo # <<>> => y.round = k
      BY <1>0, <2>1 DEF Onward, Inv, Task
  <2> QED
    <3>1. <<>> \notin InviteLists
        BY DEF InviteLists
    <3> QED
        BY <2>1, <2>2, <3>1
<1>7. task[r].todo \notin InviteLists
    BY <1>5 DEF InviteLists
<1>8. \A i : i # k => Owing(i)' \subseteq Owing(i)
    BY <1>0, <1>6 DEF Owing, Inv
<1>9. Owing(k)' \subseteq Owing(k) \union {r} /\ r \notin Owing(k)
    BY <1>0, <1>6, <1>7 DEF Owing, Inv
<1>10. ASSUME NEW i \in 1 .. nrounds PROVE Paid(i)'
  <2>1. CASE i # k
      BY <1>3, <1>8, <2>1, PaidStays
  <2>2. CASE i = k
    <3> DEFINE n == Cardinality(Owing(k))
    <3> DEFINE m == Cardinality(Owing(k)')
    <3>1. IsFiniteSet(Owing(k)) /\ n \in Nat
        BY <1>2, FS_CardinalityType DEF Paid
    <3>2. IsFiniteSet(Owing(k) \union {r}) /\ Cardinality(Owing(k) \union {r}) = n + 1
        BY <1>9, <3>1, FS_AddElement
    <3>3. IsFiniteSet(Owing(k)') /\ m \in Nat /\ m <= n + 1
        BY <1>9, <3>2, FS_Subset, FS_CardinalityType
    <3>4. rounds[k].invites + n + 1 <= rounds[k].releases + 1
        BY <1>2 DEF Paid
    <3>5. rounds[k].invites \in Nat /\ rounds[k].releases \in Nat
        BY <1>2 DEF Round
    <3> HIDE DEF n, m, row
    <3>6. row.invites + m <= row.releases + 1
        BY <1>4, <3>1, <3>3, <3>4, <3>5
    <3> QED
        BY <1>3, <1>4, <2>2, <3>3, <3>6 DEF Paid, m
  <2> QED
      BY <2>1, <2>2
<1> QED
    BY <1>1, <1>10

LEMMA OpenNextPaid ==
    ASSUME Inv, NEW r \in Requests, task[r].todo \in DeskLists, Step(r), \A i \in 1 .. nrounds : Paid(i), OpenNextRound(r)
    PROVE  \A i \in 1 .. nrounds' : Paid(i)'
<1>1. /\ At(r, "next") /\ nrounds < MaxRounds /\ nrounds' = nrounds + 1
      /\ \E n, final : rounds' = [rounds EXCEPT ![nrounds + 1] = NewRound(n, final)]
    BY DEF OpenNextRound, OpenRound
<1>0. PICK j : j = nrounds + 1
    OBVIOUS
<1>2. PICK row : rounds' = [rounds EXCEPT ![j] = row] /\ row.invites = 0 /\ row.releases = 0
  <2>1. PICK n, final : rounds' = [rounds EXCEPT ![j] = NewRound(n, final)]
      BY <1>0, <1>1
  <2>2. NewRound(n, final).invites = 0 /\ NewRound(n, final).releases = 0
      BY DEF NewRound
  <2> QED
      BY <2>1, <2>2
<1>3. nrounds \in Nat /\ j \in Ids /\ j = nrounds + 1 /\ 1 .. nrounds' = 1 .. nrounds \union {j}
    BY <1>0, <1>1, Counts DEF Ids
<1>4. PICK x \in Task : task' = [task EXCEPT ![r] = x] /\ Onward(task[r], x)
    BY DeskMoves
<1>5. \A i : Owing(i)' \subseteq Owing(i)
    BY <1>1, <1>4, DeskOwedLess DEF At
<1>6. ASSUME NEW i \in 1 .. nrounds PROVE Paid(i)'
  <2>1. rounds'[i] = rounds[i]
      BY <1>2, <1>3 DEF Inv, DataOK, Ids
  <2> QED
      BY <1>5, <2>1, PaidStays
<1>7. Paid(j)'
  <2>1. rounds'[j] = row
      BY <1>2, <1>3 DEF Inv, DataOK
  <2>2. Owing(j) = {}
      BY <1>3, NobodyOwes
  <2>3. Owing(j)' = {}
      BY <2>2, <1>5
  <2>4. IsFiniteSet(Owing(j)') /\ Cardinality(Owing(j)') = 0
      BY <2>3, FS_EmptySet
  <2> QED
      BY <1>2, <2>1, <2>4 DEF Paid
<1> QED
    BY <1>3, <1>6, <1>7

LEMMA StepPaid ==
    ASSUME Inv, NEW r \in Requests, task[r].todo \in DeskLists, Step(r), \A i \in 1 .. nrounds : Paid(i)
    PROVE  \A i \in 1 .. nrounds' : Paid(i)'
<1>1. CASE rounds' = rounds /\ nrounds' = nrounds /\ (Head(task[r].todo) # "claimSlot" \/ Abort(r))
    BY <1>1, InvitesQuietStep
<1>2. ASSUME NEW s, At(r, s), s \notin {"stage", "find", "claimSlot"}, NEW row, SetRound(r, row), nrounds' = nrounds,
             row.invites = Target(r).invites, row.releases = Target(r).releases,
             row.status \in Schedulable => Target(r).status \in Schedulable
      PROVE  \A i \in 1 .. nrounds' : Paid(i)'
  <2>1. rounds'[task[r].round] = row /\ \A i \in 1 .. nrounds : i # task[r].round => rounds'[i] = rounds[i]
      BY <1>2, Rewritten, Counts
  <2>2. ASSUME NEW i \in 1 .. nrounds
        PROVE  /\ rounds'[i].invites = rounds[i].invites /\ rounds'[i].releases = rounds[i].releases
               /\ rounds'[i].status \in Schedulable => rounds[i].status \in Schedulable
      BY <1>2, <2>1 DEF Target
  <2>3. Head(task[r].todo) # "claimSlot"
      BY <1>2 DEF At
  <2> QED
      BY <1>2, <2>2, <2>3, InvitesQuietStep
<1>3. CASE ReplaceSlots(r) \/ MarkSlot(r) \/ SelectSlot(r) \/ Transition(r)
    BY <1>1, <1>3 DEF ReplaceSlots, PutSlots, MarkSlot, SelectSlot, Transition, At
<1>4. CASE LiftHold(r) \/ Hold(r) \/ Hire(r)
    BY <1>1, <1>4 DEF LiftHold, Hold, Hire, SetHiring, At
<1>5. CASE Complete(r) \/ Join(r) \/ Unjoin(r) \/ SendMail(r)
  <2>1. PICK s, row :
            /\ Overwrite(r, s, row) /\ s \in {"complete", "joined", "unjoined", "mail"}
            /\ \/ row = [Target(r) EXCEPT !.status = "Completed"]
               \/ row = [Target(r) EXCEPT !.joined = TRUE]
               \/ row = [Target(r) EXCEPT !.joined = FALSE]
               \/ row = [Target(r) EXCEPT !.mailed = task[r].decision]
      BY <1>5 DEF Complete, Join, Unjoin, SendMail
  <2>2. At(r, s) /\ SetRound(r, row) /\ nrounds' = nrounds
      BY <2>1 DEF Overwrite
  <2>3. Target(r) \in Round
      BY <2>1, <2>2, RunningRound DEF Target
  <2>4. /\ row.invites = Target(r).invites /\ row.releases = Target(r).releases
        /\ row.status \in Schedulable => Target(r).status \in Schedulable
      BY <2>1, <2>3 DEF Round, Schedulable
  <2> QED
      BY <1>2, <2>1, <2>2, <2>4
<1>6. CASE ClaimDecision(r)
  <2>1. At(r, "decide") /\ nrounds' = nrounds
      BY <1>6 DEF ClaimDecision
  <2>2. CASE Target(r).decision \in {"None", "Hold"}
    <3> DEFINE row == [Target(r) EXCEPT !.decision = task[r].decision, !.mailed = "None",
                                        !.result = ResultFor(task[r].decision)]
    <3>1. SetRound(r, row)
        BY <1>6, <2>2 DEF ClaimDecision
    <3>2. Target(r) \in Round
        BY <2>1, RunningRound DEF Target
    <3>3. row.invites = Target(r).invites /\ row.releases = Target(r).releases /\ row.status = Target(r).status
        BY <3>2 DEF Round
    <3> HIDE DEF row
    <3> QED
        BY <1>2, <2>1, <3>1, <3>3
  <2>3. CASE ~(Target(r).decision \in {"None", "Hold"})
      BY <1>1, <1>6, <2>1, <2>3 DEF ClaimDecision
  <2> QED
      BY <2>2, <2>3
<1>7. CASE ClaimSlot(r)
  <2>1. CASE Target(r).status \in Schedulable
      BY <1>7, <2>1, ClaimSlotPaid
  <2>2. CASE ~(Target(r).status \in Schedulable)
      BY <1>1, <1>7, <2>2 DEF ClaimSlot
  <2> QED
      BY <2>1, <2>2
<1>8. CASE SendInvites(r) \/ Release(r) \/ OpenNextRound(r)
    BY <1>8, SendInvitesPaid, ReleasePaid, OpenNextPaid
<1> QED
    BY <1>3, <1>4, <1>5, <1>6, <1>7, <1>8, DeskStep

LEMMA PaidInit == Init => InvitesPaid
<1> SUFFICES ASSUME Init, NEW i \in 1 .. nrounds PROVE Paid(i)
    BY DEF InvitesPaid
<1>1. i = 1 /\ 1 \in Ids
    BY InterviewsAssumption DEF Init, Ids
<1>2. Owing(i) = {}
    BY RestingType DEF Init, Owing, InviteLists
<1>3. rounds[i] = NewRound(1, FALSE)
    BY <1>1 DEF Init
<1>4. rounds[i].invites = 0 /\ rounds[i].releases = 0
    BY <1>3 DEF NewRound
<1> QED
    BY <1>2, <1>4, FS_EmptySet DEF Paid

LEMMA PaidNext == Inv /\ DeskOnly /\ InvitesPaid /\ [Next]_vars => InvitesPaid'
<1> SUFFICES ASSUME Inv, DeskOnly, InvitesPaid, [Next]_vars, desk' # "portal", NEW i \in 1 .. nrounds'
             PROVE  Paid(i)'
    BY DEF InvitesPaid
<1>1. ASSUME NEW r \in Requests, Start(r) PROVE Paid(i)'
  <2>1. PICK t \in Task : BeginAt(r, desk', t) /\ t.todo \in FirstLists /\ desk # "portal"
      BY <1>1, DeskStart
  <2>2. task' = [task EXCEPT ![r] = t] /\ rounds' = rounds /\ nrounds' = nrounds
      BY <2>1 DEF BeginAt
  <2>3. Owing(i)' \subseteq Owing(i)
      BY <2>1, <2>2, FirstList, OwedLess
  <2> QED
      BY <2>1, <2>2, <2>3, PaidStays DEF InvitesPaid
<1>2. ASSUME NEW r \in Requests, Step(r) PROVE Paid(i)'
  <2>1. desk # "portal" /\ task[r].todo \in DeskLists
      BY <1>2, StepAt DEF DeskOnly
  <2> QED
      BY <1>2, <2>1, StepPaid DEF InvitesPaid
<1>3. CASE Tick \/ UNCHANGED vars
  <2>1. task' = task /\ rounds' = rounds /\ nrounds' = nrounds /\ desk' = desk
      BY <1>3 DEF Tick, vars
  <2>2. Owing(i)' \subseteq Owing(i)
      BY <2>1 DEF Owing
  <2> QED
      BY <2>1, <2>2, PaidStays DEF InvitesPaid
<1>4. CASE Restart
  <2>1. task' = [r \in Requests |-> Resting] /\ rounds' = rounds /\ nrounds' = nrounds /\ desk' = desk
      BY <1>4 DEF Restart
  <2>2. Owing(i)' \subseteq Owing(i)
      BY <2>1, RestingType DEF Owing, InviteLists
  <2> QED
      BY <2>1, <2>2, PaidStays DEF InvitesPaid
<1> QED
    BY <1>1, <1>2, <1>3, <1>4 DEF Next

LEMMA PaidInvites == Inv /\ InvitesPaid /\ desk # "portal" => InvitesOncePerSchedule
<1> SUFFICES ASSUME Inv, InvitesPaid, desk # "portal", NEW i \in Ids
             PROVE  rounds[i].invites <= rounds[i].releases + 1
    BY DEF InvitesOncePerSchedule
<1>1. CASE i \in 1 .. nrounds
  <2>1. Cardinality(Owing(i)) \in Nat
      BY <1>1, FS_CardinalityType DEF InvitesPaid, Paid
  <2>2. rounds[i].invites \in Nat /\ rounds[i].releases \in Nat
      BY DEF Inv, DataOK, Round
  <2> QED
      BY <1>1, <2>1, <2>2 DEF InvitesPaid, Paid
<1>2. CASE i \notin 1 .. nrounds
  <2>1. ~(i <= nrounds)
      BY <1>2, Counts DEF Ids
  <2>2. rounds[i] = NoRound
      BY <2>1 DEF Inv, RowsOK
  <2>3. rounds[i].invites = 0 /\ rounds[i].releases = 0
    <3>1. NoRound.invites = 0 /\ NoRound.releases = 0
        BY DEF NoRound, NewRound
    <3> QED
        BY <2>2, <3>1
  <2> QED
      BY <2>3
<1> QED
    BY <1>1, <1>2

\* A handler that begins writes to no table yet.
LEMMA StartsQuiet ==
    ASSUME NEW r \in Requests, Start(r)
    PROVE  UNCHANGED <<rounds, nrounds, slots, nslots, hiring, stage, logged, now>>
<1>1. ASSUME NEW d, NEW t, BeginAt(r, d, t)
      PROVE  UNCHANGED <<rounds, nrounds, slots, nslots, hiring, stage, logged, now>>
    BY <1>1 DEF BeginAt
<1>2. ASSUME NEW i,
             \/ \E times : EditRound(r, i, times) \/ AddSlots(r, i, times)
             \/ \E b : Checklist(r, i, b)
             \/ Reschedule(r, i) \/ Conducted(r, i) \/ SendDecisionMail(r, i)
      PROVE  \E d, t : BeginAt(r, d, t)
    BY <1>2 DEF EditRound, AddSlots, Checklist, Reschedule, Conducted, SendDecisionMail, Begin
<1>3. ASSUME NEW i, NEW d, NEW b, Decide(r, i, d, b) PROVE \E e, t : BeginAt(r, e, t)
    BY <1>3 DEF Decide
<1>4. ASSUME NEW i, NEW result, NEW n, NEW times, RecordInterviewResult(r, i, result, n, times)
      PROVE  \E d, t : BeginAt(r, d, t)
    BY <1>4 DEF RecordInterviewResult
<1>5. ASSUME NEW s, (\E b : SetSlotUnavailable(r, s, b)) \/ Confirm(r, s) PROVE \E d, t : BeginAt(r, d, t)
    BY <1>5 DEF SetSlotUnavailable, Confirm, Begin
<1>6. ASSUME UndoDecision(r) PROVE \E d, t : BeginAt(r, d, t)
    BY <1>6 DEF UndoDecision
<1>7. \E d, t : BeginAt(r, d, t)
    BY <1>2, <1>3, <1>4, <1>5, <1>6 DEF Start
<1> QED
    BY <1>1, <1>7

\* The portal's handlers are what makes it the one that answers.
LEMMA NoPortalInit == Init => desk # "portal"
BY DEF Init

LEMMA NoPortalNext == Handlers \subseteq Q3Endpoints /\ desk # "portal" /\ [Next]_vars => desk' # "portal"
<1> SUFFICES ASSUME Handlers \subseteq Q3Endpoints, desk # "portal", [Next]_vars PROVE desk' # "portal"
    OBVIOUS
<1>1. "offer" \notin Handlers /\ "result" \notin Handlers /\ "undo" \notin Handlers
    BY DEF Q3Endpoints
<1>2. ASSUME NEW r \in Requests, Start(r) PROVE desk' # "portal"
    BY <1>1, <1>2 DEF Start, EditRound, Checklist, Decide, Reschedule, Conducted, SendDecisionMail,
                      SetSlotUnavailable, Confirm, Begin, BeginAt
<1>3. ASSUME NEW r \in Requests, Step(r) PROVE desk' # "portal"
    BY <1>3, StepAt
<1>4. CASE Tick \/ Restart \/ UNCHANGED vars
    BY <1>4 DEF Tick, Restart, vars
<1> QED
    BY <1>2, <1>3, <1>4 DEF Next

\* "A double click cannot send the invites twice": however the desk's confirms, edits,
\* reschedules, decisions and crashes interleave, and however many users there are, a
\* round's invites go out at most once for every time it was free.
THEOREM InvitesAreOncePerSchedule ==
    ASSUME Handlers \subseteq Q3Endpoints
    PROVE  Spec => []InvitesOncePerSchedule
<1> DEFINE I == Inv /\ DeskOnly /\ InvitesPaid /\ desk # "portal"
<1>1. Init => I
    BY InitInv, DeskOnlyInit, PaidInit, NoPortalInit
<1>2. I /\ [Next]_vars => I'
    BY NextKeepsInv, DeskOnlyNext, PaidNext, NoPortalNext
<1>3. I => InvitesOncePerSchedule
    BY PaidInvites
<1> HIDE DEF I
<1> QED
    BY <1>1, <1>2, <1>3, PTL DEF Spec

-----------------------------------------------------------------------------
(* The ladder.                                                             *)

\* What HiringLadder sees of the rounds, and their numbers, stay.
SameRungs ==
    /\ nrounds' = nrounds
    /\ \A i \in 1 .. nrounds : /\ rounds'[i].decision = rounds[i].decision
                               /\ rounds'[i].number = rounds[i].number
                               /\ rounds'[i].final = rounds[i].final
Claims(r) == ClaimDecision(r) /\ Target(r).decision \in {"None", "Hold"}

LEMMA RungsMove ==
    ASSUME Inv, NEW r \in Requests, task[r].todo \in DeskLists, Step(r)
    PROVE  OpenNextRound(r) \/ Claims(r) \/ (SameRungs /\ (ClaimDecision(r) => Abort(r)))
<1>1. CASE rounds' = rounds /\ nrounds' = nrounds /\ (ClaimDecision(r) => Abort(r))
    BY <1>1 DEF SameRungs
<1>2. ASSUME NEW s, At(r, s), s \notin {"stage", "find", "decide"}, NEW row, SetRound(r, row), nrounds' = nrounds,
             row.decision = Target(r).decision, row.number = Target(r).number, row.final = Target(r).final
      PROVE  SameRungs /\ ~ClaimDecision(r)
  <2>1. rounds'[task[r].round] = row /\ \A i \in 1 .. nrounds : i # task[r].round => rounds'[i] = rounds[i]
      BY <1>2, Rewritten, Counts
  <2>2. ~ClaimDecision(r)
      BY <1>2 DEF ClaimDecision, At
  <2> QED
      BY <1>2, <2>1, <2>2 DEF Target, SameRungs
<1>3. CASE ReplaceSlots(r) \/ MarkSlot(r) \/ SelectSlot(r) \/ Transition(r)
    BY <1>1, <1>3 DEF ReplaceSlots, PutSlots, MarkSlot, SelectSlot, Transition, ClaimDecision, At
<1>4. CASE LiftHold(r) \/ Hold(r) \/ Hire(r)
    BY <1>1, <1>4 DEF LiftHold, Hold, Hire, SetHiring, ClaimDecision, At
<1>5. CASE SendInvites(r) \/ Complete(r) \/ Join(r) \/ Unjoin(r) \/ SendMail(r)
  <2>1. PICK s, row :
            /\ Overwrite(r, s, row) /\ s \in {"invite", "complete", "joined", "unjoined", "mail"}
            /\ \/ row = [Target(r) EXCEPT !.invites = @ + 1]
               \/ row = [Target(r) EXCEPT !.status = "Completed"]
               \/ row = [Target(r) EXCEPT !.joined = TRUE]
               \/ row = [Target(r) EXCEPT !.joined = FALSE]
               \/ row = [Target(r) EXCEPT !.mailed = task[r].decision]
      BY <1>5 DEF SendInvites, Complete, Join, Unjoin, SendMail
  <2>2. At(r, s) /\ SetRound(r, row) /\ nrounds' = nrounds
      BY <2>1 DEF Overwrite
  <2>3. Target(r) \in Round
      BY <2>1, <2>2, RunningRound DEF Target
  <2>4. row.decision = Target(r).decision /\ row.number = Target(r).number /\ row.final = Target(r).final
      BY <2>1, <2>3 DEF Round
  <2> QED
      BY <1>2, <2>1, <2>2, <2>4
<1>6. CASE Release(r)
  <2>1. PICK st : /\ SetRound(r, [Target(r) EXCEPT !.releases = @ + 1, !.status = st])
                  /\ At(r, "release") /\ nrounds' = nrounds
      BY <1>6 DEF Release
  <2> DEFINE row == [Target(r) EXCEPT !.releases = @ + 1, !.status = st]
  <2>2. Target(r) \in Round
      BY <2>1, RunningRound DEF Target
  <2>3. row.decision = Target(r).decision /\ row.number = Target(r).number /\ row.final = Target(r).final
      BY <2>2 DEF Round
  <2> HIDE DEF row
  <2> QED
      BY <1>2, <2>1, <2>3 DEF row
<1>7. CASE ClaimSlot(r)
  <2>1. At(r, "claimSlot") /\ nrounds' = nrounds /\ ~ClaimDecision(r)
      BY <1>7 DEF ClaimSlot, ClaimDecision, At
  <2>2. CASE Target(r).status \in Schedulable
    <3> DEFINE row == [Target(r) EXCEPT !.status = "Scheduled", !.at = task[r].at, !.joined = FALSE]
    <3>1. SetRound(r, row)
        BY <1>7, <2>2 DEF ClaimSlot
    <3>2. Target(r) \in Round
        BY <2>1, RunningRound DEF Target
    <3>3. row.decision = Target(r).decision /\ row.number = Target(r).number /\ row.final = Target(r).final
        BY <3>2 DEF Round
    <3> HIDE DEF row
    <3> QED
        BY <1>2, <2>1, <3>1, <3>3
  <2>3. CASE ~(Target(r).status \in Schedulable)
      BY <1>1, <1>7, <2>1, <2>3 DEF ClaimSlot
  <2> QED
      BY <2>2, <2>3
<1>8. CASE ClaimDecision(r)
    BY <1>1, <1>8 DEF ClaimDecision, Claims
<1> QED
    BY <1>3, <1>4, <1>5, <1>6, <1>7, <1>8, DeskStep

LEMMA DecideIsClaim ==
    ASSUME NEW r \in Requests, task[r].todo \in DeskLists, Step(r), Head(task[r].todo) = "decide"
    PROVE  ClaimDecision(r)
BY DeskStep DEF ReplaceSlots, MarkSlot, ClaimSlot, SelectSlot, SendInvites, Release, Complete, Join, Unjoin,
                OpenNextRound, LiftHold, Hold, Hire, Transition, SendMail, Overwrite, OpenRound, SetHiring, At

\* Nothing new is owed to the ladder.
LEMMA LadderStays ==
    ASSUME Inv, Rungs, \A q \in Requests : Backed(task[q]), OneOpens, SameRungs,
           NEW r \in Requests, NEW x, task' = [task EXCEPT ![r] = x], x.todo \notin NextLists \union HireLists
    PROVE  Rungs' /\ (\A q \in Requests : Backed(task[q]))' /\ OneOpens'
<1>1. Rungs'
    BY DEF SameRungs, Rungs
<1>2. nrounds \in 1 .. nrounds
    BY Counts
<1>3. \A q \in Requests : task'[q] = IF q = r THEN x ELSE task[q]
    BY DEF Inv
<1>4. ASSUME NEW q \in Requests PROVE Backed(task[q])'
  <2>1. CASE q = r
      BY <1>3, <2>1 DEF Backed
  <2>2. CASE q # r
      BY <1>2, <1>3, <2>2 DEF Backed, SameRungs
  <2> QED
      BY <2>1, <2>2
<1>5. OneOpens'
    BY <1>3 DEF OneOpens
<1> QED
    BY <1>1, <1>4, <1>5

\* Where a decision is claimed, it is the newest round's and nothing is pending.
LEMMA ClaimsNewest ==
    ASSUME Inv, Rungs, \A q \in Requests : Backed(task[q]), NEW r \in Requests, Claims(r)
    PROVE  /\ task[r].round = nrounds /\ nrounds \in 1 .. nrounds /\ nrounds \in Ids
           /\ rounds[nrounds] \in Round /\ rounds[nrounds].decision \in {"None", "Hold"}
           /\ \A q \in Requests : task[q].todo \notin NextLists \union HireLists
<1>1. At(r, "decide") /\ Target(r).decision \in {"None", "Hold"}
    BY DEF Claims, ClaimDecision
<1>2. task[r].round \in 1 .. nrounds /\ task[r].round \in Ids /\ rounds[task[r].round] \in Round
    BY <1>1, RunningRound
<1>3. ~(task[r].round < nrounds)
    BY <1>1, <1>2 DEF Rungs, Target
<1>4. task[r].round = nrounds
    BY <1>2, <1>3, Counts
<1>5. rounds[nrounds].decision \in {"None", "Hold"}
    BY <1>1, <1>4 DEF Target
<1>6. ASSUME NEW q \in Requests PROVE task[q].todo \notin NextLists \union HireLists
    BY <1>5 DEF Backed, Inv, TasksAgree, Agrees
<1> QED
    BY <1>2, <1>4, <1>5, <1>6

LEMMA ClaimsLadder ==
    ASSUME Inv, Rungs, \A q \in Requests : Backed(task[q]), OneOpens,
           NEW r \in Requests, task[r].todo \in DeskLists, Step(r), Claims(r)
    PROVE  Rungs' /\ (\A q \in Requests : Backed(task[q]))' /\ OneOpens'
<1>0. PICK k : k = nrounds
    OBVIOUS
<1>1. /\ task[r].round = k /\ k \in 1 .. nrounds /\ rounds[k] \in Round /\ k \in Ids
      /\ \A q \in Requests : task[q].todo \notin NextLists \union HireLists
    BY <1>0, ClaimsNewest
<1> DEFINE row == [Target(r) EXCEPT !.decision = task[r].decision, !.mailed = "None",
                                    !.result = ResultFor(task[r].decision)]
<1>2. At(r, "decide") /\ SetRound(r, row) /\ Continue(r) /\ nrounds' = nrounds
    BY DEF Claims, ClaimDecision
<1>3. rounds'[k] = row /\ \A i \in 1 .. nrounds : i # k => rounds'[i] = rounds[i]
    BY <1>1, <1>2, Rewritten, Counts
<1>4. row.decision = task[r].decision /\ row.number = rounds[k].number
    BY <1>1 DEF Round, Target
<1> HIDE DEF row
<1>5. Rungs'
  <2>1. ASSUME NEW i \in 1 .. nrounds
        PROVE  rounds'[i].number = i /\ (i < nrounds => rounds'[i].decision \in {"NextRound", "FinalRound"})
    <3>1. CASE i = k
        BY <1>0, <1>3, <1>4, <3>1, Counts DEF Rungs
    <3>2. CASE i # k
        BY <1>3, <3>2 DEF Rungs
    <3> QED
        BY <3>1, <3>2
  <2> QED
      BY <1>2, <2>1 DEF Rungs
<1>6. PICK x \in Task : task' = [task EXCEPT ![r] = x] /\ Onward(task[r], x)
    BY DeskMoves
<1>7. \A q \in Requests : task'[q] = IF q = r THEN x ELSE task[q]
    BY <1>6 DEF Inv
<1>8. task[r].todo \in DecideLists
    BY <1>2, Running, ListOf
<1>9. x.todo \in NextLists \union HireLists => /\ x.todo = Tail(task[r].todo) /\ x.round = k
                                               /\ x.decision = task[r].decision
  <2>1. <<>> \notin NextLists \union HireLists
      BY DEF NextLists, HireLists
  <2>2. x.todo # <<>> => x.todo = Tail(task[r].todo) /\ x.round = task[r].round /\ x.decision = task[r].decision
      BY <1>6 DEF Onward, Inv, Task
  <2> QED
      BY <1>1, <2>1, <2>2
<1>10. Backed(x)'
  <2>1. x.todo \in HireLists => x.decision = "Selected"
      BY <1>8, <1>9 DEF Inv, TasksAgree, Agrees
  <2> QED
      BY <1>0, <1>2, <1>3, <1>4, <1>9, <2>1 DEF Backed
<1>11. ASSUME NEW q \in Requests PROVE Backed(task[q])'
  <2>1. CASE q = r
      BY <1>7, <1>10, <2>1 DEF Backed
  <2>2. CASE q # r
      BY <1>1, <1>7, <2>2 DEF Backed
  <2> QED
      BY <2>1, <2>2
<1>12. OneOpens'
    BY <1>1, <1>7 DEF OneOpens
<1> QED
    BY <1>5, <1>11, <1>12

\* The one who opens the next round does it for the newest one.
LEMMA OpensNewest ==
    ASSUME Inv, Rungs, \A q \in Requests : Backed(task[q]), OneOpens, NEW r \in Requests, OpenNextRound(r)
    PROVE  /\ task[r].round = nrounds /\ task[r].todo \in NextLists
           /\ rounds[nrounds].decision = task[r].decision /\ task[r].decision \in {"NextRound", "FinalRound"}
           /\ \A q \in Requests : task[q].todo \notin HireLists /\ (q # r => task[q].todo \notin NextLists)
<1>1. At(r, "next")
    BY DEF OpenNextRound, OpenRound
<1>2. task[r].todo \in NextLists
    BY <1>1, Running, ListOf
<1>3. task[r].round = nrounds /\ rounds[nrounds].decision = task[r].decision
    BY <1>2 DEF Backed
<1>4. task[r].decision \in {"NextRound", "FinalRound"}
    BY <1>1, <1>2, Running DEF Agrees
<1>5. \A q \in Requests : task[q].todo \notin HireLists
    BY <1>3, <1>4 DEF Backed
<1> QED
    BY <1>2, <1>3, <1>4, <1>5 DEF OneOpens

LEMMA OpensLadder ==
    ASSUME Inv, Rungs, \A q \in Requests : Backed(task[q]), OneOpens,
           NEW r \in Requests, task[r].todo \in DeskLists, Step(r), OpenNextRound(r)
    PROVE  Rungs' /\ (\A q \in Requests : Backed(task[q]))' /\ OneOpens'
<1>1. /\ task[r].round = nrounds /\ rounds[nrounds].decision \in {"NextRound", "FinalRound"}
      /\ \A q \in Requests : task[q].todo \notin HireLists /\ (q # r => task[q].todo \notin NextLists)
    BY OpensNewest
<1>2. PICK final : rounds' = [rounds EXCEPT ![nrounds + 1] = NewRound(rounds[nrounds].number + 1, final)]
    BY <1>1 DEF OpenNextRound, OpenRound, Target
<1>3. At(r, "next") /\ nrounds' = nrounds + 1 /\ nrounds < MaxRounds
    BY DEF OpenNextRound, OpenRound
<1>4. nrounds \in 1 .. nrounds /\ nrounds \in Nat /\ nrounds + 1 \in Ids
    BY <1>3, Counts DEF Ids
<1>5. PICK row : row = NewRound(rounds[nrounds].number + 1, final)
    OBVIOUS
<1>6. row.number = nrounds + 1
    BY <1>4, <1>5 DEF Rungs, NewRound
<1>7. rounds'[nrounds + 1] = row /\ \A i \in 1 .. nrounds : rounds'[i] = rounds[i]
    BY <1>2, <1>4, <1>5 DEF Inv, DataOK, Ids
<1>8. Rungs'
  <2>1. ASSUME NEW i \in 1 .. nrounds + 1
        PROVE  rounds'[i].number = i /\ (i < nrounds + 1 => rounds'[i].decision \in {"NextRound", "FinalRound"})
    <3>1. CASE i = nrounds + 1
        BY <1>4, <1>6, <1>7, <3>1
    <3>2. CASE i # nrounds + 1
      <4>1. i \in 1 .. nrounds /\ (i = nrounds \/ i < nrounds)
          BY <1>4, <3>2
      <4> QED
          BY <1>1, <1>7, <4>1 DEF Rungs
    <3> QED
        BY <3>1, <3>2
  <2> QED
      BY <1>3, <2>1 DEF Rungs
<1>9. PICK x \in Task : task' = [task EXCEPT ![r] = x] /\ Onward(task[r], x)
    BY DeskMoves
<1>10. \A q \in Requests : task'[q] = IF q = r THEN x ELSE task[q]
    BY <1>9 DEF Inv
<1>11. x.todo \notin NextLists \union HireLists
  <2>1. Tail(task[r].todo) \in StageLists
      BY <1>3, Running, TailOf
  <2>2. <<>> \notin NextLists \union HireLists
      BY DEF NextLists, HireLists
  <2> QED
      BY <1>9, <2>1, <2>2, HeadsAre DEF Onward
<1>12. \A q \in Requests : task'[q].todo \notin NextLists \union HireLists
    BY <1>1, <1>10, <1>11
<1>13. (\A q \in Requests : Backed(task[q]))' /\ OneOpens'
    BY <1>12 DEF Backed, OneOpens
<1> QED
    BY <1>8, <1>13

LEMMA LadderInit == Init => LadderInv
<1> SUFFICES ASSUME Init PROVE Rungs /\ (\A r \in Requests : Backed(task[r])) /\ OneOpens
    BY DEF LadderInv
<1>1. nrounds = 1 /\ rounds[1].number = 1
  <2>1. NewRound(1, FALSE).number = 1
      BY DEF NewRound
  <2>2. 1 \in Ids
      BY InterviewsAssumption DEF Ids
  <2>3. rounds = [i \in Ids |-> IF i = 1 THEN NewRound(1, FALSE) ELSE NoRound] /\ nrounds = 1
      BY DEF Init
  <2>4. rounds[1] = NewRound(1, FALSE)
      BY <2>2, <2>3
  <2> QED
      BY <2>1, <2>3, <2>4
<1>2. Rungs
  <2>1. \A i \in 1 .. nrounds : i = 1
      BY <1>1
  <2> QED
      BY <1>1, <2>1 DEF Rungs
<1>3. \A r \in Requests : task[r].todo = <<>>
    BY RestingType DEF Init
<1>4. <<>> \notin NextLists \union HireLists
    BY DEF NextLists, HireLists
<1> QED
    BY <1>2, <1>3, <1>4 DEF Backed, OneOpens

LEMMA LadderNext == Inv /\ DeskOnly /\ LadderInv /\ [Next]_vars => LadderInv'
<1> SUFFICES ASSUME Inv, DeskOnly, LadderInv, [Next]_vars, desk' # "portal"
             PROVE  Rungs' /\ (\A q \in Requests : Backed(task[q]))' /\ OneOpens'
    BY DEF LadderInv
<1>0. desk # "portal" => Rungs /\ (\A q \in Requests : Backed(task[q])) /\ OneOpens
    BY DEF LadderInv
<1>1. ASSUME NEW r \in Requests, Start(r)
      PROVE  Rungs' /\ (\A q \in Requests : Backed(task[q]))' /\ OneOpens'
  <2>1. PICK t \in Task : BeginAt(r, desk', t) /\ t.todo \in FirstLists /\ desk # "portal"
      BY <1>1, DeskStart
  <2>2. task' = [task EXCEPT ![r] = t] /\ SameRungs
      BY <2>1 DEF BeginAt, SameRungs
  <2>3. t.todo \notin NextLists \union HireLists
      BY <2>1, FirstList
  <2> QED
      BY <1>0, <2>1, <2>2, <2>3, LadderStays
<1>2. ASSUME NEW r \in Requests, Step(r)
      PROVE  Rungs' /\ (\A q \in Requests : Backed(task[q]))' /\ OneOpens'
  <2>1. desk # "portal" /\ task[r].todo \in DeskLists
      BY <1>2, StepAt DEF DeskOnly
  <2>2. CASE OpenNextRound(r)
      BY <1>0, <1>2, <2>1, <2>2, OpensLadder
  <2>3. CASE Claims(r)
      BY <1>0, <1>2, <2>1, <2>3, ClaimsLadder
  <2>4. CASE SameRungs /\ (ClaimDecision(r) => Abort(r))
    <3>1. PICK x \in Task : task' = [task EXCEPT ![r] = x] /\ Onward(task[r], x)
        BY <1>2, <2>1, DeskMoves
    <3>2. <<>> \notin NextLists \union HireLists
        BY DEF NextLists, HireLists
    <3>3. x.todo \notin NextLists \union HireLists
      <4>1. CASE Abort(r)
          BY <3>1, <3>2, <4>1, RestingType DEF Abort, Inv
      <4>2. CASE ~Abort(r)
        <5>1. Head(task[r].todo) # "decide"
            BY <1>2, <2>1, <2>4, <4>2, DecideIsClaim
        <5> QED
            BY <2>1, <3>1, <3>2, <5>1, DeskList, HeadOfTail, HeadsAre DEF Onward
      <4> QED
          BY <4>1, <4>2
    <3> QED
        BY <1>0, <2>1, <2>4, <3>1, <3>3, LadderStays
  <2> QED
      BY <1>2, <2>1, <2>2, <2>3, <2>4, RungsMove
<1>3. CASE Tick \/ UNCHANGED vars
  <2>1. task' = task /\ rounds' = rounds /\ nrounds' = nrounds /\ desk' = desk
      BY <1>3 DEF Tick, vars
  <2> QED
      BY <1>0, <2>1 DEF Rungs, Backed, OneOpens
<1>4. CASE Restart
  <2>1. task' = [r \in Requests |-> Resting] /\ rounds' = rounds /\ nrounds' = nrounds /\ desk' = desk
      BY <1>4 DEF Restart
  <2>2. \A q \in Requests : task'[q].todo \notin NextLists \union HireLists
      BY <2>1, RestingType DEF NextLists, HireLists
  <2> QED
      BY <1>0, <2>1, <2>2 DEF Rungs, Backed, OneOpens
<1> QED
    BY <1>1, <1>2, <1>3, <1>4 DEF Next

\* The rounds as HiringLadder sees them.
View == [i \in 1 .. nrounds |-> [decision |-> rounds[i].decision, final |-> rounds[i].final]]
Rung == [decision : {"None"} \union Decisions, final : BOOLEAN]

LEMMA Lengths == ASSUME NEW n \in Nat, NEW S, NEW l \in [1 .. n -> S] PROVE l \in Seq(S) /\ Len(l) = n
<1>1. l \in Seq(S)
    BY SeqDef
<1>2. Len(l) \in Nat /\ 1 .. Len(l) = 1 .. n
    BY <1>1, LenProperties
<1> QED
    BY <1>1, <1>2

LEMMA ViewType == Inv => View \in [1 .. nrounds -> Rung] /\ View \in Seq(Rung) /\ Len(View) = nrounds
<1> SUFFICES ASSUME Inv PROVE View \in [1 .. nrounds -> Rung] /\ View \in Seq(Rung) /\ Len(View) = nrounds
    OBVIOUS
<1>1. \A i \in 1 .. nrounds : rounds[i] \in Round
    BY Counts DEF Inv, DataOK
<1>2. View \in [1 .. nrounds -> Rung]
    BY <1>1 DEF View, Rung, Round
<1> QED
    BY <1>2, Counts, Lengths

LEMMA ViewStays == Inv /\ SameRungs => View' = View
BY DEF SameRungs, View

LEMMA ViewInit == Init => Ladder!Init
<1> SUFFICES ASSUME Init PROVE Ladder!Init
    OBVIOUS
<1>1. Inv
    BY InitInv
<1>2. nrounds = 1 /\ rounds[1] = NewRound(1, FALSE) /\ hiring.selected = FALSE
  <2>1. rounds = [i \in Ids |-> IF i = 1 THEN NewRound(1, FALSE) ELSE NoRound] /\ nrounds = 1
        /\ hiring = [selected |-> FALSE, onHold |-> FALSE]
      BY DEF Init
  <2>2. 1 \in Ids
      BY InterviewsAssumption DEF Ids
  <2>3. rounds[1] = NewRound(1, FALSE)
      BY <2>1, <2>2
  <2> QED
      BY <2>1, <2>3
<1>3. PICK e : e = [decision |-> "None", final |-> FALSE]
    OBVIOUS
<1>4. View[1] = e /\ Len(View) = 1 /\ View \in Seq(Rung) /\ e \in Rung
  <2>1. NewRound(1, FALSE).decision = "None" /\ NewRound(1, FALSE).final = FALSE
      BY DEF NewRound
  <2>2. 1 \in 1 .. nrounds
      BY <1>2
  <2>3. View[1] = [decision |-> rounds[1].decision, final |-> rounds[1].final]
      BY <2>2 DEF View
  <2>4. View[1] = e
      BY <1>2, <1>3, <2>1, <2>3
  <2>5. e \in Rung
      BY <1>3 DEF Rung
  <2> QED
      BY <1>1, <1>2, <2>4, <2>5, ViewType
<1>5. View = <<e>>
    BY <1>4
<1> QED
    BY <1>2, <1>3, <1>5 DEF View, Ladder!Init

\* A claim is the ladder's decision after its last round.
LEMMA ClaimDecides ==
    ASSUME Inv, Rungs, \A q \in Requests : Backed(task[q]), NEW r \in Requests, Claims(r)
    PROVE  \E d \in {"Hold", "Rejected", "Selected", "NextRound", "FinalRound"} : Ladder!Decide(d)
<1>0. PICK k : k = nrounds
    OBVIOUS
<1>1. task[r].round = k /\ k \in 1 .. nrounds /\ k \in Ids /\ rounds[k] \in Round /\ rounds[k].decision \in {"None", "Hold"}
    BY <1>0, ClaimsNewest
<1>2. PICK d : d = task[r].decision
    OBVIOUS
<1> DEFINE row == [Target(r) EXCEPT !.decision = task[r].decision, !.mailed = "None",
                                    !.result = ResultFor(task[r].decision)]
<1>3. At(r, "decide") /\ SetRound(r, row) /\ nrounds' = nrounds /\ hiring' = hiring
    BY DEF Claims, ClaimDecision
<1>4. rounds'[k] = row /\ \A i \in 1 .. nrounds : i # k => rounds'[i] = rounds[i]
    BY <1>1, <1>3, Rewritten, Counts
<1>5. row.decision = d /\ row.final = rounds[k].final
    BY <1>1, <1>2 DEF Round, Target
<1>6. /\ d \in Decisions
      /\ d = "Selected" => rounds[k].final
      /\ d \in {"NextRound", "FinalRound"} => ~rounds[k].final
  <2>1. task[r].todo \in DecideLists
      BY <1>3, Running, ListOf
  <2> QED
      BY <1>1, <1>2, <2>1 DEF Inv, TasksAgree, Agrees
<1> HIDE DEF row
<1>7. View[k].decision = rounds[k].decision /\ View[k].final = rounds[k].final /\ Len(View) = k
    BY <1>0, <1>1, ViewType DEF View
<1>8. View' = [View EXCEPT ![k].decision = d]
  <2>1. View' = [i \in 1 .. nrounds |-> [decision |-> rounds'[i].decision, final |-> rounds'[i].final]]
      BY <1>3 DEF View
  <2>2. ASSUME NEW i \in 1 .. nrounds
        PROVE  [decision |-> rounds'[i].decision, final |-> rounds'[i].final] = [View EXCEPT ![k].decision = d][i]
    <3>1. CASE i = k
        BY <1>1, <1>4, <1>5, <3>1 DEF View
    <3>2. CASE i # k
        BY <1>1, <1>4, <3>2 DEF View
    <3> QED
        BY <3>1, <3>2
  <2>3. DOMAIN [View EXCEPT ![k].decision = d] = 1 .. nrounds
      BY DEF View
  <2> QED
      BY <2>1, <2>2, <2>3
<1>9. Ladder!Decide(d)
  <2>1. View[Len(View)].decision \in {"None", "Hold"}
      BY <1>1, <1>7
  <2>2. IF View[Len(View)].final THEN d \in {"Hold", "Rejected", "Selected"}
                                ELSE d \in {"Hold", "Rejected", "NextRound", "FinalRound"}
      BY <1>6, <1>7 DEF Decisions
  <2>3. View' = [View EXCEPT ![Len(View)].decision = d] /\ hiring.selected' = hiring.selected
      BY <1>3, <1>7, <1>8
  <2> QED
      BY <2>1, <2>2, <2>3 DEF View, Ladder!Decide, Ladder!Last
<1> QED
    BY <1>6, <1>9 DEF Decisions

\* Opening the next round is the ladder's next rung.
LEMMA OpenOpens ==
    ASSUME Inv, Rungs, \A q \in Requests : Backed(task[q]), OneOpens, NEW r \in Requests, OpenNextRound(r), Inv'
    PROVE  Ladder!OpenNext
<1>0. PICK k : k = nrounds
    OBVIOUS
<1>1. task[r].round = k /\ rounds[k].decision = task[r].decision /\ task[r].decision \in {"NextRound", "FinalRound"}
    BY <1>0, OpensNewest
<1>2. PICK d : d = task[r].decision
    OBVIOUS
<1>3. PICK row : row = NewRound(rounds[k].number + 1, d = "FinalRound")
    OBVIOUS
<1>4. rounds' = [rounds EXCEPT ![k + 1] = row] /\ nrounds' = k + 1 /\ hiring' = hiring /\ nrounds < MaxRounds
    BY <1>0, <1>1, <1>2, <1>3 DEF OpenNextRound, OpenRound, Target
<1>5. PICK e : e = [decision |-> "None", final |-> d = "FinalRound"]
    OBVIOUS
<1>6. row.decision = e.decision /\ row.final = e.final /\ e \in Rung
    BY <1>3, <1>5 DEF NewRound, Rung
<1>7. k \in Nat /\ k \in 1 .. k /\ k + 1 \in Ids /\ 1 .. k + 1 = 1 .. k \union {k + 1} /\ 1 .. k \subseteq Ids
    BY <1>0, <1>4, Counts DEF Ids
<1>8. rounds'[k + 1] = row /\ \A i \in 1 .. k : rounds'[i] = rounds[i]
    BY <1>4, <1>7 DEF Inv, DataOK
<1>9. View \in Seq(Rung) /\ Len(View) = k /\ View'\in Seq(Rung) /\ Len(View') = k + 1
  <2>1. View \in Seq(Rung) /\ Len(View) = nrounds
      BY ViewType
  <2>2. View' = [i \in 1 .. k + 1 |-> [decision |-> rounds'[i].decision, final |-> rounds'[i].final]]
      BY <1>4 DEF View
  <2>3. \A i \in 1 .. k + 1 : rounds'[i] \in Round
      BY <1>7 DEF Inv, DataOK
  <2>4. View' \in [1 .. k + 1 -> Rung]
      BY <2>2, <2>3 DEF Rung, Round
  <2>5. k + 1 \in Nat
      BY <1>7
  <2>6. View' \in Seq(Rung) /\ Len(View') = k + 1
      BY <2>4, <2>5, Lengths
  <2> QED
      BY <1>0, <2>1, <2>6
<1>10. /\ \A i \in 1 .. k : View'[i] = View[i]
       /\ View'[k + 1] = e
  <2>1. View' = [i \in 1 .. k + 1 |-> [decision |-> rounds'[i].decision, final |-> rounds'[i].final]]
      BY <1>4 DEF View
  <2>2. View = [i \in 1 .. k |-> [decision |-> rounds[i].decision, final |-> rounds[i].final]]
      BY <1>0 DEF View
  <2>3. \A i \in 1 .. k : View'[i] = View[i]
      BY <1>7, <1>8, <2>1, <2>2
  <2>4. View'[k + 1] = e
      BY <1>5, <1>6, <1>7, <1>8, <2>1
  <2> QED
      BY <2>3, <2>4
<1>11. View' = Append(View, e)
  <2>1. Append(View, e) \in Seq(Rung) /\ Len(Append(View, e)) = k + 1
      BY <1>6, <1>9
  <2>2. \A i \in 1 .. k + 1 : Append(View, e)[i] = IF i = k + 1 THEN e ELSE View[i]
      BY <1>6, <1>7, <1>9
  <2>3. \A i \in 1 .. Len(View') : View'[i] = Append(View, e)[i]
      BY <1>7, <1>9, <1>10, <2>2
  <2> QED
      BY <1>9, <2>1, <2>3, SeqEqual
<1>12. View[Len(View)].decision = d /\ d \in {"NextRound", "FinalRound"}
    BY <1>0, <1>1, <1>2, <1>7, <1>9 DEF View
<1>13. View' = Append(View, [decision |-> "None", final |-> View[Len(View)].decision = "FinalRound"])
    BY <1>5, <1>11, <1>12
<1> QED
    BY <1>4, <1>12, <1>13 DEF View, Ladder!OpenNext, Ladder!Last

\* A hire follows the selection after the last round.
LEMMA HireHires ==
    ASSUME Inv, \A q \in Requests : Backed(task[q]), NEW r \in Requests, Hire(r)
    PROVE  Ladder!Hire
<1>1. /\ At(r, "hire") /\ hiring' = [selected |-> TRUE, onHold |-> FALSE]
      /\ rounds' = rounds /\ nrounds' = nrounds
    BY DEF Hire, SetHiring
<1>2. task[r].todo \in HireLists
    BY <1>1, Running, ListOf
<1>3. rounds[nrounds].decision = "Selected"
    BY <1>2 DEF Backed
<1>4. View[Len(View)].decision = "Selected"
    BY <1>3, Counts, ViewType DEF View
<1>5. View' = View /\ hiring'.selected = TRUE
    BY <1>1 DEF View
<1> QED
    BY <1>4, <1>5 DEF View, Ladder!Hire, Ladder!Last

\* Only a hire selects.
LEMMA HiredStays ==
    ASSUME Inv, NEW r \in Requests, task[r].todo \in DeskLists, Step(r), ~Hire(r)
    PROVE  hiring'.selected = hiring.selected
<1>1. CASE hiring' = hiring
    BY <1>1
<1>2. CASE LiftHold(r) \/ Hold(r)
  <2>1. PICK b : hiring' = [hiring EXCEPT !.onHold = b]
      BY <1>2 DEF LiftHold, Hold, SetHiring
  <2> QED
      BY <2>1 DEF Inv, DataOK
<1>3. CASE ReplaceSlots(r) \/ MarkSlot(r) \/ SelectSlot(r) \/ Transition(r)
    BY <1>1, <1>3 DEF ReplaceSlots, PutSlots, MarkSlot, SelectSlot, Transition
<1>4. CASE SendInvites(r) \/ Complete(r) \/ Join(r) \/ Unjoin(r) \/ SendMail(r)
    BY <1>1, <1>4 DEF SendInvites, Complete, Join, Unjoin, SendMail, Overwrite
<1>5. CASE ClaimSlot(r) \/ Release(r) \/ ClaimDecision(r) \/ OpenNextRound(r)
    BY <1>1, <1>5 DEF ClaimSlot, Release, ClaimDecision, OpenNextRound, OpenRound
<1> QED
    BY <1>2, <1>3, <1>4, <1>5, DeskStep

\* The desk implements HiringLadder for any number of its users: no two decisions stand on
\* a round, no decision opens two rounds, nobody is hired without a final round's selection,
\* however saves overlap and wherever the process stops.
THEOREM LadderImplemented ==
    ASSUME Handlers \subseteq Q3Endpoints
    PROVE  Spec => ImplementsLadder
<1> DEFINE I == Inv /\ DeskOnly /\ LadderInv /\ desk # "portal"
<1>1. Init => I
    BY InitInv, DeskOnlyInit, LadderInit, NoPortalInit
<1>2. I /\ [Next]_vars => I'
    BY NextKeepsInv, DeskOnlyNext, LadderNext, NoPortalNext
<1>3. Init => Ladder!Init
    BY ViewInit
<1>4. I /\ I' /\ [Next]_vars => [Ladder!Next]_(Ladder!vars)
  <2> SUFFICES ASSUME Inv, Inv', DeskOnly, LadderInv, desk # "portal", [Next]_vars
               PROVE  [Ladder!Next]_(Ladder!vars)
      OBVIOUS
  <2>1. Rungs /\ (\A q \in Requests : Backed(task[q])) /\ OneOpens
      BY DEF LadderInv
  <2>2. CASE SameRungs /\ hiring'.selected = hiring.selected
      BY <2>2, ViewStays DEF View, Ladder!vars
  <2>3. ASSUME NEW r \in Requests, Start(r) PROVE [Ladder!Next]_(Ladder!vars)
    <3>1. rounds' = rounds /\ nrounds' = nrounds /\ hiring' = hiring
        BY <2>3, StartsQuiet
    <3> QED
        BY <2>2, <3>1 DEF SameRungs
  <2>4. ASSUME NEW r \in Requests, Step(r) PROVE [Ladder!Next]_(Ladder!vars)
    <3>1. task[r].todo \in DeskLists
        BY <2>4, StepAt DEF DeskOnly
    <3>2. CASE OpenNextRound(r)
        BY <2>1, <3>2, OpenOpens DEF Ladder!Next
    <3>3. CASE Claims(r)
        BY <2>1, <3>3, ClaimDecides DEF Ladder!Next
    <3>4. CASE Hire(r)
        BY <2>1, <3>4, HireHires DEF Ladder!Next
    <3> QED
        BY <2>2, <2>4, <3>1, <3>2, <3>3, <3>4, RungsMove, HiredStays
  <2>5. CASE Tick \/ Restart \/ UNCHANGED vars
      BY <2>2, <2>5 DEF Tick, Restart, vars, SameRungs
  <2> QED
      BY <2>3, <2>4, <2>5 DEF Next
<1> HIDE DEF I
<1> QED
    BY <1>1, <1>2, <1>3, <1>4, PTL DEF Spec, ImplementsLadder, Ladder!Spec
=============================================================================
