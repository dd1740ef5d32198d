-------------------------- MODULE InterviewsProofs --------------------------
(***************************************************************************)
(* Theorems about Interviews.tla for any number of requests, slots, ticks  *)
(* and reschedules. Inv is what holds under every interleaving and restart *)
(* whoever answers for the company.                                        *)
(***************************************************************************)
EXTENDS Interviews, FiniteSetTheorems, TLAPS

\* What a handler may have still to execute when it is about to execute the first of it.
OneLists == {<<"slots">>, <<"markUnavailable">>, <<"markAvailable">>, <<"joined">>, <<"unjoined">>}
BookLists == {<<"claimSlot", "select", "stage", "invite">>, <<"select", "stage", "invite">>,
              <<"stage", "invite">>, <<"invite">>, <<"release", "stage">>, <<"complete", "stage">>}
DecideLists == {<<"decide", "next", "stage">>, <<"decide", "next", "stage", "mail">>,
                <<"decide", "next", "stage", "liftHold">>, <<"decide", "next", "stage", "liftHold", "mail">>,
                <<"decide", "hold">>, <<"decide", "hold", "mail">>,
                <<"decide", "stage">>, <<"decide", "stage", "mail">>,
                <<"decide", "hire", "stage">>, <<"decide", "hire", "stage", "mail">>}
NextLists == {<<"next", "stage">>, <<"next", "stage", "mail">>,
              <<"next", "stage", "liftHold">>, <<"next", "stage", "liftHold", "mail">>}
HoldLists == {<<"hold">>, <<"hold", "mail">>}
HireLists == {<<"hire", "stage">>, <<"hire", "stage", "mail">>}
StageLists == {<<"stage">>, <<"stage", "mail">>, <<"stage", "liftHold">>, <<"stage", "liftHold", "mail">>}
LiftLists == {<<"liftHold">>, <<"liftHold", "mail">>}
DeskLists == OneLists \union BookLists \union DecideLists \union NextLists \union HoldLists \union HireLists
                 \union StageLists \union LiftLists \union {<<"mail">>}
PortalLists == {<<"clear", "offer", "unschedule">>, <<"offer", "unschedule">>, <<"unschedule">>,
                <<"look", "result", "stage">>, <<"look", "result", "nextRound", "offer", "stage">>,
                <<"result", "stage">>, <<"result", "nextRound", "offer", "stage">>,
                <<"nextRound", "offer", "stage">>, <<"offer", "stage">>,
                <<"stage", "find", "reopen">>, <<"find", "reopen">>, <<"reopen">>}
Lists == DeskLists \union PortalLists


\* Lists whose statements do not touch the task's round.
RoundlessLists == {<<>>, <<"stage">>, <<"stage", "find", "reopen">>, <<"find", "reopen">>}
ResultLists == {<<"result", "stage">>, <<"result", "nextRound", "offer", "stage">>}
NextRoundLists == {<<"look", "result", "nextRound", "offer", "stage">>, <<"result", "nextRound", "offer", "stage">>,
                   <<"nextRound", "offer", "stage">>}

\* What the task of a running handler may rely on.
Agrees(t) ==
    /\ t.todo \in Lists \union {<<>>}
    /\ t.todo \notin RoundlessLists => t.round \in 1 .. nrounds
    /\ t.todo \in DecideLists =>
           /\ t.decision \in Decisions
           /\ Tail(t.todo) \in NextLists <=> t.decision \in {"NextRound", "FinalRound"}
           /\ Tail(t.todo) \in HireLists <=> t.decision = "Selected"
           /\ Tail(t.todo) \in HoldLists <=> t.decision = "Hold"
           /\ t.decision = "Selected" => rounds[t.round].final
           /\ t.decision \in {"NextRound", "FinalRound"} =>
                  ~rounds[t.round].final /\ rounds[t.round].number < MaxRounds
    /\ t.todo \in NextLists => t.decision \in {"NextRound", "FinalRound"} /\ rounds[t.round].number < MaxRounds
    /\ t.todo \in HireLists => t.decision = "Selected"
    /\ t.todo \in ResultLists => t.was # "None"
    /\ t.todo \in NextRoundLists => t.number \in 1 .. FinalNumber
TasksAgree == \A r \in Requests : Agrees(task[r])

\* TypeOK but for the running handlers, and which rows exist.
DataOK ==
    /\ rounds \in [Ids -> Round]
    /\ nrounds \in Ids
    /\ slots \in [SlotIds -> Slot]
    /\ nslots \in 0 .. MaxSlots
    /\ hiring \in [selected : BOOLEAN, onHold : BOOLEAN]
    /\ stage \in Stages
    /\ logged \in Stages
    /\ now \in 0 .. MaxNow
    /\ alone \in BOOLEAN
    /\ desk \in {"none", "q3", "portal"}
RowsOK ==
    /\ \A i \in Ids : IF i <= nrounds THEN rounds[i].status # "None" /\ rounds[i].number >= 1 ELSE rounds[i] = NoRound
    /\ \A s \in SlotIds : slots[s].round <= nrounds /\ (s > nslots => slots[s] = NoSlot)

Inv == DataOK /\ RowsOK /\ task \in [Requests -> Task] /\ TasksAgree

\* What running handlers rely on is never taken back.
Grows ==
    /\ nrounds <= nrounds'
    /\ \A i \in 1 .. nrounds : rounds'[i].number = rounds[i].number /\ rounds'[i].final = rounds[i].final

-----------------------------------------------------------------------------
(* Lists of statements.                                                    *)

LEMMA ListType == \A l \in Lists \union {<<>>} : l \in Seq(Statements)
<1>1. <<>> \in Seq(Statements) /\ <<"mail">> \in Seq(Statements)
    BY DEF Statements
<1>2. \A l \in OneLists : l \in Seq(Statements)
  <2>1. /\ <<"slots">> \in Seq(Statements) /\ <<"markUnavailable">> \in Seq(Statements)
        /\ <<"markAvailable">> \in Seq(Statements) /\ <<"joined">> \in Seq(Statements)
        /\ <<"unjoined">> \in Seq(Statements)
      BY DEF Statements
  <2> QED
      BY <2>1 DEF OneLists
<1>3. \A l \in BookLists : l \in Seq(Statements)
  <2>1. /\ <<"claimSlot", "select", "stage", "invite">> \in Seq(Statements)
        /\ <<"select", "stage", "invite">> \in Seq(Statements) /\ <<"stage", "invite">> \in Seq(Statements)
        /\ <<"invite">> \in Seq(Statements) /\ <<"release", "stage">> \in Seq(Statements)
        /\ <<"complete", "stage">> \in Seq(Statements)
      BY DEF Statements
  <2> QED
      BY <2>1 DEF BookLists
<1>4. \A l \in DecideLists : l \in Seq(Statements)
  <2>1. /\ <<"decide", "next", "stage">> \in Seq(Statements)
        /\ <<"decide", "next", "stage", "mail">> \in Seq(Statements)
        /\ <<"decide", "next", "stage", "liftHold">> \in Seq(Statements)
        /\ <<"decide", "next", "stage", "liftHold", "mail">> \in Seq(Statements)
        /\ <<"decide", "hold">> \in Seq(Statements) /\ <<"decide", "hold", "mail">> \in Seq(Statements)
        /\ <<"decide", "stage">> \in Seq(Statements) /\ <<"decide", "stage", "mail">> \in Seq(Statements)
        /\ <<"decide", "hire", "stage">> \in Seq(Statements)
        /\ <<"decide", "hire", "stage", "mail">> \in Seq(Statements)
      BY DEF Statements
  <2> QED
      BY <2>1 DEF DecideLists
<1>5. \A l \in NextLists : l \in Seq(Statements)
  <2>1. /\ <<"next", "stage">> \in Seq(Statements) /\ <<"next", "stage", "mail">> \in Seq(Statements)
        /\ <<"next", "stage", "liftHold">> \in Seq(Statements)
        /\ <<"next", "stage", "liftHold", "mail">> \in Seq(Statements)
      BY DEF Statements
  <2> QED
      BY <2>1 DEF NextLists
<1>6. \A l \in HoldLists : l \in Seq(Statements)
  <2>1. /\ <<"hold">> \in Seq(Statements) /\ <<"hold", "mail">> \in Seq(Statements)
      BY DEF Statements
  <2> QED
      BY <2>1 DEF HoldLists
<1>7. \A l \in HireLists : l \in Seq(Statements)
  <2>1. /\ <<"hire", "stage">> \in Seq(Statements) /\ <<"hire", "stage", "mail">> \in Seq(Statements)
      BY DEF Statements
  <2> QED
      BY <2>1 DEF HireLists
<1>8. \A l \in StageLists : l \in Seq(Statements)
  <2>1. /\ <<"stage">> \in Seq(Statements) /\ <<"stage", "mail">> \in Seq(Statements)
        /\ <<"stage", "liftHold">> \in Seq(Statements) /\ <<"stage", "liftHold", "mail">> \in Seq(Statements)
      BY DEF Statements
  <2> QED
      BY <2>1 DEF StageLists
<1>9. \A l \in LiftLists : l \in Seq(Statements)
  <2>1. /\ <<"liftHold">> \in Seq(Statements) /\ <<"liftHold", "mail">> \in Seq(Statements)
      BY DEF Statements
  <2> QED
      BY <2>1 DEF LiftLists
<1>10. \A l \in PortalLists : l \in Seq(Statements)
  <2>1. /\ <<"clear", "offer", "unschedule">> \in Seq(Statements)
        /\ <<"offer", "unschedule">> \in Seq(Statements) /\ <<"unschedule">> \in Seq(Statements)
        /\ <<"look", "result", "stage">> \in Seq(Statements)
        /\ <<"look", "result", "nextRound", "offer", "stage">> \in Seq(Statements)
        /\ <<"result", "stage">> \in Seq(Statements)
        /\ <<"result", "nextRound", "offer", "stage">> \in Seq(Statements)
        /\ <<"nextRound", "offer", "stage">> \in Seq(Statements) /\ <<"offer", "stage">> \in Seq(Statements)
        /\ <<"stage", "find", "reopen">> \in Seq(Statements) /\ <<"find", "reopen">> \in Seq(Statements)
        /\ <<"reopen">> \in Seq(Statements)
      BY DEF Statements
  <2> QED
      BY <2>1 DEF PortalLists
<1> QED
    BY <1>1, <1>2, <1>3, <1>4, <1>5, <1>6, <1>7, <1>8, <1>9, <1>10 DEF Lists, DeskLists

LEMMA ListOf ==
    ASSUME NEW l \in Lists
    PROVE  /\ l # <<>>
           /\ Head(l) \in Statements
           /\ Head(l) = "slots" => l = <<"slots">>
           /\ Head(l) = "markUnavailable" => l = <<"markUnavailable">>
           /\ Head(l) = "markAvailable" => l = <<"markAvailable">>
           /\ Head(l) = "joined" => l = <<"joined">>
           /\ Head(l) = "unjoined" => l = <<"unjoined">>
           /\ Head(l) = "claimSlot" => l = <<"claimSlot", "select", "stage", "invite">>
           /\ Head(l) = "select" => l = <<"select", "stage", "invite">>
           /\ Head(l) = "stage" => l \in StageLists \union {<<"stage", "invite">>, <<"stage", "find", "reopen">>}
           /\ Head(l) = "invite" => l = <<"invite">>
           /\ Head(l) = "release" => l = <<"release", "stage">>
           /\ Head(l) = "complete" => l = <<"complete", "stage">>
           /\ Head(l) = "decide" => l \in DecideLists
           /\ Head(l) = "next" => l \in NextLists
           /\ Head(l) = "hold" => l \in HoldLists
           /\ Head(l) = "hire" => l \in HireLists
           /\ Head(l) = "liftHold" => l \in LiftLists
           /\ Head(l) = "clear" => l = <<"clear", "offer", "unschedule">>
           /\ Head(l) = "offer" => l \in {<<"offer", "unschedule">>, <<"offer", "stage">>}
           /\ Head(l) = "unschedule" => l = <<"unschedule">>
           /\ Head(l) = "look" => l \in {<<"look", "result", "stage">>, <<"look", "result", "nextRound", "offer", "stage">>}
           /\ Head(l) = "result" => l \in {<<"result", "stage">>, <<"result", "nextRound", "offer", "stage">>}
           /\ Head(l) = "nextRound" => l = <<"nextRound", "offer", "stage">>
           /\ Head(l) = "find" => l = <<"find", "reopen">>
           /\ Head(l) = "reopen" => l = <<"reopen">>
           /\ Head(l) = "mail" => l = <<"mail">>
BY DEF Lists, DeskLists, OneLists, BookLists, DecideLists, NextLists, HoldLists, HireLists, StageLists, LiftLists,
       PortalLists, Statements

\* What remains of a list when its first statement was executed.
LEMMA TailOf ==
    ASSUME NEW l \in Lists
    PROVE  /\ Head(l) \in {"slots", "markUnavailable", "markAvailable", "joined", "unjoined", "mail", "invite",
                           "unschedule", "reopen"} => Tail(l) = <<>>
           /\ Head(l) = "claimSlot" => Tail(l) = <<"select", "stage", "invite">>
           /\ Head(l) = "select" => Tail(l) = <<"stage", "invite">>
           /\ Head(l) \in {"release", "complete"} => Tail(l) = <<"stage">>
           /\ Head(l) = "decide" => Tail(l) \in NextLists \union HoldLists \union HireLists
                                                  \union {<<"stage">>, <<"stage", "mail">>}
           /\ Head(l) = "next" => Tail(l) \in StageLists
           /\ Head(l) \in {"hold", "liftHold"} => Tail(l) \in {<<>>, <<"mail">>}
           /\ Head(l) = "hire" => Tail(l) \in {<<"stage">>, <<"stage", "mail">>}
           /\ Head(l) = "stage" => Tail(l) \in {<<>>, <<"mail">>, <<"invite">>, <<"find", "reopen">>} \union LiftLists
           /\ Head(l) = "clear" => Tail(l) = <<"offer", "unschedule">>
           /\ Head(l) = "offer" => Tail(l) \in {<<"unschedule">>, <<"stage">>}
           /\ Head(l) = "look" => Tail(l) \in {<<"result", "stage">>, <<"result", "nextRound", "offer", "stage">>}
           /\ Head(l) = "result" => Tail(l) \in {<<"stage">>, <<"nextRound", "offer", "stage">>}
           /\ Head(l) = "nextRound" => Tail(l) = <<"offer", "stage">>
           /\ Head(l) = "find" => Tail(l) = <<"reopen">>
<1>1. Head(l) \in {"slots", "markUnavailable", "markAvailable", "joined", "unjoined", "mail", "invite", "unschedule", "reopen"} => Tail(l) = <<>>
  <2>1. /\ Tail(<<"slots">>) = <<>> /\ Tail(<<"markUnavailable">>) = <<>> /\ Tail(<<"markAvailable">>) = <<>>
        /\ Tail(<<"joined">>) = <<>> /\ Tail(<<"unjoined">>) = <<>> /\ Tail(<<"mail">>) = <<>>
        /\ Tail(<<"invite">>) = <<>> /\ Tail(<<"unschedule">>) = <<>> /\ Tail(<<"reopen">>) = <<>>
      OBVIOUS
  <2> QED
      BY <2>1, ListOf
<1>2. Head(l) = "claimSlot" => Tail(l) = <<"select", "stage", "invite">>
  <2>1. Tail(<<"claimSlot", "select", "stage", "invite">>) = <<"select", "stage", "invite">>
      OBVIOUS
  <2> QED
      BY <2>1, ListOf
<1>3. Head(l) = "select" => Tail(l) = <<"stage", "invite">>
  <2>1. Tail(<<"select", "stage", "invite">>) = <<"stage", "invite">>
      OBVIOUS
  <2> QED
      BY <2>1, ListOf
<1>4. Head(l) \in {"release", "complete"} => Tail(l) = <<"stage">>
  <2>1. /\ Tail(<<"release", "stage">>) = <<"stage">> /\ Tail(<<"complete", "stage">>) = <<"stage">>
      OBVIOUS
  <2> QED
      BY <2>1, ListOf
<1>5. Head(l) = "decide" => Tail(l) \in NextLists \union HoldLists \union HireLists \union {<<"stage">>, <<"stage", "mail">>}
  <2>1. /\ Tail(<<"decide", "next", "stage">>) = <<"next", "stage">>
        /\ Tail(<<"decide", "next", "stage", "mail">>) = <<"next", "stage", "mail">>
        /\ Tail(<<"decide", "next", "stage", "liftHold">>) = <<"next", "stage", "liftHold">>
        /\ Tail(<<"decide", "next", "stage", "liftHold", "mail">>) = <<"next", "stage", "liftHold", "mail">>
        /\ Tail(<<"decide", "hold">>) = <<"hold">> /\ Tail(<<"decide", "hold", "mail">>) = <<"hold", "mail">>
        /\ Tail(<<"decide", "stage">>) = <<"stage">>
        /\ Tail(<<"decide", "stage", "mail">>) = <<"stage", "mail">>
        /\ Tail(<<"decide", "hire", "stage">>) = <<"hire", "stage">>
        /\ Tail(<<"decide", "hire", "stage", "mail">>) = <<"hire", "stage", "mail">>
      OBVIOUS
  <2> QED
      BY <2>1, ListOf DEF DecideLists, NextLists, HoldLists, HireLists
<1>6. Head(l) = "next" => Tail(l) \in StageLists
  <2>1. /\ Tail(<<"next", "stage">>) = <<"stage">> /\ Tail(<<"next", "stage", "mail">>) = <<"stage", "mail">>
        /\ Tail(<<"next", "stage", "liftHold">>) = <<"stage", "liftHold">>
        /\ Tail(<<"next", "stage", "liftHold", "mail">>) = <<"stage", "liftHold", "mail">>
      OBVIOUS
  <2> QED
      BY <2>1, ListOf DEF NextLists, StageLists
<1>7. Head(l) \in {"hold", "liftHold"} => Tail(l) \in {<<>>, <<"mail">>}
  <2>1. /\ Tail(<<"hold">>) = <<>> /\ Tail(<<"hold", "mail">>) = <<"mail">> /\ Tail(<<"liftHold">>) = <<>>
        /\ Tail(<<"liftHold", "mail">>) = <<"mail">>
      OBVIOUS
  <2> QED
      BY <2>1, ListOf DEF HoldLists, LiftLists
<1>8. Head(l) = "hire" => Tail(l) \in {<<"stage">>, <<"stage", "mail">>}
  <2>1. /\ Tail(<<"hire", "stage">>) = <<"stage">> /\ Tail(<<"hire", "stage", "mail">>) = <<"stage", "mail">>
      OBVIOUS
  <2> QED
      BY <2>1, ListOf DEF HireLists
<1>9. Head(l) = "stage" => Tail(l) \in {<<>>, <<"mail">>, <<"invite">>, <<"find", "reopen">>} \union LiftLists
  <2>1. /\ Tail(<<"stage", "invite">>) = <<"invite">> /\ Tail(<<"stage">>) = <<>>
        /\ Tail(<<"stage", "mail">>) = <<"mail">> /\ Tail(<<"stage", "liftHold">>) = <<"liftHold">>
        /\ Tail(<<"stage", "liftHold", "mail">>) = <<"liftHold", "mail">>
        /\ Tail(<<"stage", "find", "reopen">>) = <<"find", "reopen">>
      OBVIOUS
  <2> QED
      BY <2>1, ListOf DEF StageLists, LiftLists
<1>10. Head(l) = "clear" => Tail(l) = <<"offer", "unschedule">>
  <2>1. Tail(<<"clear", "offer", "unschedule">>) = <<"offer", "unschedule">>
      OBVIOUS
  <2> QED
      BY <2>1, ListOf
<1>11. Head(l) = "offer" => Tail(l) \in {<<"unschedule">>, <<"stage">>}
  <2>1. /\ Tail(<<"offer", "unschedule">>) = <<"unschedule">> /\ Tail(<<"offer", "stage">>) = <<"stage">>
      OBVIOUS
  <2> QED
      BY <2>1, ListOf
<1>12. Head(l) = "look" => Tail(l) \in {<<"result", "stage">>, <<"result", "nextRound", "offer", "stage">>}
  <2>1. /\ Tail(<<"look", "result", "stage">>) = <<"result", "stage">>
        /\ Tail(<<"look", "result", "nextRound", "offer", "stage">>) = <<"result", "nextRound", "offer", "stage">>
      OBVIOUS
  <2> QED
      BY <2>1, ListOf
<1>13. Head(l) = "result" => Tail(l) \in {<<"stage">>, <<"nextRound", "offer", "stage">>}
  <2>1. /\ Tail(<<"result", "stage">>) = <<"stage">>
        /\ Tail(<<"result", "nextRound", "offer", "stage">>) = <<"nextRound", "offer", "stage">>
      OBVIOUS
  <2> QED
      BY <2>1, ListOf
<1>14. Head(l) = "nextRound" => Tail(l) = <<"offer", "stage">>
  <2>1. Tail(<<"nextRound", "offer", "stage">>) = <<"offer", "stage">>
      OBVIOUS
  <2> QED
      BY <2>1, ListOf
<1>15. Head(l) = "find" => Tail(l) = <<"reopen">>
  <2>1. Tail(<<"find", "reopen">>) = <<"reopen">>
      OBVIOUS
  <2> QED
      BY <2>1, ListOf
<1> QED
    BY <1>1, <1>2, <1>3, <1>4, <1>5, <1>6, <1>7, <1>8, <1>9, <1>10, <1>11, <1>12, <1>13, <1>14, <1>15

\* Lists that start with different statements are different.
LEMMA HeadsAre ==
    /\ \A l \in DecideLists : Head(l) = "decide"
    /\ \A l \in NextLists : Head(l) = "next"
    /\ \A l \in HoldLists : Head(l) = "hold"
    /\ \A l \in HireLists : Head(l) = "hire"
    /\ \A l \in LiftLists : Head(l) = "liftHold"
    /\ \A l \in StageLists : Head(l) = "stage"
    /\ \A l \in ResultLists : Head(l) = "result"
    /\ \A l \in NextRoundLists : Head(l) \in {"look", "result", "nextRound"}
BY DEF DecideLists, NextLists, HoldLists, HireLists, LiftLists, StageLists, ResultLists, NextRoundLists

LEMMA HeadOfTail ==
    ASSUME NEW l \in Lists, Tail(l) # <<>>
    PROVE  /\ Head(Tail(l)) # "decide" /\ Head(Tail(l)) \notin {"look", "clear"}
           /\ Head(Tail(l)) \in {"next", "hold", "hire"} => Head(l) = "decide"
           /\ Head(Tail(l)) = "result" => Head(l) = "look"
           /\ Head(Tail(l)) = "nextRound" => Head(l) = "result"
<1>1. /\ Head(<<"select", "stage", "invite">>) = "select" /\ Head(<<"stage", "invite">>) = "stage"
      /\ Head(<<"stage">>) = "stage" /\ Head(<<"stage", "mail">>) = "stage" /\ Head(<<"mail">>) = "mail"
      /\ Head(<<"invite">>) = "invite" /\ Head(<<"find", "reopen">>) = "find" /\ Head(<<"reopen">>) = "reopen"
      /\ Head(<<"offer", "unschedule">>) = "offer" /\ Head(<<"offer", "stage">>) = "offer"
      /\ Head(<<"unschedule">>) = "unschedule" /\ Head(<<"result", "stage">>) = "result"
      /\ Head(<<"result", "nextRound", "offer", "stage">>) = "result"
      /\ Head(<<"nextRound", "offer", "stage">>) = "nextRound"
    OBVIOUS
<1>2. Head(l) \in Statements
    BY ListOf
<1>3. CASE Head(l) \in {"decide", "next", "hold", "liftHold", "hire", "stage"}
    BY <1>1, <1>3, TailOf, HeadsAre
<1>4. CASE Head(l) \notin {"decide", "next", "hold", "liftHold", "hire", "stage"}
    BY <1>1, <1>2, <1>4, TailOf DEF Statements
<1> QED
    BY <1>3, <1>4

-----------------------------------------------------------------------------
(* Tasks.                                                                  *)

LEMMA RestingType == Resting \in Task /\ Resting.todo = <<>> /\ Agrees(Resting)
<1>1. /\ Resting.todo = <<>> /\ Resting.decision = "None" /\ Resting.round = 0
      /\ Resting = [round |-> 0, slot |-> 0, at |-> 0, times |-> {}, stage |-> "SHORTLISTED", decision |-> "None",
                    result |-> "Pending", number |-> 0, was |-> "None", todo |-> <<>>]
    BY DEF Resting
<1>2. 0 \in 0 .. MaxRounds /\ 0 \in 0 .. MaxSlots /\ 0 \in 0 .. MaxNow /\ 0 \in 0 .. FinalNumber
    BY InterviewsAssumption DEF FinalNumber
<1>3. Resting \in Task
    BY <1>1, <1>2 DEF Task, Stages, Results
<1>4. <<>> \notin Lists /\ <<>> \in RoundlessLists
    BY ListOf DEF RoundlessLists
<1>5. <<>> \notin DecideLists \union NextLists \union HireLists \union ResultLists \union NextRoundLists
    BY DEF DecideLists, NextLists, HireLists, ResultLists, NextRoundLists
<1> QED
    BY <1>1, <1>3, <1>4, <1>5 DEF Agrees

LEMMA NoSlotType == NoSlot \in Slot /\ NoSlot.round = 0 /\ ~NoSlot.selected
BY InterviewsAssumption DEF NoSlot, Slot

LEMMA Counts == Inv => nrounds \in Nat /\ nrounds \in 1 .. MaxRounds /\ MaxRounds \in Nat /\ 1 .. nrounds \subseteq Ids
                       /\ nslots \in Nat
BY InterviewsAssumption DEF Inv, DataOK, Ids

LEMMA Running ==
    ASSUME Inv, NEW r \in Requests, NEW s, At(r, s)
    PROVE  /\ task[r] \in Task /\ Agrees(task[r])
           /\ task[r].todo \in Lists /\ Head(task[r].todo) = s /\ task[r].todo # <<>> /\ s \in Statements
           /\ task[r].todo \notin RoundlessLists => task[r].round \in 1 .. nrounds /\ task[r].round \in Ids
<1>1. task[r] \in Task /\ Agrees(task[r]) /\ task[r].todo # <<>> /\ Head(task[r].todo) = s
    BY DEF Inv, TasksAgree, At
<1>2. task[r].todo \in Lists /\ s \in Statements
    BY <1>1, ListOf DEF Agrees
<1>3. 1 .. nrounds \subseteq Ids
    BY InterviewsAssumption DEF Inv, DataOK, Ids
<1> QED
    BY <1>1, <1>2, <1>3 DEF Agrees

\* A statement that is not undo's works on a round that exists.
LEMMA RunningRound ==
    ASSUME Inv, NEW r \in Requests, NEW s, At(r, s), s \notin {"stage", "find"}
    PROVE  task[r].round \in 1 .. nrounds /\ task[r].round \in Ids /\ rounds[task[r].round] \in Round
           /\ rounds[task[r].round].status # "None" /\ rounds[task[r].round].number >= 1
<1>1. task[r].todo \notin RoundlessLists
  <2>1. Head(<<"stage">>) = "stage" /\ Head(<<"stage", "find", "reopen">>) = "stage"
        /\ Head(<<"find", "reopen">>) = "find"
      OBVIOUS
  <2> QED
      BY <2>1, Running DEF RoundlessLists
<1>2. task[r].round \in 1 .. nrounds /\ task[r].round \in Ids
    BY <1>1, Running
<1> QED
    BY <1>2, InterviewsAssumption DEF Inv, DataOK, RowsOK, Ids

LEMMA RestAgrees ==
    ASSUME NEW t \in Task, Agrees(t), t.todo \in Lists, Head(t.todo) \notin {"look", "find"}
    PROVE  /\ Rest(t) \in Task /\ Agrees(Rest(t)) /\ Rest(t).todo = Tail(t.todo)
           /\ Rest(t).todo # <<>> => Rest(t) = [t EXCEPT !.todo = Tail(t.todo)]
<1>1. CASE Tail(t.todo) = <<>>
    BY <1>1, RestingType DEF Rest
<1>2. CASE Tail(t.todo) # <<>>
  <2> DEFINE x == [t EXCEPT !.todo = Tail(t.todo)]
  <2>1. Rest(t) = x
      BY <1>2 DEF Rest
  <2>2. Tail(t.todo) \in Lists
      BY <1>2, ListOf, TailOf DEF Lists, DeskLists, PortalLists, BookLists, NextLists, HoldLists, HireLists, StageLists, LiftLists, Statements
  <2>3. x \in Task /\ x.todo = Tail(t.todo) /\ x.round = t.round /\ x.decision = t.decision /\ x.was = t.was
        /\ x.number = t.number
    <3>1. Tail(t.todo) \in Seq(Statements)
        BY <2>2, ListType
    <3> QED
        BY <3>1 DEF Task
  <2>4. x.todo \notin RoundlessLists => t.todo \notin RoundlessLists
    <3>1. /\ Tail(<<"stage", "find", "reopen">>) = <<"find", "reopen">> /\ Tail(<<"stage">>) = <<>>
          /\ Head(<<"find", "reopen">>) = "find"
        OBVIOUS
    <3> QED
        BY <3>1, <2>3, ListOf DEF RoundlessLists
  <2>5. x.todo \notin DecideLists
      BY <1>2, <2>3, HeadOfTail, HeadsAre
  <2>6. x.todo \in NextLists \union HireLists => t.todo \in DecideLists
    <3>1. x.todo \in NextLists \union HireLists => Head(t.todo) = "decide"
        BY <1>2, <2>3, HeadOfTail, HeadsAre
    <3> QED
        BY <3>1, ListOf
  <2>8. x.todo \notin ResultLists
      BY <1>2, <2>3, HeadOfTail, HeadsAre
  <2>9. x.todo \in NextRoundLists => t.todo \in NextRoundLists
    <3>1. /\ Tail(<<"result", "stage">>) = <<"stage">> /\ Head(<<"stage">>) = "stage"
          /\ Tail(<<"look", "result", "stage">>) = <<"result", "stage">>
        OBVIOUS
    <3>2. x.todo \in NextRoundLists => Head(t.todo) = "result"
        BY <1>2, <2>3, HeadOfTail, HeadsAre
    <3>3. Head(t.todo) = "result" => t.todo \in NextRoundLists \/ t.todo = <<"result", "stage">>
        BY ListOf DEF NextRoundLists
    <3>4. x.todo \in NextRoundLists => Head(x.todo) # "stage"
        BY HeadsAre
    <3> QED
        BY <2>3, <3>1, <3>2, <3>3, <3>4
  <2> QED
      BY <2>1, <2>2, <2>3, <2>4, <2>5, <2>6, <2>8, <2>9 DEF Agrees
<1> QED
    BY <1>1, <1>2

\* What a task relies on stays as the tables grow.
LEMMA Stable ==
    ASSUME Inv, NEW t, Agrees(t), Grows, nrounds' \in Ids
    PROVE  Agrees(t)'
<1>1. 1 .. nrounds \subseteq 1 .. nrounds'
    BY InterviewsAssumption DEF Grows, Inv, DataOK, Ids
<1>2. t.todo \in DecideLists \union NextLists => t.todo \notin RoundlessLists
  <2>1. Head(<<"stage">>) = "stage" /\ Head(<<"stage", "find", "reopen">>) = "stage"
        /\ Head(<<"find", "reopen">>) = "find"
      OBVIOUS
  <2>2. <<>> \notin DecideLists \union NextLists
      BY DEF DecideLists, NextLists
  <2> QED
      BY <2>1, <2>2, HeadsAre DEF RoundlessLists
<1>3. t.todo \in DecideLists \union NextLists =>
          rounds'[t.round].number = rounds[t.round].number /\ rounds'[t.round].final = rounds[t.round].final
    BY <1>2 DEF Agrees, Grows
<1> QED
    BY <1>1, <1>3 DEF Agrees

-----------------------------------------------------------------------------
(* Steps.                                                                  *)

LEMMA TaskStep ==
    ASSUME Inv, NEW r \in Requests, NEW t \in Task, Agrees(t)', Grows,
           task' = [task EXCEPT ![r] = t], DataOK', RowsOK'
    PROVE  Inv'
<1>1. task' \in [Requests -> Task]
    BY DEF Inv
<1>2. ASSUME NEW q \in Requests PROVE Agrees(task[q])'
  <2>1. CASE q = r
    <3>1. task'[q] = t
        BY <2>1 DEF Inv
    <3> QED
        BY <3>1 DEF Agrees
  <2>2. CASE q # r
    <3>1. PICK u : u = task[q]
        OBVIOUS
    <3>2. Agrees(u)' /\ task'[q] = u
        BY <2>2, <3>1, Stable DEF Inv, TasksAgree, DataOK
    <3> QED
        BY <3>2 DEF Agrees
  <2> QED
      BY <2>1, <2>2
<1> QED
    BY <1>1, <1>2 DEF Inv, TasksAgree

LEMMA GoOn ==
    ASSUME Inv, NEW r \in Requests, NEW s, At(r, s), s \notin {"look", "find"},
           Continue(r), Grows, DataOK', RowsOK'
    PROVE  Inv'
<1>1. PICK x : x = Rest(task[r])
    OBVIOUS
<1>2. task' = [task EXCEPT ![r] = x]
    BY <1>1 DEF Continue
<1>3. x \in Task /\ Agrees(x)
    BY <1>1, Running, RestAgrees
<1>4. Agrees(x)'
    BY <1>3, Stable DEF DataOK
<1> QED
    BY <1>2, <1>3, <1>4, TaskStep

LEMMA GiveUp ==
    ASSUME Inv, NEW r \in Requests, Abort(r), Grows, DataOK', RowsOK'
    PROVE  Inv'
<1>1. PICK x : x = Resting
    OBVIOUS
<1>2. x \in Task /\ Agrees(x) /\ task' = [task EXCEPT ![r] = x]
    BY <1>1, RestingType DEF Abort
<1>3. Agrees(x)'
    BY <1>2, Stable DEF DataOK
<1> QED
    BY <1>2, <1>3, TaskStep

\* A round's row may change in what no handler relies on.
LEMMA RowChange ==
    ASSUME Inv, NEW r \in Requests, NEW s, At(r, s), s \notin {"stage", "find"},
           NEW row \in Round, SetRound(r, row), row.number = Target(r).number, row.final = Target(r).final,
           row.status # "None",
           UNCHANGED <<nrounds, hiring, stage, logged, now, alone, desk>>, nslots' = nslots,
           slots' \in [SlotIds -> Slot],
           \A t \in SlotIds : slots'[t].round = slots[t].round,
           \A t \in SlotIds : slots[t] = NoSlot => slots'[t] = NoSlot
    PROVE  DataOK' /\ RowsOK' /\ Grows
<1>1. task[r].round \in 1 .. nrounds /\ task[r].round \in Ids /\ Target(r).number >= 1
    BY RunningRound DEF Target
<1>2. rounds' = [rounds EXCEPT ![task[r].round] = row]
    BY DEF SetRound
<1>3. DataOK'
    BY <1>1, <1>2 DEF Inv, DataOK
<1>4. RowsOK'
  <2>1. ASSUME NEW i \in Ids
        PROVE  IF i <= nrounds' THEN rounds'[i].status # "None" /\ rounds'[i].number >= 1 ELSE rounds'[i] = NoRound
      BY <1>1, <1>2, InterviewsAssumption DEF Inv, DataOK, RowsOK, Target, Ids
  <2> QED
      BY <2>1 DEF Inv, DataOK, RowsOK
<1>5. Grows
    BY <1>1, <1>2, InterviewsAssumption DEF Inv, DataOK, Grows, Target, Ids
<1> QED
    BY <1>3, <1>4, <1>5

LEMMA OverwriteKeeps ==
    ASSUME Inv, NEW r \in Requests, NEW s, s \notin {"stage", "find", "look"}, NEW row \in Round, Overwrite(r, s, row),
           row.number = Target(r).number, row.final = Target(r).final, row.status # "None"
    PROVE  Inv'
<1>1. slots' = slots /\ slots \in [SlotIds -> Slot]
    BY DEF Overwrite, Inv, DataOK
<1>2. DataOK' /\ RowsOK' /\ Grows
    BY <1>1, RowChange DEF Overwrite
<1> QED
    BY <1>2, GoOn DEF Overwrite

\* The updates by key keep the round's number and whether it is final.
LEMMA OverwritesKeep ==
    ASSUME Inv, NEW r \in Requests,
           \/ SendInvites(r) \/ Complete(r) \/ Join(r) \/ Unjoin(r) \/ SendMail(r) \/ Unschedule(r)
           \/ RecordResult(r) \/ ReopenRound(r)
    PROVE  Inv'
<1>1. PICK row, s : /\ Overwrite(r, s, row)
                    /\ \/ s = "invite" /\ row = [Target(r) EXCEPT !.invites = @ + 1]
                       \/ s = "complete" /\ row = [Target(r) EXCEPT !.status = "Completed"]
                       \/ s = "joined" /\ row = [Target(r) EXCEPT !.joined = TRUE]
                       \/ s = "unjoined" /\ row = [Target(r) EXCEPT !.joined = FALSE]
                       \/ s = "mail" /\ row = [Target(r) EXCEPT !.mailed = task[r].decision]
                       \/ s = "unschedule" /\ row = [Target(r) EXCEPT !.status = "Pending", !.at = 0]
                       \/ s = "result" /\ row = [Target(r) EXCEPT !.result = task[r].result,
                                !.status = IF task[r].result = "Hold" THEN task[r].was ELSE "Completed"]
                       \/ s = "reopen" /\ row = [Target(r) EXCEPT
                                !.result = IF task[r].stage = "ON_HOLD" THEN "Hold" ELSE "Pending",
                                !.status = IF task[r].at = 0 THEN "Pending" ELSE "Scheduled"]
    BY DEF SendInvites, Complete, Join, Unjoin, SendMail, Unschedule, RecordResult, ReopenRound
<1>2. At(r, s) /\ s \notin {"stage", "find", "look"}
    BY <1>1 DEF Overwrite
<1>3. Target(r) \in Round /\ Target(r).status # "None"
    BY <1>2, RunningRound DEF Target
<1>4. task[r] \in Task /\ Agrees(task[r]) /\ task[r].todo \in Lists /\ Head(task[r].todo) = s
    BY <1>2, Running
<1>5. s = "result" => task[r].was # "None"
    BY <1>4, ListOf DEF Agrees, ResultLists
<1>6. /\ task[r].decision \in {"None"} \union Decisions /\ task[r].result \in Results
      /\ task[r].was \in {"None", "Scheduled", "Completed"} \union Schedulable
    BY <1>4 DEF Task
<1>7. row \in Round /\ row.number = Target(r).number /\ row.final = Target(r).final /\ row.status # "None"
  <2> DEFINE statuses == {"None", "Scheduled", "Completed"} \union Schedulable
  <2>1. /\ \A n \in Nat : [Target(r) EXCEPT !.invites = n] \in Round
        /\ \A st \in statuses : [Target(r) EXCEPT !.status = st] \in Round
        /\ \A b \in BOOLEAN : [Target(r) EXCEPT !.joined = b] \in Round
        /\ \A d \in {"None"} \union Decisions : [Target(r) EXCEPT !.mailed = d] \in Round
        /\ \A st \in statuses, t \in 0 .. MaxNow : [Target(r) EXCEPT !.status = st, !.at = t] \in Round
        /\ \A st \in statuses, x \in Results : [Target(r) EXCEPT !.result = x, !.status = st] \in Round
      BY <1>3 DEF Round
  <2>2. /\ Target(r).invites + 1 \in Nat /\ 0 \in 0 .. MaxNow
        /\ {"Pending", "Scheduled", "Completed"} \subseteq statuses \ {"None"}
        /\ {"Pending", "Hold"} \subseteq Results
      BY <1>3, InterviewsAssumption DEF Round, Schedulable, Results
  <2>3. s = "result" => task[r].was \in statuses \ {"None"}
      BY <1>5, <1>6
  <2>4. row \in Round
    <3>1. CASE s = "result"
      <4> DEFINE st == IF task[r].result = "Hold" THEN task[r].was ELSE "Completed"
      <4>1. st \in statuses
          BY <3>1, <2>2, <2>3
      <4>2. row = [Target(r) EXCEPT !.result = task[r].result, !.status = st]
          BY <1>1, <3>1
      <4> HIDE DEF st
      <4> QED
          BY <4>1, <4>2, <1>6, <2>1
    <3>2. CASE s = "reopen"
      <4> DEFINE st == IF task[r].at = 0 THEN "Pending" ELSE "Scheduled"
      <4> DEFINE x == IF task[r].stage = "ON_HOLD" THEN "Hold" ELSE "Pending"
      <4>1. st \in statuses /\ x \in Results
          BY <2>2
      <4>2. row = [Target(r) EXCEPT !.result = x, !.status = st]
          BY <1>1, <3>2
      <4> HIDE DEF st, x
      <4> QED
          BY <4>1, <4>2, <2>1
    <3>3. CASE s \in {"invite", "complete", "joined", "unjoined"}
        BY <1>1, <2>1, <2>2, <3>3
    <3>4. CASE s = "mail"
        BY <1>1, <1>6, <2>1, <3>4
    <3>5. CASE s = "unschedule"
      <4>1. "Pending" \in statuses /\ 0 \in 0 .. MaxNow
          BY <2>2
      <4>2. row = [Target(r) EXCEPT !.status = "Pending", !.at = 0]
          BY <1>1, <3>5
      <4> HIDE DEF statuses
      <4> QED
          BY <4>1, <4>2, <2>1
    <3> QED
        BY <1>1, <3>1, <3>2, <3>3, <3>4, <3>5
  <2>5. row.number = Target(r).number /\ row.final = Target(r).final /\ row.status # "None"
      BY <1>1, <1>3, <2>2, <2>3 DEF Round
  <2> QED
      BY <2>4, <2>5
<1> QED
    BY <1>1, <1>2, <1>7, OverwriteKeeps

LEMMA ClaimSlotKeeps == ASSUME Inv, NEW r \in Requests, ClaimSlot(r) PROVE Inv'
<1>1. /\ At(r, "claimSlot") /\ slots' = slots
      /\ UNCHANGED <<nrounds, nslots, hiring, stage, logged, now, alone, desk>>
    BY DEF ClaimSlot
<1>2. Target(r) \in Round /\ Target(r).status # "None" /\ task[r] \in Task
    BY <1>1, RunningRound, Running DEF Target
<1>3. CASE Target(r).status \in Schedulable
  <2> DEFINE row == [Target(r) EXCEPT !.status = "Scheduled", !.at = task[r].at, !.joined = FALSE]
  <2>1. SetRound(r, row) /\ Continue(r)
      BY <1>3 DEF ClaimSlot
  <2>2. row \in Round /\ row.number = Target(r).number /\ row.final = Target(r).final /\ row.status # "None"
    <3>1. task[r].at \in 0 .. MaxNow
        BY <1>2 DEF Task
    <3> QED
        BY <1>2, <3>1 DEF Round
  <2> HIDE DEF row
  <2>3. DataOK' /\ RowsOK' /\ Grows
      BY <1>1, <2>1, <2>2, RowChange DEF Inv, DataOK
  <2> QED
      BY <1>1, <2>1, <2>3, GoOn
<1>4. CASE ~(Target(r).status \in Schedulable)
  <2>1. UNCHANGED rounds /\ Abort(r)
      BY <1>4 DEF ClaimSlot
  <2>2. DataOK' /\ RowsOK' /\ Grows
      BY <1>1, <2>1, Counts DEF Inv, DataOK, RowsOK, Grows
  <2> QED
      BY <2>1, <2>2, GiveUp
<1> QED
    BY <1>3, <1>4

LEMMA ClaimDecisionKeeps == ASSUME Inv, NEW r \in Requests, ClaimDecision(r) PROVE Inv'
<1>1. /\ At(r, "decide") /\ slots' = slots
      /\ UNCHANGED <<nrounds, nslots, hiring, stage, logged, now, alone, desk>>
    BY DEF ClaimDecision
<1>2. Target(r) \in Round /\ Target(r).status # "None" /\ task[r] \in Task
    BY <1>1, RunningRound, Running DEF Target
<1>3. CASE Target(r).decision \in {"None", "Hold"}
  <2> DEFINE row == [Target(r) EXCEPT !.decision = task[r].decision, !.mailed = "None",
                                       !.result = ResultFor(task[r].decision)]
  <2>1. SetRound(r, row) /\ Continue(r)
      BY <1>3 DEF ClaimDecision
  <2>2. row \in Round /\ row.number = Target(r).number /\ row.final = Target(r).final /\ row.status # "None"
    <3>1. task[r].decision \in {"None"} \union Decisions /\ ResultFor(task[r].decision) \in Results
        BY <1>2 DEF Task, ResultFor, Results
    <3> QED
        BY <1>2, <3>1 DEF Round
  <2> HIDE DEF row
  <2>3. DataOK' /\ RowsOK' /\ Grows
      BY <1>1, <2>1, <2>2, RowChange DEF Inv, DataOK
  <2> QED
      BY <1>1, <2>1, <2>3, GoOn
<1>4. CASE ~(Target(r).decision \in {"None", "Hold"})
  <2>1. UNCHANGED rounds /\ Abort(r)
      BY <1>4 DEF ClaimDecision
  <2>2. DataOK' /\ RowsOK' /\ Grows
      BY <1>1, <2>1, Counts DEF Inv, DataOK, RowsOK, Grows
  <2> QED
      BY <2>1, <2>2, GiveUp
<1> QED
    BY <1>3, <1>4

LEMMA ReleaseKeeps == ASSUME Inv, NEW r \in Requests, Release(r) PROVE Inv'
<1> DEFINE row == [Target(r) EXCEPT !.releases = @ + 1,
                       !.status = IF task[r].stage = "INTERVIEW_NOT_ATTENDED" THEN "NoShow" ELSE "RescheduleRequested"]
<1>1. /\ At(r, "release") /\ SetRound(r, row) /\ Continue(r)
      /\ UNCHANGED <<nrounds, nslots, hiring, stage, logged, now, alone, desk>>
    BY DEF Release
<1>2. Target(r) \in Round /\ Target(r).status # "None" /\ task[r].round \in 1 .. nrounds
    BY <1>1, RunningRound DEF Target
<1>3. row \in Round /\ row.number = Target(r).number /\ row.final = Target(r).final /\ row.status # "None"
  <2> DEFINE st == IF task[r].stage = "INTERVIEW_NOT_ATTENDED" THEN "NoShow" ELSE "RescheduleRequested"
  <2>1. st \in Schedulable /\ st # "None"
      BY DEF Schedulable
  <2>2. row = [Target(r) EXCEPT !.releases = @ + 1, !.status = st]
      OBVIOUS
  <2>3. Target(r).releases + 1 \in Nat
      BY <1>2 DEF Round
  <2> HIDE DEF st, row
  <2>4. row \in Round
      BY <1>2, <2>1, <2>2, <2>3 DEF Round
  <2>5. row.number = Target(r).number /\ row.final = Target(r).final /\ row.status = st
      BY <1>2, <2>2 DEF Round
  <2> QED
      BY <2>1, <2>4, <2>5
<1>4. slots' = [s \in SlotIds |-> IF slots[s].round = task[r].round /\ slots[s].selected
                                  THEN [slots[s] EXCEPT !.selected = FALSE, !.unavailable = TRUE] ELSE slots[s]]
    BY DEF Release
<1>5. /\ slots' \in [SlotIds -> Slot]
      /\ \A t \in SlotIds : slots'[t].round = slots[t].round
      /\ \A t \in SlotIds : slots[t] = NoSlot => slots'[t] = NoSlot
  <2>1. ASSUME NEW t \in SlotIds PROVE slots'[t] \in Slot /\ slots'[t].round = slots[t].round
      BY <1>4 DEF Inv, DataOK, Slot
  <2>2. ASSUME NEW t \in SlotIds, slots[t] = NoSlot PROVE slots'[t] = NoSlot
      BY <1>4, <2>2, NoSlotType
  <2>3. slots' \in [SlotIds -> Slot]
      BY <1>4, <2>1
  <2> QED
      BY <2>1, <2>2, <2>3
<1> HIDE DEF row
<1>6. DataOK' /\ RowsOK' /\ Grows
    BY <1>1, <1>3, <1>5, RowChange
<1> QED
    BY <1>1, <1>6, GoOn

\* Slots may change and go, and new ones come for a round that exists.
LEMMA SlotChange ==
    ASSUME Inv, UNCHANGED <<rounds, nrounds, hiring, stage, logged, now, alone, desk>>,
           slots' \in [SlotIds -> Slot], nslots' \in 0 .. MaxSlots,
           \A s \in SlotIds : slots'[s].round <= nrounds /\ (s > nslots' => slots'[s] = NoSlot)
    PROVE  DataOK' /\ RowsOK' /\ Grows
BY Counts DEF Inv, DataOK, RowsOK, Grows

LEMMA MarkSlotKeeps == ASSUME Inv, NEW r \in Requests, MarkSlot(r) PROVE Inv'
<1>1. /\ \/ At(r, "markUnavailable") \/ At(r, "markAvailable")
      /\ Continue(r) /\ UNCHANGED <<rounds, nrounds, nslots, hiring, stage, logged, now, alone, desk>>
    BY DEF MarkSlot
<1>2. slots' \in [SlotIds -> Slot] /\ \A s \in SlotIds : slots'[s].round = slots[s].round
  <2> DEFINE i == task[r].slot
  <2>1. PICK b \in BOOLEAN, c \in BOOLEAN :
            slots' = slots \/ slots' = [slots EXCEPT ![i].unavailable = b, ![i].selected = @ /\ c]
    <3>1. At(r, "markUnavailable") \in BOOLEAN /\ At(r, "markAvailable") \in BOOLEAN
        BY Zenon DEF At
    <3>2. \/ slots' = slots
          \/ slots' = [slots EXCEPT ![i].unavailable = At(r, "markUnavailable"),
                                    ![i].selected = @ /\ At(r, "markAvailable")]
        BY Zenon DEF MarkSlot
    <3> QED
        BY Zenon, <3>1, <3>2
  <2>2. ASSUME NEW t \in SlotIds PROVE slots'[t] \in Slot /\ slots'[t].round = slots[t].round
    <3>1. PICK d \in BOOLEAN : slots'[t] = slots[t] \/ slots'[t] = [slots[t] EXCEPT !.unavailable = b, !.selected = d]
      <4>1. CASE t = i
        <5>1. slots' = slots \/ slots'[t] = [slots[t] EXCEPT !.unavailable = b, !.selected = slots[t].selected /\ c]
            BY <2>1, <4>1 DEF Inv, DataOK
        <5>2. (slots[t].selected /\ c) \in BOOLEAN
            OBVIOUS
        <5> QED
            BY Zenon, <5>1, <5>2
      <4>2. CASE t # i
          BY <2>1, <4>2 DEF Inv, DataOK
      <4> QED
          BY <4>1, <4>2
    <3> QED
        BY <3>1 DEF Inv, DataOK, Slot
  <2>3. slots' \in [SlotIds -> Slot]
      BY <2>1, <2>2 DEF Inv, DataOK
  <2> QED
      BY <2>2, <2>3
<1>3. \A s \in SlotIds : slots[s] = NoSlot => slots'[s] = NoSlot
    BY NoSlotType DEF MarkSlot, Inv, DataOK
<1>4. DataOK' /\ RowsOK' /\ Grows
    BY <1>1, <1>2, <1>3, SlotChange DEF Inv, DataOK, RowsOK
<1> QED
    BY <1>1, <1>4, GoOn

LEMMA SelectSlotKeeps == ASSUME Inv, NEW r \in Requests, SelectSlot(r) PROVE Inv'
<1>1. /\ At(r, "select") /\ UNCHANGED <<rounds, nrounds, nslots, hiring, stage, logged, now, alone, desk>>
      /\ task[r].round \in 1 .. nrounds /\ (Continue(r) \/ Abort(r))
    BY RunningRound DEF SelectSlot
<1>2. slots' \in [SlotIds -> Slot] /\ \A s \in SlotIds : slots'[s].round = slots[s].round
  <2>1. \/ slots' = slots
        \/ slots' = [t \in SlotIds |-> IF slots[t].round = task[r].round
                                       THEN [slots[t] EXCEPT !.selected = (t = task[r].slot)] ELSE slots[t]]
      BY DEF SelectSlot
  <2>2. ASSUME NEW t \in SlotIds PROVE slots'[t] \in Slot /\ slots'[t].round = slots[t].round
    <3>1. \/ slots'[t] = slots[t] \/ slots'[t] = [slots[t] EXCEPT !.selected = TRUE]
          \/ slots'[t] = [slots[t] EXCEPT !.selected = FALSE]
        BY <2>1
    <3> QED
        BY <3>1 DEF Inv, DataOK, Slot
  <2>3. slots' \in [SlotIds -> Slot]
      BY <2>1, <2>2 DEF Inv, DataOK
  <2> QED
      BY <2>2, <2>3
<1>3. \A s \in SlotIds : slots[s] = NoSlot => slots'[s] = NoSlot
  <2>1. task[r].round # 0
      BY <1>1
  <2> QED
      BY <2>1, NoSlotType DEF SelectSlot
<1>4. DataOK' /\ RowsOK' /\ Grows
    BY <1>1, <1>2, <1>3, SlotChange DEF Inv, DataOK, RowsOK
<1> QED
    BY <1>1, <1>4, GoOn, GiveUp

LEMMA ClearSlotsKeeps == ASSUME Inv, NEW r \in Requests, ClearSlots(r) PROVE Inv'
<1>1. /\ At(r, "clear") /\ Continue(r) /\ UNCHANGED <<rounds, nrounds, nslots, hiring, stage, logged, now, alone, desk>>
      /\ slots' = [s \in SlotIds |-> IF s \in Kept(r) THEN slots[s] ELSE NoSlot]
    BY DEF ClearSlots
<1>2. /\ slots' \in [SlotIds -> Slot]
      /\ \A s \in SlotIds : slots'[s] = slots[s] \/ slots'[s] = NoSlot
    BY <1>1, NoSlotType DEF Inv, DataOK
<1>3. \A s \in SlotIds : slots'[s].round <= nrounds /\ (s > nslots' => slots'[s] = NoSlot)
    BY <1>1, <1>2, NoSlotType, InterviewsAssumption DEF Inv, DataOK, RowsOK, Ids
<1>4. DataOK' /\ RowsOK' /\ Grows
    BY <1>1, <1>2, <1>3, SlotChange DEF Inv, DataOK
<1> QED
    BY <1>1, <1>4, GoOn

\* The times of a task are finitely many.
LEMMA TimesFinite ==
    ASSUME NEW t \in Task
    PROVE  IsFiniteSet(t.times) /\ Cardinality(t.times) \in Nat /\ t.times \subseteq 0 .. MaxNow
<1>1. t.times \in SUBSET Times
    BY DEF Task
<1>2. IsFiniteSet(Times)
    BY FS_Interval, InterviewsAssumption DEF Times
<1>3. IsFiniteSet(t.times)
    BY <1>1, <1>2, FS_Subset
<1> QED
    BY <1>1, <1>3, FS_CardinalityType, InterviewsAssumption DEF Times

LEMMA PutSlotsKeep ==
    ASSUME Inv, NEW r \in Requests, NEW s, At(r, s), s \in {"slots", "offer"}, NEW kept, PutSlots(r, kept)
    PROVE  Inv'
<1> DEFINE n == Cardinality(task[r].times)
<1> DEFINE fresh == nslots + 1 .. nslots + n
<1>1. task[r].round \in 1 .. nrounds /\ task[r] \in Task
    BY RunningRound, Running
<1>2. n \in Nat /\ task[r].times \subseteq 0 .. MaxNow
    BY <1>1, TimesFinite
<1>3. /\ nslots + n <= MaxSlots /\ nslots' = nslots + n /\ Continue(r)
      /\ UNCHANGED <<rounds, nrounds, hiring, stage, logged, now, alone, desk>>
    BY DEF PutSlots
<1>4. PICK f \in [fresh -> task[r].times] :
          slots' = [t \in SlotIds |-> IF t \in fresh THEN [NoSlot EXCEPT !.round = task[r].round, !.at = f[t]]
                                      ELSE IF t \in kept THEN slots[t] ELSE NoSlot]
    BY DEF PutSlots
<1>5. \A t \in fresh : LET x == [NoSlot EXCEPT !.round = task[r].round, !.at = f[t]] IN
                         x \in Slot /\ x.round = task[r].round
    BY <1>1, <1>2 DEF NoSlot, Slot, Task
<1>6. slots' \in [SlotIds -> Slot]
    BY <1>4, <1>5, NoSlotType DEF Inv, DataOK
<1>7. nslots' \in 0 .. MaxSlots
    BY <1>2, <1>3 DEF Inv, DataOK
<1>8. ASSUME NEW t \in SlotIds PROVE slots'[t].round <= nrounds /\ (t > nslots' => slots'[t] = NoSlot)
  <2>1. CASE t \in fresh
    <3>1. slots'[t].round = task[r].round
        BY <1>4, <1>5, <2>1
    <3>2. ~(t > nslots')
        BY <1>2, <1>3, <2>1, Counts
    <3> QED
        BY <1>1, <3>1, <3>2, Counts
  <2>2. CASE t \notin fresh
    <3>1. slots'[t] = slots[t] \/ slots'[t] = NoSlot
        BY <1>4, <2>2
    <3>2. nslots' >= nslots /\ nslots \in Nat /\ nrounds \in Nat /\ t \in Nat
        BY <1>2, <1>3, InterviewsAssumption DEF Inv, DataOK, Ids, SlotIds
    <3> QED
        BY <3>1, <3>2, <1>7, NoSlotType DEF Inv, RowsOK
  <2> QED
      BY <2>1, <2>2
<1>9. DataOK' /\ RowsOK' /\ Grows
    BY <1>3, <1>6, <1>7, <1>8, SlotChange
<1> QED
    BY <1>3, <1>9, GoOn

LEMMA LookAtRoundKeeps == ASSUME Inv, NEW r \in Requests, LookAtRound(r) PROVE Inv'
<1>1. /\ At(r, "look") /\ UNCHANGED <<rounds, nrounds, slots, nslots, hiring, stage, logged, now, alone, desk>>
      /\ task' = [task EXCEPT ![r].was = Target(r).status, ![r].todo = Tail(@)]
    BY DEF LookAtRound
<1>2. PICK t : t = task[r]
    OBVIOUS
<1>3. PICK x : x = [t EXCEPT !.was = Target(r).status, !.todo = Tail(t.todo)]
    OBVIOUS
<1>4. t \in Task /\ Agrees(t) /\ t.todo \in Lists /\ Head(t.todo) = "look" /\ t.round \in 1 .. nrounds
    BY <1>1, <1>2, Running, RunningRound
<1>5. Target(r).status \in {"Scheduled", "Completed"} \union Schedulable /\ Target(r).status # "None"
    BY <1>1, RunningRound DEF Target, Round
<1>6. t.todo \in {<<"look", "result", "stage">>, <<"look", "result", "nextRound", "offer", "stage">>}
    BY <1>4, ListOf
<1>7. /\ Tail(<<"look", "result", "stage">>) = <<"result", "stage">>
      /\ Tail(<<"look", "result", "nextRound", "offer", "stage">>) = <<"result", "nextRound", "offer", "stage">>
      /\ Head(<<"result", "stage">>) = "result" /\ Head(<<"result", "nextRound", "offer", "stage">>) = "result"
    OBVIOUS
<1>8. Tail(t.todo) \in ResultLists /\ Tail(t.todo) \in Lists /\ Head(Tail(t.todo)) = "result"
    BY <1>6, <1>7 DEF ResultLists, Lists, PortalLists
<1>9. x \in Task /\ x.todo = Tail(t.todo) /\ x.round = t.round /\ x.was = Target(r).status /\ x.number = t.number
  <2>1. Tail(t.todo) \in Seq(Statements)
      BY <1>8, ListType
  <2> QED
      BY <1>3, <1>4, <1>5, <2>1 DEF Task
<1>10. Agrees(x)
  <2>1. x.todo \notin DecideLists \union NextLists \union HireLists
      BY <1>8, <1>9, HeadsAre
  <2>2. x.todo \in NextRoundLists => t.todo \in NextRoundLists
    <3>1. <<"result", "stage">> \notin NextRoundLists
        BY DEF NextRoundLists
    <3> QED
        BY <1>6, <1>7, <1>9, <3>1 DEF NextRoundLists
  <2> QED
      BY <1>4, <1>5, <1>8, <1>9, <2>1, <2>2 DEF Agrees
<1>11. DataOK' /\ RowsOK' /\ Grows
    BY <1>1, Counts DEF Inv, DataOK, RowsOK, Grows
<1>12. Agrees(x)'
    BY <1>10, <1>11, Stable DEF DataOK
<1>13. task' = [task EXCEPT ![r] = x]
    BY <1>1, <1>2, <1>3
<1> QED
    BY <1>9, <1>11, <1>12, <1>13, TaskStep

LEMMA FindFailedKeeps == ASSUME Inv, NEW r \in Requests, FindFailed(r) PROVE Inv'
<1> DEFINE failed == {i \in 1 .. nrounds : rounds[i].result = "Failed"}
<1>1. /\ failed = {} => Abort(r)
      /\ failed # {} => \E i \in failed :
             task' = [task EXCEPT ![r].round = i, ![r].at = rounds[i].at, ![r].todo = Tail(@)]
    BY DEF FindFailed
<1>2. At(r, "find") /\ UNCHANGED <<rounds, nrounds, slots, nslots, hiring, stage, logged, now, alone, desk>>
    BY DEF FindFailed
<1>3. DataOK' /\ RowsOK' /\ Grows
    BY <1>2, Counts DEF Inv, DataOK, RowsOK, Grows
<1>4. CASE Abort(r)
    BY <1>3, <1>4, GiveUp
<1>5. ASSUME NEW i \in 1 .. nrounds,
             task' = [task EXCEPT ![r].round = i, ![r].at = rounds[i].at, ![r].todo = Tail(@)]
      PROVE  Inv'
  <2>1. PICK t : t = task[r]
      OBVIOUS
  <2>2. PICK x : x = [t EXCEPT !.round = i, !.at = rounds[i].at, !.todo = <<"reopen">>]
      OBVIOUS
  <2>3. t \in Task /\ t.todo \in Lists /\ Head(t.todo) = "find"
      BY <1>2, <2>1, Running
  <2>4. Tail(t.todo) = <<"reopen">>
      BY <2>3, TailOf
  <2>5. rounds[i].at \in 0 .. MaxNow /\ i \in 0 .. MaxRounds
      BY Counts DEF Inv, DataOK, Round
  <2>6. <<"reopen">> \in Seq(Statements) /\ <<"reopen">> \in Lists /\ Head(<<"reopen">>) = "reopen"
    <3>1. <<"reopen">> \in Lists
        BY DEF Lists, PortalLists
    <3> QED
        BY <3>1, ListType
  <2>7. x \in Task /\ x.todo = <<"reopen">> /\ x.round = i
      BY <2>2, <2>3, <2>5, <2>6 DEF Task
  <2>8. x.todo \notin DecideLists \union NextLists \union HireLists \union ResultLists \union NextRoundLists
      BY <2>6, <2>7, HeadsAre
  <2>9. Agrees(x)
      BY <2>6, <2>7, <2>8 DEF Agrees
  <2>10. Agrees(x)'
      BY <1>3, <2>9, Stable DEF DataOK
  <2>11. task' = [task EXCEPT ![r] = x]
      BY <1>5, <2>1, <2>2, <2>4
  <2> QED
      BY <1>3, <2>7, <2>10, <2>11, TaskStep
<1>6. CASE failed # {}
  <2>1. PICK i \in failed : task' = [task EXCEPT ![r].round = i, ![r].at = rounds[i].at, ![r].todo = Tail(@)]
      BY <1>1, <1>6
  <2> QED
      BY <2>1, <1>5
<1> QED
    BY <1>1, <1>4, <1>6

LEMMA NewRoundType ==
    ASSUME NEW n \in Nat \ {0}, NEW final \in BOOLEAN
    PROVE  LET row == NewRound(n, final) IN
           /\ row \in Round /\ row.status = "Pending" /\ row.number = n /\ row.final = final
           /\ row.decision = "None" /\ row.mailed = "None" /\ row.result = "Pending"
           /\ row.invites = 0 /\ row.releases = 0
BY InterviewsAssumption DEF NewRound, Round, Schedulable, Results, FinalNumber

\* A round is added after the others.
LEMMA OpenRoundKeeps ==
    ASSUME Inv, NEW r \in Requests, NEW s, NEW n \in Nat \ {0}, NEW final \in BOOLEAN, NEW t \in Task,
           OpenRound(r, s, NewRound(n, final), t), Agrees(t)'
    PROVE  Inv'
<1> DEFINE row == NewRound(n, final)
<1>1. row \in Round /\ row.status = "Pending" /\ row.number = n
    BY NewRoundType
<1> HIDE DEF row
<1>2. /\ nrounds < MaxRounds /\ nrounds' = nrounds + 1 /\ rounds' = [rounds EXCEPT ![nrounds + 1] = row]
      /\ task' = [task EXCEPT ![r] = t]
      /\ UNCHANGED <<slots, nslots, hiring, stage, logged, now, alone, desk>>
    BY DEF OpenRound, row
<1>3. nrounds \in Nat /\ nrounds + 1 \in Ids /\ Ids = 1 .. MaxRounds
    BY <1>2, Counts DEF Ids
<1>4. DataOK'
    BY <1>1, <1>2, <1>3 DEF Inv, DataOK
<1>5. RowsOK'
  <2>1. ASSUME NEW i \in Ids
        PROVE  IF i <= nrounds' THEN rounds'[i].status # "None" /\ rounds'[i].number >= 1 ELSE rounds'[i] = NoRound
    <3>1. CASE i = nrounds + 1
        BY <1>1, <1>2, <1>3, <3>1 DEF Inv, DataOK
    <3>2. CASE i # nrounds + 1
        BY <1>2, <1>3, <3>2 DEF Inv, DataOK, RowsOK
    <3> QED
        BY <3>1, <3>2
  <2>2. \A u \in SlotIds : slots'[u].round <= nrounds' /\ (u > nslots' => slots'[u] = NoSlot)
    <3>1. \A u \in SlotIds : slots[u].round \in Nat
        BY InterviewsAssumption DEF Inv, DataOK, Slot
    <3> QED
        BY <1>2, <1>3, <3>1 DEF Inv, RowsOK
  <2> QED
      BY <2>1, <2>2 DEF RowsOK
<1>6. Grows
    BY <1>2, <1>3 DEF Inv, DataOK, Grows
<1> QED
    BY <1>2, <1>4, <1>5, <1>6, TaskStep

LEMMA OpenNextRoundKeeps == ASSUME Inv, NEW r \in Requests, OpenNextRound(r) PROVE Inv'
<1>1. At(r, "next") /\ nrounds' = nrounds + 1 /\ nrounds < MaxRounds
    BY DEF OpenNextRound, OpenRound
<1>2. PICK t : t = task[r]
    OBVIOUS
<1>3. t \in Task /\ Agrees(t) /\ t.todo \in Lists /\ Head(t.todo) = "next"
    BY <1>1, <1>2, Running
<1>4. t.todo \in NextLists
    BY <1>3, ListOf
<1>5. t.round \in 1 .. nrounds /\ rounds[t.round].number \in Nat /\ rounds[t.round].number >= 1
      /\ rounds[t.round].number < MaxRounds
  <2>1. rounds[t.round].number \in Nat
      BY <1>1, <1>2, RunningRound DEF Round
  <2> QED
      BY <1>1, <1>2, <1>3, <1>4, <2>1, RunningRound DEF Agrees
<1>6. PICK n \in Nat \ {0} : n = Target(r).number + 1
    BY <1>2, <1>5 DEF Target
<1>7. PICK final \in BOOLEAN : final = (t.decision = "FinalRound")
    OBVIOUS
<1>8. Tail(t.todo) \in StageLists
    BY <1>3, TailOf
<1>9. PICK x : x = [t EXCEPT !.todo = Tail(t.todo)]
    OBVIOUS
<1>10. x = Rest(t) /\ x.todo = Tail(t.todo)
  <2>1. Tail(t.todo) # <<>>
      BY <1>8, ListOf DEF Lists, DeskLists
  <2> QED
      BY <1>3, <1>9, <2>1 DEF Rest, Task
<1>11. x \in Task /\ Agrees(x)
    BY <1>3, <1>10, RestAgrees
<1>12. Agrees(x)'
  <2>1. x.todo \notin DecideLists \union NextLists \union HireLists \union ResultLists \union NextRoundLists
      BY <1>8, <1>10, HeadsAre
  <2>2. 1 .. nrounds \subseteq 1 .. nrounds'
      BY <1>1, Counts
  <2> QED
      BY <1>11, <2>1, <2>2 DEF Agrees
<1>13. OpenRound(r, "next", NewRound(n, final), x)
    BY <1>2, <1>6, <1>7, <1>9 DEF OpenNextRound
<1> QED
    BY <1>11, <1>12, <1>13, OpenRoundKeeps

LEMMA CreateRoundKeeps == ASSUME Inv, NEW r \in Requests, CreateRound(r) PROVE Inv'
<1>1. At(r, "nextRound") /\ nrounds' = nrounds + 1 /\ nrounds < MaxRounds
    BY DEF CreateRound, OpenRound
<1>2. PICK t : t = task[r]
    OBVIOUS
<1>3. t \in Task /\ Agrees(t) /\ t.todo \in Lists /\ Head(t.todo) = "nextRound"
    BY <1>1, <1>2, Running
<1>4. t.number \in 1 .. FinalNumber
    BY <1>3, ListOf DEF Agrees, NextRoundLists
<1>5. Tail(t.todo) = <<"offer", "stage">>
    BY <1>3, TailOf
<1>6. PICK x : x = [t EXCEPT !.round = nrounds + 1, !.todo = Tail(t.todo)]
    OBVIOUS
<1>7. nrounds + 1 \in 1 .. nrounds' /\ nrounds + 1 \in 0 .. MaxRounds
    BY <1>1, Counts
<1>8. /\ <<"offer", "stage">> \in Lists /\ <<"offer", "stage">> \in Seq(Statements)
      /\ Head(<<"offer", "stage">>) = "offer"
  <2>1. <<"offer", "stage">> \in Lists
      BY DEF Lists, PortalLists
  <2>2. <<"offer", "stage">> \in Seq(Statements)
      BY <2>1, ListType
  <2> QED
      BY <2>1, <2>2
<1>9. x \in Task /\ x.round = nrounds + 1 /\ x.todo = <<"offer", "stage">>
    BY <1>3, <1>5, <1>6, <1>7, <1>8 DEF Task
<1>10. Agrees(x)'
  <2>1. x.todo \notin DecideLists \union NextLists \union HireLists \union ResultLists \union NextRoundLists
      BY <1>8, <1>9, HeadsAre
  <2> QED
      BY <1>7, <1>8, <1>9, <2>1 DEF Agrees
<1>11. OpenRound(r, "nextRound", NewRound(t.number, FALSE), x)
    BY <1>2, <1>6 DEF CreateRound
<1>12. t.number \in Nat \ {0}
    BY <1>4 DEF FinalNumber
<1> QED
    BY <1>9, <1>10, <1>11, <1>12, OpenRoundKeeps

LEMMA HiringKeeps ==
    ASSUME Inv, NEW r \in Requests, LiftHold(r) \/ Hold(r) \/ Hire(r)
    PROVE  Inv'
<1>1. /\ At(r, "liftHold") \/ At(r, "hold") \/ At(r, "hire")
      /\ Continue(r) /\ UNCHANGED <<rounds, nrounds, slots, nslots, stage, logged, now, alone, desk>>
      /\ hiring' \in [selected : BOOLEAN, onHold : BOOLEAN]
  <2>1. hiring \in [selected : BOOLEAN, onHold : BOOLEAN]
      BY DEF Inv, DataOK
  <2>2. PICK b \in BOOLEAN, c \in BOOLEAN : hiring' = [hiring EXCEPT !.onHold = b] \/ hiring' = [selected |-> c, onHold |-> b]
      BY DEF LiftHold, Hold, Hire, SetHiring
  <2> QED
      BY <2>1, <2>2 DEF LiftHold, Hold, Hire, SetHiring
<1>2. DataOK' /\ RowsOK' /\ Grows
    BY <1>1, Counts DEF Inv, DataOK, RowsOK, Grows
<1> QED
    BY <1>1, <1>2, GoOn

LEMMA TransitionKeeps == ASSUME Inv, NEW r \in Requests, Transition(r) PROVE Inv'
<1>1. /\ At(r, "stage") /\ Continue(r) /\ stage' = task[r].stage /\ (logged' = logged \/ logged' = task[r].stage)
      /\ UNCHANGED <<rounds, nrounds, slots, nslots, hiring, now, alone, desk>>
    BY DEF Transition
<1>2. task[r].stage \in Stages
    BY <1>1, Running DEF Task
<1>3. DataOK' /\ RowsOK' /\ Grows
    BY <1>1, <1>2, Counts DEF Inv, DataOK, RowsOK, Grows
<1> QED
    BY <1>1, <1>3, GoOn

LEMMA StepKeeps == ASSUME Inv, NEW r \in Requests, Step(r) PROVE Inv'
<1>1. CASE ReplaceSlots(r) \/ OfferSlots(r)
    BY <1>1, PutSlotsKeep DEF ReplaceSlots, OfferSlots
<1>2. CASE MarkSlot(r) \/ SelectSlot(r) \/ ClearSlots(r)
    BY <1>2, MarkSlotKeeps, SelectSlotKeeps, ClearSlotsKeeps
<1>3. CASE ClaimSlot(r) \/ ClaimDecision(r) \/ Release(r)
    BY <1>3, ClaimSlotKeeps, ClaimDecisionKeeps, ReleaseKeeps
<1>4. CASE \/ SendInvites(r) \/ Complete(r) \/ Join(r) \/ Unjoin(r) \/ SendMail(r) \/ Unschedule(r)
           \/ RecordResult(r) \/ ReopenRound(r)
    BY <1>4, OverwritesKeep
<1>5. CASE OpenNextRound(r) \/ CreateRound(r) \/ LookAtRound(r) \/ FindFailed(r)
    BY <1>5, OpenNextRoundKeeps, CreateRoundKeeps, LookAtRoundKeeps, FindFailedKeeps
<1>6. CASE LiftHold(r) \/ Hold(r) \/ Hire(r) \/ Transition(r)
    BY <1>6, HiringKeeps, TransitionKeeps
<1> QED
    BY <1>1, <1>2, <1>3, <1>4, <1>5, <1>6 DEF Step

-----------------------------------------------------------------------------
(* Handlers beginning.                                                     *)

LEMMA StageForType ==
    ASSUME NEW row, row.number \in Nat, row.number >= 1
    PROVE  StageFor(row) \in Stages
<1>1. CASE row.final \/ row.number >= FinalNumber
    BY <1>1 DEF StageFor, Stages
<1>2. CASE ~(row.final \/ row.number >= FinalNumber)
  <2>1. row.number \in {1, 2, 3}
      BY <1>2 DEF FinalNumber
  <2>2. <<"INTERVIEW_R1", "INTERVIEW_R2", "INTERVIEW_R3">>[row.number] \in Stages
      BY <2>1 DEF Stages
  <2> QED
      BY <1>2, <2>2 DEF StageFor
<1> QED
    BY <1>1, <1>2

LEMMA BeginKeeps ==
    ASSUME Inv, NEW r \in Requests, NEW t \in Task, Agrees(t), NEW d \in {"none", "q3", "portal"}, BeginAt(r, d, t)
    PROVE  Inv'
<1>1. /\ task' = [task EXCEPT ![r] = t] /\ desk' = d /\ alone' = (alone /\ Quiet)
      /\ UNCHANGED <<rounds, nrounds, slots, nslots, hiring, stage, logged, now>>
    BY DEF BeginAt
<1>2. alone' \in BOOLEAN
  <2>1. (alone /\ Quiet) \in BOOLEAN
      BY Zenon DEF Quiet
  <2> QED
      BY <1>1, <2>1
<1>3. DataOK' /\ RowsOK' /\ Grows
    BY <1>1, <1>2, Counts DEF Inv, DataOK, RowsOK, Grows
<1>4. Agrees(t)'
    BY <1>3, Stable DEF DataOK
<1> QED
    BY <1>1, <1>3, <1>4, TaskStep

\* A handler other than a decision relies on nothing but its round.
PlainLists ==
    {<<"slots">>, <<"markUnavailable">>, <<"markAvailable">>, <<"claimSlot", "select", "stage", "invite">>,
     <<"release", "stage">>, <<"joined">>, <<"unjoined">>, <<"complete", "stage">>, <<"mail">>,
     <<"clear", "offer", "unschedule">>, <<"look", "result", "stage">>, <<"stage", "find", "reopen">>, <<"stage">>}

LEMMA PlainType == \A l \in PlainLists : l \in Lists /\ l \in Seq(Statements) /\ l # <<>>
<1>1. \A l \in PlainLists : l \in Lists
    BY DEF PlainLists, Lists, DeskLists, OneLists, BookLists, StageLists, PortalLists
<1> QED
    BY <1>1, ListType, ListOf

LEMMA PlainAgrees ==
    ASSUME NEW t, t.todo \in PlainLists,
           t.todo \in {<<"stage">>, <<"stage", "find", "reopen">>} \/ t.round \in 1 .. nrounds
    PROVE  Agrees(t)
<1>1. \A l \in PlainLists : Head(l) \notin {"decide", "next", "hire", "result"} /\ l \notin NextRoundLists
    BY DEF PlainLists, NextRoundLists
<1>2. t.todo \notin DecideLists \union NextLists \union HireLists \union ResultLists \union NextRoundLists
    BY <1>1, HeadsAre
<1> QED
    BY <1>2, PlainType DEF Agrees, RoundlessLists

\* What each handler begins with.
LEMMA EditBegins ==
    ASSUME Inv, NEW r \in Requests, NEW i \in 1 .. nrounds, NEW times \in SUBSET Times, EditRound(r, i, times)
    PROVE  \E t \in Task : /\ Agrees(t) /\ Begin(r, t)
                           /\ t.todo = <<"slots">> /\ t.round = i /\ t.times = times
                           /\ rounds[i].status \in Schedulable
<1> DEFINE t == [Resting EXCEPT !.round = i, !.times = times, !.todo = <<"slots">>]
<1>1. Begin(r, t) /\ rounds[i].status \in Schedulable
    BY DEF EditRound
<1>2. i \in 0 .. MaxRounds
    BY Counts
<1>3. <<"slots">> \in PlainLists
    BY DEF PlainLists
<1>4. t \in Task /\ t.todo = <<"slots">> /\ t.round = i /\ t.times = times
    BY <1>2, <1>3, RestingType, PlainType DEF Task
<1> HIDE DEF t
<1>5. Agrees(t)
    BY <1>2, <1>3, <1>4, PlainAgrees
<1> QED
    BY <1>1, <1>4, <1>5

LEMMA JoinBegins ==
    ASSUME Inv, NEW r \in Requests, NEW i \in 1 .. nrounds, Checklist(r, i, TRUE)
    PROVE  \E t \in Task : /\ Agrees(t) /\ Begin(r, t)
                           /\ t.todo = <<"joined">> /\ t.round = i
                           /\ rounds[i].status = "Scheduled"
<1> DEFINE t == [Resting EXCEPT !.round = i, !.todo = <<"joined">>]
<1>1. Begin(r, t) /\ rounds[i].status = "Scheduled"
    BY DEF Checklist
<1>2. i \in 0 .. MaxRounds
    BY Counts
<1>3. <<"joined">> \in PlainLists
    BY DEF PlainLists
<1>4. t \in Task /\ t.todo = <<"joined">> /\ t.round = i
    BY <1>2, <1>3, RestingType, PlainType DEF Task
<1> HIDE DEF t
<1>5. Agrees(t)
    BY <1>2, <1>3, <1>4, PlainAgrees
<1> QED
    BY <1>1, <1>4, <1>5

LEMMA UnjoinBegins ==
    ASSUME Inv, NEW r \in Requests, NEW i \in 1 .. nrounds, Checklist(r, i, FALSE)
    PROVE  \E t \in Task : /\ Agrees(t) /\ Begin(r, t)
                           /\ t.todo = <<"unjoined">> /\ t.round = i
                           /\ rounds[i].status = "Scheduled"
<1> DEFINE t == [Resting EXCEPT !.round = i, !.todo = <<"unjoined">>]
<1>1. Begin(r, t) /\ rounds[i].status = "Scheduled"
    BY DEF Checklist
<1>2. i \in 0 .. MaxRounds
    BY Counts
<1>3. <<"unjoined">> \in PlainLists
    BY DEF PlainLists
<1>4. t \in Task /\ t.todo = <<"unjoined">> /\ t.round = i
    BY <1>2, <1>3, RestingType, PlainType DEF Task
<1> HIDE DEF t
<1>5. Agrees(t)
    BY <1>2, <1>3, <1>4, PlainAgrees
<1> QED
    BY <1>1, <1>4, <1>5

LEMMA ConductedBegins ==
    ASSUME Inv, NEW r \in Requests, NEW i \in 1 .. nrounds, Conducted(r, i)
    PROVE  \E t \in Task : /\ Agrees(t) /\ Begin(r, t)
                           /\ t.todo = <<"complete", "stage">> /\ t.round = i /\ t.stage = "INTERVIEW_ATTENDED"
                           /\ rounds[i].status = "Scheduled"
<1> DEFINE t == [Resting EXCEPT !.round = i, !.stage = "INTERVIEW_ATTENDED", !.todo = <<"complete", "stage">>]
<1>1. Begin(r, t) /\ rounds[i].status = "Scheduled"
    BY DEF Conducted
<1>2. i \in 0 .. MaxRounds /\ "INTERVIEW_ATTENDED" \in Stages
    BY Counts DEF Stages
<1>3. <<"complete", "stage">> \in PlainLists
    BY DEF PlainLists
<1>4. t \in Task /\ t.todo = <<"complete", "stage">> /\ t.round = i /\ t.stage = "INTERVIEW_ATTENDED"
    BY <1>2, <1>3, RestingType, PlainType DEF Task
<1> HIDE DEF t
<1>5. Agrees(t)
    BY <1>2, <1>3, <1>4, PlainAgrees
<1> QED
    BY <1>1, <1>4, <1>5

LEMMA MailBegins ==
    ASSUME Inv, NEW r \in Requests, NEW i \in 1 .. nrounds, SendDecisionMail(r, i)
    PROVE  \E t \in Task : /\ Agrees(t) /\ Begin(r, t)
                           /\ t.todo = <<"mail">> /\ t.round = i /\ t.decision = rounds[i].decision
                           /\ rounds[i].decision # "None"
<1> DEFINE t == [Resting EXCEPT !.round = i, !.decision = rounds[i].decision, !.todo = <<"mail">>]
<1>1. Begin(r, t) /\ rounds[i].decision # "None"
    BY DEF SendDecisionMail
<1>2. i \in 0 .. MaxRounds /\ rounds[i].decision \in {"None"} \union Decisions
    BY Counts DEF Inv, DataOK, Round
<1>3. <<"mail">> \in PlainLists
    BY DEF PlainLists
<1>4. t \in Task /\ t.todo = <<"mail">> /\ t.round = i /\ t.decision = rounds[i].decision
    BY <1>2, <1>3, RestingType, PlainType DEF Task
<1> HIDE DEF t
<1>5. Agrees(t)
    BY <1>2, <1>3, <1>4, PlainAgrees
<1> QED
    BY <1>1, <1>4, <1>5

LEMMA RescheduleBegins ==
    ASSUME Inv, NEW r \in Requests, NEW i \in 1 .. nrounds, Reschedule(r, i)
    PROVE  \E t \in Task : /\ Agrees(t) /\ Begin(r, t)
                           /\ t.todo = <<"release", "stage">> /\ t.round = i
                           /\ t.stage \in {"INTERVIEW_NOT_ATTENDED", "RESCHEDULE_REQUESTED"}
                           /\ rounds[i].status = "Scheduled"
<1> DEFINE st == IF rounds[i].at <= now /\ ~rounds[i].joined THEN "INTERVIEW_NOT_ATTENDED" ELSE "RESCHEDULE_REQUESTED"
<1> DEFINE t == [Resting EXCEPT !.round = i, !.stage = st, !.todo = <<"release", "stage">>]
<1>1. Begin(r, t) /\ rounds[i].status = "Scheduled"
    BY DEF Reschedule
<1>2. i \in 0 .. MaxRounds /\ st \in {"INTERVIEW_NOT_ATTENDED", "RESCHEDULE_REQUESTED"}
    BY Counts
<1>3. {"INTERVIEW_NOT_ATTENDED", "RESCHEDULE_REQUESTED"} \subseteq Stages
    BY DEF Stages
<1>4. <<"release", "stage">> \in PlainLists
    BY DEF PlainLists
<1> HIDE DEF st
<1>5. t \in Task /\ t.todo = <<"release", "stage">> /\ t.round = i /\ t.stage = st
    BY <1>2, <1>3, <1>4, RestingType, PlainType DEF Task
<1> HIDE DEF t
<1>6. Agrees(t)
    BY <1>4, <1>5, PlainAgrees
<1> QED
    BY <1>1, <1>2, <1>5, <1>6

LEMMA SlotRound ==
    ASSUME Inv, NEW s \in SlotIds, slots[s].round # 0
    PROVE  slots[s].round \in 1 .. nrounds /\ slots[s].round \in Ids /\ s \in 0 .. MaxSlots
           /\ slots[s] \in Slot /\ rounds[slots[s].round] \in Round /\ slots[s].at \in 0 .. MaxNow
<1>1. slots[s] \in Slot /\ slots[s].round \in 0 .. MaxRounds /\ slots[s].at \in 0 .. MaxNow
    BY DEF Inv, DataOK, Slot
<1>2. slots[s].round \in 1 .. nrounds
    BY <1>1, Counts DEF Inv, RowsOK
<1>3. s \in 0 .. MaxSlots
    BY InterviewsAssumption DEF SlotIds
<1> QED
    BY <1>1, <1>2, <1>3, Counts DEF Inv, DataOK

LEMMA AvailabilityBegins ==
    ASSUME Inv, NEW r \in Requests, NEW s \in SlotIds, NEW unavailable \in BOOLEAN,
           SetSlotUnavailable(r, s, unavailable)
    PROVE  \E t \in Task : /\ Agrees(t) /\ Begin(r, t)
                           /\ t.todo \in {<<"markUnavailable">>, <<"markAvailable">>}
                           /\ t.slot = s /\ t.round = slots[s].round /\ slots[s].round # 0
                           /\ ~(slots[s].selected /\ rounds[slots[s].round].status = "Scheduled")
<1> DEFINE l == IF unavailable THEN <<"markUnavailable">> ELSE <<"markAvailable">>
<1> DEFINE t == [Resting EXCEPT !.round = slots[s].round, !.slot = s, !.todo = l]
<1>1. /\ Begin(r, t) /\ slots[s].round # 0
      /\ ~(slots[s].selected /\ rounds[slots[s].round].status = "Scheduled")
    BY DEF SetSlotUnavailable
<1>2. l \in {<<"markUnavailable">>, <<"markAvailable">>}
    OBVIOUS
<1>3. {<<"markUnavailable">>, <<"markAvailable">>} \subseteq PlainLists
    BY DEF PlainLists
<1>4. slots[s].round \in 1 .. nrounds /\ slots[s].round \in 0 .. MaxRounds /\ s \in 0 .. MaxSlots
    BY <1>1, SlotRound, Counts
<1> HIDE DEF l
<1>5. t \in Task /\ t.todo = l /\ t.round = slots[s].round /\ t.slot = s
    BY <1>2, <1>3, <1>4, RestingType, PlainType DEF Task
<1> HIDE DEF t
<1>6. Agrees(t)
    BY <1>2, <1>3, <1>4, <1>5, PlainAgrees
<1> QED
    BY <1>1, <1>2, <1>5, <1>6

LEMMA ConfirmBegins ==
    ASSUME Inv, NEW r \in Requests, NEW s \in SlotIds, Confirm(r, s)
    PROVE  \E t \in Task : /\ Agrees(t) /\ Begin(r, t)
                           /\ t.todo = <<"claimSlot", "select", "stage", "invite">>
                           /\ t.slot = s /\ t.round = slots[s].round /\ t.at = slots[s].at /\ slots[s].round # 0
                           /\ t.stage = StageFor(rounds[slots[s].round])
                           /\ rounds[slots[s].round].status \in Schedulable /\ ~slots[s].unavailable
<1> DEFINE l == <<"claimSlot", "select", "stage", "invite">>
<1> DEFINE st == StageFor(rounds[slots[s].round])
<1> DEFINE t == [Resting EXCEPT !.round = slots[s].round, !.slot = s, !.at = slots[s].at, !.stage = st, !.todo = l]
<1>1. /\ Begin(r, t) /\ slots[s].round # 0
      /\ rounds[slots[s].round].status \in Schedulable /\ ~slots[s].unavailable
    BY DEF Confirm
<1>2. l \in PlainLists
    BY DEF PlainLists
<1>3. /\ slots[s].round \in 1 .. nrounds /\ slots[s].round \in 0 .. MaxRounds /\ s \in 0 .. MaxSlots
      /\ slots[s].at \in 0 .. MaxNow
    BY <1>1, SlotRound, Counts
<1>4. st \in Stages
  <2>1. rounds[slots[s].round].number \in Nat /\ rounds[slots[s].round].number >= 1
      BY <1>1, <1>3, SlotRound DEF Inv, RowsOK, Round
  <2> QED
      BY <2>1, StageForType
<1> HIDE DEF l, st
<1>5. t \in Task /\ t.todo = l /\ t.round = slots[s].round /\ t.slot = s /\ t.at = slots[s].at /\ t.stage = st
    BY <1>2, <1>3, <1>4, RestingType, PlainType DEF Task
<1> HIDE DEF t
<1>6. Agrees(t)
    BY <1>2, <1>3, <1>5, PlainAgrees
<1> QED
    BY <1>1, <1>5, <1>6 DEF l, st

LEMMA OfferBegins ==
    ASSUME Inv, NEW r \in Requests, NEW i \in 1 .. nrounds, NEW times \in SUBSET Times, AddSlots(r, i, times)
    PROVE  \E t \in Task : /\ Agrees(t) /\ BeginAt(r, "portal", t)
                           /\ t.todo = <<"clear", "offer", "unschedule">> /\ t.round = i /\ t.times = times
                           /\ rounds[i].status # "Completed" /\ desk \in {"none", "portal"}
<1> DEFINE l == <<"clear", "offer", "unschedule">>
<1> DEFINE t == [Resting EXCEPT !.round = i, !.times = times, !.todo = l]
<1>1. BeginAt(r, "portal", t) /\ rounds[i].status # "Completed" /\ desk \in {"none", "portal"}
    BY DEF AddSlots, Answers
<1>2. l \in PlainLists /\ i \in 0 .. MaxRounds
    BY Counts DEF PlainLists
<1> HIDE DEF l
<1>3. t \in Task /\ t.todo = l /\ t.round = i /\ t.times = times
    BY <1>2, RestingType, PlainType DEF Task
<1> HIDE DEF t
<1>4. Agrees(t)
    BY <1>2, <1>3, PlainAgrees
<1> QED
    BY <1>1, <1>3, <1>4 DEF l

LEMMA UndoBegins ==
    ASSUME Inv, NEW r \in Requests, UndoDecision(r)
    PROVE  \E t \in Task : /\ Agrees(t) /\ BeginAt(r, "portal", t)
                           /\ t.todo = IF stage = "REJECTED" /\ logged \in FromInterview
                                      THEN <<"stage", "find", "reopen">> ELSE <<"stage">>
                           /\ t.stage = logged /\ stage \in Marks /\ desk \in {"none", "portal"}
<1> DEFINE l == IF stage = "REJECTED" /\ logged \in FromInterview THEN <<"stage", "find", "reopen">> ELSE <<"stage">>
<1> DEFINE t == [Resting EXCEPT !.stage = logged, !.todo = l]
<1>1. BeginAt(r, "portal", t) /\ stage \in Marks /\ desk \in {"none", "portal"}
    BY DEF UndoDecision, Answers
<1>2. l \in {<<"stage">>, <<"stage", "find", "reopen">>}
    OBVIOUS
<1>3. {<<"stage">>, <<"stage", "find", "reopen">>} \subseteq PlainLists
    BY DEF PlainLists
<1> HIDE DEF l
<1>4. t \in Task /\ t.todo = l /\ t.stage = logged
    BY <1>2, <1>3, RestingType, PlainType DEF Task, Inv, DataOK
<1> HIDE DEF t
<1>5. t.todo \in PlainLists /\ t.todo \in {<<"stage">>, <<"stage", "find", "reopen">>}
    BY <1>2, <1>3, <1>4
<1>6. Agrees(t)
    BY <1>5, PlainAgrees
<1> QED
    BY <1>1, <1>4, <1>6 DEF l

\* Joined lists of statements, written out.
LEMMA Join11 ==
    ASSUME NEW a \in Statements, NEW b \in Statements
    PROVE  <<a>> \o <<b>> = <<a, b>>
<1> DEFINE l == <<a>> \o <<b>>
<1>1. <<a>> \in Seq(Statements) /\ <<b>> \in Seq(Statements) /\ <<a, b>> \in Seq(Statements)
      /\ Len(<<a>>) = 1 /\ Len(<<b>>) = 1 /\ Len(<<a, b>>) = 2
    OBVIOUS
<1>2. l \in Seq(Statements) /\ Len(l) = 2
    BY <1>1
<1>3. l[1] = a /\ l[2] = b
    BY <1>1
<1> HIDE DEF l
<1>4. l = <<a, b>>
    BY <1>1, <1>2, <1>3
<1> QED
    BY <1>4 DEF l

LEMMA Join12 ==
    ASSUME NEW a \in Statements, NEW b \in Statements, NEW c \in Statements
    PROVE  <<a>> \o <<b, c>> = <<a, b, c>>
<1> DEFINE l == <<a>> \o <<b, c>>
<1>1. <<a>> \in Seq(Statements) /\ <<b, c>> \in Seq(Statements) /\ <<a, b, c>> \in Seq(Statements)
      /\ Len(<<a>>) = 1 /\ Len(<<b, c>>) = 2 /\ Len(<<a, b, c>>) = 3
    OBVIOUS
<1>2. l \in Seq(Statements) /\ Len(l) = 3
    BY <1>1
<1>3. l[1] = a /\ l[2] = b /\ l[3] = c
    BY <1>1
<1> HIDE DEF l
<1>4. l = <<a, b, c>>
    BY <1>1, <1>2, <1>3
<1> QED
    BY <1>4 DEF l

LEMMA Join13 ==
    ASSUME NEW a \in Statements, NEW b \in Statements, NEW c \in Statements, NEW d \in Statements
    PROVE  <<a>> \o <<b, c, d>> = <<a, b, c, d>>
<1> DEFINE l == <<a>> \o <<b, c, d>>
<1>1. <<a>> \in Seq(Statements) /\ <<b, c, d>> \in Seq(Statements) /\ <<a, b, c, d>> \in Seq(Statements)
      /\ Len(<<a>>) = 1 /\ Len(<<b, c, d>>) = 3 /\ Len(<<a, b, c, d>>) = 4
    OBVIOUS
<1>2. l \in Seq(Statements) /\ Len(l) = 4
    BY <1>1
<1>3. l[1] = a /\ l[2] = b /\ l[3] = c /\ l[4] = d
    BY <1>1
<1> HIDE DEF l
<1>4. l = <<a, b, c, d>>
    BY <1>1, <1>2, <1>3
<1> QED
    BY <1>4 DEF l

LEMMA Join21 ==
    ASSUME NEW a \in Statements, NEW b \in Statements, NEW c \in Statements
    PROVE  <<a, b>> \o <<c>> = <<a, b, c>>
<1> DEFINE l == <<a, b>> \o <<c>>
<1>1. <<a, b>> \in Seq(Statements) /\ <<c>> \in Seq(Statements) /\ <<a, b, c>> \in Seq(Statements)
      /\ Len(<<a, b>>) = 2 /\ Len(<<c>>) = 1 /\ Len(<<a, b, c>>) = 3
    OBVIOUS
<1>2. l \in Seq(Statements) /\ Len(l) = 3
    BY <1>1
<1>3. l[1] = a /\ l[2] = b /\ l[3] = c
    BY <1>1
<1> HIDE DEF l
<1>4. l = <<a, b, c>>
    BY <1>1, <1>2, <1>3
<1> QED
    BY <1>4 DEF l

LEMMA Join31 ==
    ASSUME NEW a \in Statements, NEW b \in Statements, NEW c \in Statements, NEW d \in Statements
    PROVE  <<a, b, c>> \o <<d>> = <<a, b, c, d>>
<1> DEFINE l == <<a, b, c>> \o <<d>>
<1>1. <<a, b, c>> \in Seq(Statements) /\ <<d>> \in Seq(Statements) /\ <<a, b, c, d>> \in Seq(Statements)
      /\ Len(<<a, b, c>>) = 3 /\ Len(<<d>>) = 1 /\ Len(<<a, b, c, d>>) = 4
    OBVIOUS
<1>2. l \in Seq(Statements) /\ Len(l) = 4
    BY <1>1
<1>3. l[1] = a /\ l[2] = b /\ l[3] = c /\ l[4] = d
    BY <1>1
<1> HIDE DEF l
<1>4. l = <<a, b, c, d>>
    BY <1>1, <1>2, <1>3
<1> QED
    BY <1>4 DEF l

LEMMA Join41 ==
    ASSUME NEW a \in Statements, NEW b \in Statements, NEW c \in Statements, NEW d \in Statements, NEW e \in Statements
    PROVE  <<a, b, c, d>> \o <<e>> = <<a, b, c, d, e>>
<1> DEFINE l == <<a, b, c, d>> \o <<e>>
<1>1. <<a, b, c, d>> \in Seq(Statements) /\ <<e>> \in Seq(Statements) /\ <<a, b, c, d, e>> \in Seq(Statements)
      /\ Len(<<a, b, c, d>>) = 4 /\ Len(<<e>>) = 1 /\ Len(<<a, b, c, d, e>>) = 5
    OBVIOUS
<1>2. l \in Seq(Statements) /\ Len(l) = 5
    BY <1>1
<1>3. l[1] = a /\ l[2] = b /\ l[3] = c /\ l[4] = d /\ l[5] = e
    BY <1>1
<1> HIDE DEF l
<1>4. l = <<a, b, c, d, e>>
    BY <1>1, <1>2, <1>3
<1> QED
    BY <1>4 DEF l

LEMMA Join22 ==
    ASSUME NEW a \in Statements, NEW b \in Statements, NEW c \in Statements, NEW d \in Statements
    PROVE  <<a, b>> \o <<c, d>> = <<a, b, c, d>>
<1> DEFINE l == <<a, b>> \o <<c, d>>
<1>1. <<a, b>> \in Seq(Statements) /\ <<c, d>> \in Seq(Statements) /\ <<a, b, c, d>> \in Seq(Statements)
      /\ Len(<<a, b>>) = 2 /\ Len(<<c, d>>) = 2 /\ Len(<<a, b, c, d>>) = 4
    OBVIOUS
<1>2. l \in Seq(Statements) /\ Len(l) = 4
    BY <1>1
<1>3. l[1] = a /\ l[2] = b /\ l[3] = c /\ l[4] = d
    BY <1>1
<1> HIDE DEF l
<1>4. l = <<a, b, c, d>>
    BY <1>1, <1>2, <1>3
<1> QED
    BY <1>4 DEF l

\* What the handlers that answer for the company have read as they begin.
BeganDecide(t) ==
    /\ t.todo \in DecideLists /\ t.round \in 1 .. nrounds /\ Latest(t.round)
    /\ rounds[t.round].status = "Completed" /\ rounds[t.round].decision \in {"None", "Hold"}
    /\ t.decision \in {"NextRound", "FinalRound"} /\ hiring.onHold =>
           Tail(t.todo) \in {<<"next", "stage", "liftHold">>, <<"next", "stage", "liftHold", "mail">>}
    /\ t.decision \in {"NextRound", "FinalRound"} =>
           t.stage = StageFor(NewRound(rounds[t.round].number + 1, t.decision = "FinalRound"))
    /\ t.decision = "Selected" => t.stage = "SELECTED"
    /\ t.decision = "Rejected" => t.stage = "REJECTED"
BeganResult(t) ==
    /\ t.todo = IF t.number = 0 THEN <<"look", "result", "stage">>
                ELSE <<"look", "result", "nextRound", "offer", "stage">>
    /\ t.round \in 1 .. nrounds /\ rounds[t.round].status = "Scheduled" /\ Latest(t.round)
    /\ t.result \in Results \ {"Pending"}
    /\ t.result = "Failed" => t.stage = "REJECTED"
    /\ t.result = "Hold" => t.stage = "ON_HOLD"
    /\ t.result = "Passed" /\ t.number = 0 => t.stage = "SELECTED"
    /\ t.number # 0 => /\ t.result = "Passed" /\ t.number > rounds[t.round].number
                       /\ t.number \in 1 .. FinalNumber /\ t.stage = StageFor(NewRound(t.number, FALSE))

LEMMA ResultBegins ==
    ASSUME Inv, NEW r \in Requests, NEW i \in 1 .. nrounds, NEW result \in Results \ {"Pending"},
           NEW number \in 0 .. FinalNumber, NEW times \in SUBSET Times, RecordInterviewResult(r, i, result, number, times)
    PROVE  \E t \in Task : Agrees(t) /\ BeginAt(r, "portal", t) /\ BeganResult(t) /\ desk \in {"none", "portal"}
<1> DEFINE l == IF number = 0 THEN <<"look", "result", "stage">>
                ELSE <<"look", "result", "nextRound", "offer", "stage">>
<1> DEFINE st == CASE result = "Failed" -> "REJECTED"
                   [] result = "Hold" -> "ON_HOLD"
                   [] result = "Passed" /\ number = 0 -> "SELECTED"
                   [] OTHER -> StageFor(NewRound(number, FALSE))
<1> DEFINE t == [Resting EXCEPT !.round = i, !.result = result, !.number = number, !.times = times,
                     !.stage = st, !.todo = l]
<1>1. /\ rounds[i].status = "Scheduled" /\ Latest(i) /\ desk \in {"none", "portal"}
      /\ number # 0 => result = "Passed" /\ number > rounds[i].number
    BY DEF RecordInterviewResult, Answers
<1>2. l = <<"look", "result">> \o (IF number = 0 THEN <<>> ELSE <<"nextRound", "offer">>) \o <<"stage">>
  <2>1. {"look", "result", "nextRound", "offer", "stage"} \subseteq Statements
      BY DEF Statements
  <2>2. <<"look", "result">> \o <<"stage">> = <<"look", "result", "stage">>
      BY <2>1, Join21
  <2>3. <<"look", "result">> \o <<>> = <<"look", "result">>
      OBVIOUS
  <2>4. <<"look", "result">> \o <<"nextRound", "offer">> = <<"look", "result", "nextRound", "offer">>
      BY <2>1, Join22
  <2>5. <<"look", "result", "nextRound", "offer">> \o <<"stage">> = <<"look", "result", "nextRound", "offer", "stage">>
      BY <2>1, Join41
  <2> QED
      BY <2>2, <2>3, <2>4, <2>5
<1>3. BeginAt(r, "portal", t)
    BY <1>2 DEF RecordInterviewResult
<1>4. l \in Lists /\ l \in Seq(Statements)
  <2>1. l \in Lists
      BY DEF Lists, PortalLists
  <2> QED
      BY <2>1, ListType
<1>5. l \notin DecideLists \union NextLists \union HireLists \union ResultLists
      /\ (l \in NextRoundLists => number \in 1 .. FinalNumber)
  <2>1. Head(l) = "look"
      OBVIOUS
  <2>2. <<"look", "result", "stage">> \notin NextRoundLists
      BY DEF NextRoundLists
  <2>3. number # 0 => number \in 1 .. FinalNumber
      BY DEF FinalNumber
  <2> QED
      BY <2>1, <2>2, <2>3, HeadsAre
<1>10. result = "Failed" => st = "REJECTED"
    OBVIOUS
<1>11. result = "Hold" => st = "ON_HOLD"
    OBVIOUS
<1>12. result = "Passed" /\ number = 0 => st = "SELECTED"
    OBVIOUS
<1>13. result = "Passed" /\ number # 0 => st = StageFor(NewRound(number, FALSE))
    OBVIOUS
<1>6. st \in Stages
  <2>1. number # 0 => StageFor(NewRound(number, FALSE)) \in Stages
    <3>1. PICK row : row = NewRound(number, FALSE)
        OBVIOUS
    <3>2. number # 0 => number \in Nat \ {0}
        BY DEF FinalNumber
    <3>3. number # 0 => row.number \in Nat /\ row.number >= 1
      <4>1. number # 0 => row.number = number
          BY <3>1, <3>2, NewRoundType
      <4> QED
          BY <3>2, <4>1
    <3> QED
        BY <3>1, <3>3, StageForType
  <2> QED
      BY <1>10, <1>11, <1>12, <1>13, <2>1 DEF Stages, Results
<1>7. i \in 0 .. MaxRounds
    BY Counts
<1>14. number # 0 => number \in 1 .. FinalNumber
    BY DEF FinalNumber
<1>15. l = IF number = 0 THEN <<"look", "result", "stage">>
           ELSE <<"look", "result", "nextRound", "offer", "stage">>
    OBVIOUS
<1> HIDE DEF l, st
<1>8. t \in Task /\ t.todo = l /\ t.round = i /\ t.result = result /\ t.number = number /\ t.stage = st
    BY <1>4, <1>6, <1>7, RestingType DEF Task
<1> HIDE DEF t
<1>9. Agrees(t)
    BY <1>4, <1>5, <1>8 DEF Agrees
<1>16. BeganResult(t)
    BY <1>1, <1>8, <1>10, <1>11, <1>12, <1>13, <1>14, <1>15 DEF BeganResult
<1> QED
    BY <1>1, <1>3, <1>8, <1>9, <1>16

\* A decision's list by what it decides and whether a hold stands.
LEMMA DecisionLists ==
    ASSUME NEW d \in Decisions, NEW m \in {<<"mail">>, <<>>}
    PROVE  LET l == <<"decide">> \o Consequences(d) \o m IN
           /\ l \in DecideLists
           /\ Tail(l) \in NextLists <=> d \in {"NextRound", "FinalRound"}
           /\ Tail(l) \in HireLists <=> d = "Selected"
           /\ Tail(l) \in HoldLists <=> d = "Hold"
           /\ d \in {"NextRound", "FinalRound"} /\ hiring.onHold =>
                  Tail(l) \in {<<"next", "stage", "liftHold">>, <<"next", "stage", "liftHold", "mail">>}
<1> DEFINE l == <<"decide">> \o Consequences(d) \o m
<1>1. {"decide", "next", "stage", "liftHold", "hold", "hire", "mail"} \subseteq Statements
    BY DEF Statements
<1>2. CASE d \in {"NextRound", "FinalRound"}
  <2>1. Consequences(d) \in {<<"next", "stage">>, <<"next", "stage", "liftHold">>} /\ (hiring.onHold => Consequences(d) = <<"next", "stage", "liftHold">>)
      BY <1>2 DEF Consequences
  <2>2. <<"decide">> \o <<"next", "stage">> = <<"decide", "next", "stage">>
      BY <1>1, Join12
  <2>3. <<"decide", "next", "stage">> \o <<"mail">> = <<"decide", "next", "stage", "mail">> /\ <<"decide", "next", "stage">> \o <<>> = <<"decide", "next", "stage">>
    <3>1. <<"decide", "next", "stage">> \o <<>> = <<"decide", "next", "stage">>
        OBVIOUS
    <3> QED
        BY <1>1, <3>1, Join31
  <2>4. <<"decide">> \o <<"next", "stage", "liftHold">> = <<"decide", "next", "stage", "liftHold">>
      BY <1>1, Join13
  <2>5. <<"decide", "next", "stage", "liftHold">> \o <<"mail">> = <<"decide", "next", "stage", "liftHold", "mail">> /\ <<"decide", "next", "stage", "liftHold">> \o <<>> = <<"decide", "next", "stage", "liftHold">>
    <3>1. <<"decide", "next", "stage", "liftHold">> \o <<>> = <<"decide", "next", "stage", "liftHold">>
        OBVIOUS
    <3> QED
        BY <1>1, <3>1, Join41
  <2>6. l \in {<<"decide", "next", "stage">>,
                <<"decide", "next", "stage", "mail">>,
                <<"decide", "next", "stage", "liftHold">>,
                <<"decide", "next", "stage", "liftHold", "mail">>}
        /\ (hiring.onHold => l \in {<<"decide", "next", "stage", "liftHold">>, <<"decide", "next", "stage", "liftHold", "mail">>})
      BY <2>1, <2>2, <2>3, <2>4, <2>5
  <2>7. /\ Tail(<<"decide", "next", "stage">>) = <<"next", "stage">>
        /\ Tail(<<"decide", "next", "stage", "mail">>) = <<"next", "stage", "mail">>
        /\ Tail(<<"decide", "next", "stage", "liftHold">>) = <<"next", "stage", "liftHold">>
        /\ Tail(<<"decide", "next", "stage", "liftHold", "mail">>) = <<"next", "stage", "liftHold", "mail">>
      OBVIOUS
  <2> HIDE DEF l
  <2>8. l \in DecideLists /\ Tail(l) \in NextLists
        /\ (hiring.onHold => Tail(l) \in {<<"next", "stage", "liftHold">>, <<"next", "stage", "liftHold", "mail">>})
      BY <2>6, <2>7 DEF DecideLists, NextLists
  <2>9. Tail(l) \notin HireLists \union HoldLists
      BY <2>8, HeadsAre
  <2> QED
      BY <1>2, <2>8, <2>9 DEF l
<1>3. CASE d = "Hold"
  <2>1. Consequences(d) = <<"hold">>
      BY <1>3 DEF Consequences
  <2>2. <<"decide">> \o <<"hold">> = <<"decide", "hold">>
      BY <1>1, Join11
  <2>3. <<"decide", "hold">> \o <<"mail">> = <<"decide", "hold", "mail">> /\ <<"decide", "hold">> \o <<>> = <<"decide", "hold">>
    <3>1. <<"decide", "hold">> \o <<>> = <<"decide", "hold">>
        OBVIOUS
    <3> QED
        BY <1>1, <3>1, Join21
  <2>4. l \in {<<"decide", "hold">>,
                <<"decide", "hold", "mail">>}
      BY <2>1, <2>2, <2>3
  <2>5. /\ Tail(<<"decide", "hold">>) = <<"hold">>
        /\ Tail(<<"decide", "hold", "mail">>) = <<"hold", "mail">>
      OBVIOUS
  <2> HIDE DEF l
  <2>6. l \in DecideLists /\ Tail(l) \in HoldLists
      BY <2>4, <2>5 DEF DecideLists, HoldLists
  <2>7. Tail(l) \notin NextLists \union HireLists
      BY <2>6, HeadsAre
  <2> QED
      BY <1>3, <2>6, <2>7 DEF l
<1>4. CASE d = "Rejected"
  <2>1. Consequences(d) = <<"stage">>
      BY <1>4 DEF Consequences
  <2>2. <<"decide">> \o <<"stage">> = <<"decide", "stage">>
      BY <1>1, Join11
  <2>3. <<"decide", "stage">> \o <<"mail">> = <<"decide", "stage", "mail">> /\ <<"decide", "stage">> \o <<>> = <<"decide", "stage">>
    <3>1. <<"decide", "stage">> \o <<>> = <<"decide", "stage">>
        OBVIOUS
    <3> QED
        BY <1>1, <3>1, Join21
  <2>4. l \in {<<"decide", "stage">>,
                <<"decide", "stage", "mail">>}
      BY <2>1, <2>2, <2>3
  <2>5. /\ Tail(<<"decide", "stage">>) = <<"stage">>
        /\ Tail(<<"decide", "stage", "mail">>) = <<"stage", "mail">>
      OBVIOUS
  <2> HIDE DEF l
  <2>6. Head(<<"stage">>) = "stage" /\ Head(<<"stage", "mail">>) = "stage"
      OBVIOUS
  <2>7. l \in DecideLists /\ Head(Tail(l)) = "stage"
      BY <2>4, <2>5, <2>6 DEF DecideLists
  <2>8. Tail(l) \notin NextLists \union HireLists \union HoldLists
      BY <2>7, HeadsAre
  <2> QED
      BY <1>4, <2>7, <2>8 DEF l
<1>5. CASE d = "Selected"
  <2>1. Consequences(d) = <<"hire", "stage">>
      BY <1>5 DEF Consequences
  <2>2. <<"decide">> \o <<"hire", "stage">> = <<"decide", "hire", "stage">>
      BY <1>1, Join12
  <2>3. <<"decide", "hire", "stage">> \o <<"mail">> = <<"decide", "hire", "stage", "mail">> /\ <<"decide", "hire", "stage">> \o <<>> = <<"decide", "hire", "stage">>
    <3>1. <<"decide", "hire", "stage">> \o <<>> = <<"decide", "hire", "stage">>
        OBVIOUS
    <3> QED
        BY <1>1, <3>1, Join31
  <2>4. l \in {<<"decide", "hire", "stage">>,
                <<"decide", "hire", "stage", "mail">>}
      BY <2>1, <2>2, <2>3
  <2>5. /\ Tail(<<"decide", "hire", "stage">>) = <<"hire", "stage">>
        /\ Tail(<<"decide", "hire", "stage", "mail">>) = <<"hire", "stage", "mail">>
      OBVIOUS
  <2> HIDE DEF l
  <2>6. l \in DecideLists /\ Tail(l) \in HireLists
      BY <2>4, <2>5 DEF DecideLists, HireLists
  <2>7. Tail(l) \notin NextLists \union HoldLists
      BY <2>6, HeadsAre
  <2> QED
      BY <1>5, <2>6, <2>7 DEF l
<1> QED
    BY <1>2, <1>3, <1>4, <1>5 DEF Decisions

LEMMA DecideBegins ==
    ASSUME Inv, NEW r \in Requests, NEW i \in 1 .. nrounds, NEW d \in Decisions, NEW sendMail, Decide(r, i, d, sendMail)
    PROVE  \E t \in Task : /\ Agrees(t) /\ BeginAt(r, "q3", t) /\ BeganDecide(t)
                           /\ t.todo \in DecideLists /\ desk \in {"none", "q3"}
<1> DEFINE l == <<"decide">> \o Consequences(d) \o (IF sendMail THEN <<"mail">> ELSE <<>>)
<1> DEFINE st == CASE d \in {"NextRound", "FinalRound"} -> StageFor(NewRound(rounds[i].number + 1, d = "FinalRound"))
                   [] d = "Selected" -> "SELECTED"
                   [] OTHER -> "REJECTED"
<1> DEFINE t == [Resting EXCEPT !.round = i, !.decision = d, !.stage = st, !.todo = l]
<1>1. /\ rounds[i].status = "Completed" /\ rounds[i].decision \in {"None", "Hold"} /\ Latest(i)
      /\ desk \in {"none", "q3"}
      /\ d = "Selected" => rounds[i].final
      /\ d \in {"NextRound", "FinalRound"} => ~rounds[i].final /\ rounds[i].number < MaxRounds
    BY DEF Decide, Answers
<1>2. BeginAt(r, "q3", t)
    BY DEF Decide
<1>3. /\ l \in DecideLists
      /\ Tail(l) \in NextLists <=> d \in {"NextRound", "FinalRound"}
      /\ Tail(l) \in HireLists <=> d = "Selected"
      /\ Tail(l) \in HoldLists <=> d = "Hold"
      /\ d \in {"NextRound", "FinalRound"} /\ hiring.onHold =>
             Tail(l) \in {<<"next", "stage", "liftHold">>, <<"next", "stage", "liftHold", "mail">>}
    BY DecisionLists
<1>4. l \in Lists /\ l \in Seq(Statements)
  <2>1. l \in Lists
      BY <1>3 DEF Lists, DeskLists
  <2> QED
      BY <2>1, ListType
<1>5. /\ d \in {"NextRound", "FinalRound"} => st = StageFor(NewRound(rounds[i].number + 1, d = "FinalRound"))
      /\ d = "Selected" => st = "SELECTED"
      /\ d = "Rejected" => st = "REJECTED"
      /\ d \notin {"NextRound", "FinalRound"} => st \in {"SELECTED", "REJECTED"}
    OBVIOUS
<1>6. st \in Stages
  <2>1. CASE d \in {"NextRound", "FinalRound"}
    <3>1. rounds[i].number \in Nat /\ rounds[i].number >= 1
        BY Counts DEF Inv, DataOK, RowsOK, Round
    <3>2. rounds[i].number + 1 \in Nat \ {0}
        BY <3>1
    <3>3. PICK final \in BOOLEAN : final = (d = "FinalRound")
        OBVIOUS
    <3>4. PICK row : row = NewRound(rounds[i].number + 1, final)
        OBVIOUS
    <3>5. row.number = rounds[i].number + 1
        BY <3>2, <3>4, NewRoundType
    <3>6. StageFor(row) \in Stages
        BY <3>2, <3>5, StageForType
    <3> QED
        BY <1>5, <2>1, <3>3, <3>4, <3>6
  <2>2. CASE d \notin {"NextRound", "FinalRound"}
      BY <1>5, <2>2 DEF Stages
  <2> QED
      BY <2>1, <2>2
<1>7. i \in 0 .. MaxRounds
    BY Counts
<1> HIDE DEF l, st
<1>8. t \in Task /\ t.todo = l /\ t.round = i /\ t.decision = d /\ t.stage = st
    BY <1>4, <1>6, <1>7, RestingType DEF Task
<1> HIDE DEF t
<1>9. Agrees(t)
  <2>1. l \notin NextLists \union HireLists \union ResultLists \union NextRoundLists
      BY <1>3, HeadsAre
  <2> QED
      BY <1>1, <1>3, <1>4, <1>8, <2>1 DEF Agrees
<1>10. BeganDecide(t)
    BY <1>1, <1>3, <1>5, <1>8 DEF BeganDecide
<1> QED
    BY <1>1, <1>2, <1>3, <1>8, <1>9, <1>10

LEMMA StartKeeps == ASSUME Inv, NEW r \in Requests, Start(r) PROVE Inv'
<1>1. desk \in {"none", "q3", "portal"}
    BY DEF Inv, DataOK
<1>2. \/ \E t \in Task : Agrees(t) /\ Begin(r, t)
      \/ \E t \in Task : Agrees(t) /\ BeginAt(r, "portal", t)
      \/ \E t \in Task : Agrees(t) /\ BeginAt(r, "q3", t)
  <2>1. ASSUME NEW i \in 1 .. nrounds,
               \/ \E times \in SUBSET Times : EditRound(r, i, times)
               \/ \E b \in BOOLEAN : Checklist(r, i, b)
               \/ Reschedule(r, i) \/ Conducted(r, i) \/ SendDecisionMail(r, i)
        PROVE  \E t \in Task : Agrees(t) /\ Begin(r, t)
    <3>1. CASE \E times \in SUBSET Times : EditRound(r, i, times)
        BY <3>1, EditBegins
    <3>2. CASE \E b \in BOOLEAN : Checklist(r, i, b)
        BY <3>2, JoinBegins, UnjoinBegins
    <3>3. CASE Reschedule(r, i) \/ Conducted(r, i) \/ SendDecisionMail(r, i)
        BY <3>3, RescheduleBegins, ConductedBegins, MailBegins
    <3> QED
        BY <2>1, <3>1, <3>2, <3>3
  <2>2. ASSUME NEW i \in 1 .. nrounds,
               \/ \E times \in SUBSET Times : AddSlots(r, i, times)
               \/ \E result \in Results \ {"Pending"}, n \in 0 .. FinalNumber, times \in SUBSET Times :
                      RecordInterviewResult(r, i, result, n, times)
        PROVE  \E t \in Task : Agrees(t) /\ BeginAt(r, "portal", t)
    <3>1. CASE \E times \in SUBSET Times : AddSlots(r, i, times)
        BY <3>1, OfferBegins
    <3>2. CASE \E result \in Results \ {"Pending"}, n \in 0 .. FinalNumber, times \in SUBSET Times :
                   RecordInterviewResult(r, i, result, n, times)
        BY <3>2, ResultBegins
    <3> QED
        BY <2>2, <3>1, <3>2
  <2>3. ASSUME NEW i \in 1 .. nrounds, NEW d \in Decisions, NEW b, Decide(r, i, d, b)
        PROVE  \E t \in Task : Agrees(t) /\ BeginAt(r, "q3", t)
      BY <2>3, DecideBegins
  <2>4. ASSUME NEW s \in SlotIds, (\E b \in BOOLEAN : SetSlotUnavailable(r, s, b)) \/ Confirm(r, s)
        PROVE  \E t \in Task : Agrees(t) /\ Begin(r, t)
      BY <2>4, AvailabilityBegins, ConfirmBegins
  <2>5. ASSUME UndoDecision(r) PROVE \E t \in Task : Agrees(t) /\ BeginAt(r, "portal", t)
      BY <2>5, UndoBegins
  <2> QED
      BY <2>1, <2>2, <2>3, <2>4, <2>5 DEF Start
<1>3. ASSUME NEW t \in Task, Agrees(t), Begin(r, t) PROVE Inv'
    BY <1>1, <1>3, BeginKeeps DEF Begin
<1>4. ASSUME NEW t \in Task, Agrees(t), BeginAt(r, "portal", t) \/ BeginAt(r, "q3", t) PROVE Inv'
    BY <1>4, BeginKeeps
<1> QED
    BY <1>2, <1>3, <1>4

LEMMA TickKeeps == ASSUME Inv, Tick PROVE Inv'
<1>1. now' = now + 1 /\ now < MaxNow /\ UNCHANGED <<rounds, nrounds, slots, nslots, hiring, stage, logged, task, alone, desk>>
    BY DEF Tick
<1>2. DataOK' /\ RowsOK'
    BY <1>1, InterviewsAssumption DEF Inv, DataOK, RowsOK
<1> QED
    BY <1>1, <1>2 DEF Inv, TasksAgree, Agrees

LEMMA RestartKeeps == ASSUME Inv, Restart PROVE Inv'
<1>1. /\ task' = [r \in Requests |-> Resting] /\ alone' = FALSE
      /\ UNCHANGED <<rounds, nrounds, slots, nslots, hiring, stage, logged, now, desk>>
    BY DEF Restart
<1>2. DataOK' /\ RowsOK' /\ Grows
  <2>1. /\ rounds' = rounds /\ nrounds' = nrounds /\ slots' = slots /\ nslots' = nslots /\ hiring' = hiring
        /\ stage' = stage /\ logged' = logged /\ now' = now /\ desk' = desk /\ alone' \in BOOLEAN
      BY <1>1
  <2>2. nrounds <= nrounds
      BY Counts
  <2> QED
      BY <2>1, <2>2 DEF Inv, DataOK, RowsOK, Grows
<1>3. PICK x : x = Resting
    OBVIOUS
<1>4. x \in Task /\ Agrees(x)'
  <2>1. x \in Task /\ Agrees(x)
      BY <1>3, RestingType
  <2> QED
      BY <1>2, <2>1, Stable DEF DataOK
<1>5. task' \in [Requests -> Task] /\ \A r \in Requests : task'[r] = x
    BY <1>1, <1>3, <1>4
<1>6. TasksAgree'
    BY <1>4, <1>5 DEF TasksAgree, Agrees
<1> QED
    BY <1>2, <1>5, <1>6 DEF Inv

LEMMA StutterKeeps == ASSUME Inv, UNCHANGED vars PROVE Inv'
BY DEF Inv, vars, DataOK, RowsOK, TasksAgree, Agrees

LEMMA InitInv == Init => Inv
<1> SUFFICES ASSUME Init PROVE Inv
    OBVIOUS
<1>1. /\ rounds = [i \in Ids |-> IF i = 1 THEN NewRound(1, FALSE) ELSE NoRound] /\ nrounds = 1
      /\ slots = [s \in SlotIds |-> NoSlot] /\ nslots = 0 /\ hiring = [selected |-> FALSE, onHold |-> FALSE]
      /\ stage \in {"SHORTLISTED", "INTERVIEW_R1"} /\ logged \in {"SENT_TO_COMPANY", "INTERVIEW_R1"}
      /\ now = 0 /\ task = [r \in Requests |-> Resting] /\ alone = TRUE /\ desk = "none"
    BY DEF Init
<1>2. 1 \in Ids /\ Ids = 1 .. MaxRounds /\ MaxRounds \in Nat /\ MaxSlots \in Nat /\ MaxNow \in Nat
    BY InterviewsAssumption DEF Ids
<1>3. PICK row : row = NewRound(1, FALSE)
    OBVIOUS
<1>4. row \in Round /\ row.status = "Pending" /\ row.number = 1
  <2>1. 1 \in Nat \ {0}
      OBVIOUS
  <2> QED
      BY <1>3, <2>1, NewRoundType
<1>5. PICK none : none = NoRound
    OBVIOUS
<1>6. none \in Round
  <2>1. none = [status |-> "None", number |-> 0, final |-> FALSE, decision |-> "None", result |-> "Pending", at |-> 0,
                joined |-> FALSE, mailed |-> "None", invites |-> 0, releases |-> 0]
      BY <1>5 DEF NoRound, NewRound
  <2>2. 0 \in 0 .. FinalNumber /\ 0 \in 0 .. MaxNow /\ 0 \in Nat
      BY <1>2 DEF FinalNumber
  <2> QED
      BY <2>1, <2>2 DEF Round, Results
<1>7. rounds = [i \in Ids |-> IF i = 1 THEN row ELSE none] /\ rounds \in [Ids -> Round]
    BY <1>1, <1>3, <1>4, <1>5, <1>6
<1>8. PICK empty : empty = NoSlot
    OBVIOUS
<1>9. slots = [s \in SlotIds |-> empty] /\ empty \in Slot /\ empty.round = 0
    BY <1>1, <1>8, NoSlotType
<1>10. DataOK
  <2>1. nrounds \in Ids /\ nslots \in 0 .. MaxSlots /\ now \in 0 .. MaxNow
      BY <1>1, <1>2
  <2>2. hiring \in [selected : BOOLEAN, onHold : BOOLEAN] /\ stage \in Stages /\ logged \in Stages
      BY <1>1 DEF Stages
  <2>3. alone \in BOOLEAN /\ desk \in {"none", "q3", "portal"}
      BY <1>1
  <2>4. slots \in [SlotIds -> Slot]
      BY <1>9
  <2> QED
      BY <1>7, <2>1, <2>2, <2>3, <2>4 DEF DataOK
<1>11. RowsOK
  <2>1. ASSUME NEW i \in Ids
        PROVE  IF i <= nrounds THEN rounds[i].status # "None" /\ rounds[i].number >= 1 ELSE rounds[i] = NoRound
    <3>1. CASE i = 1
      <4>1. rounds[1] = row
          BY <1>2, <1>7
      <4>2. 1 <= nrounds /\ row.number >= 1 /\ row.status # "None"
          BY <1>1, <1>4
      <4> QED
          BY <3>1, <4>1, <4>2
    <3>2. CASE i # 1
      <4>1. ~(i <= nrounds)
          BY <1>1, <1>2, <3>2
      <4> QED
          BY <1>5, <1>7, <3>2, <4>1
    <3> QED
        BY <3>1, <3>2
  <2>2. ASSUME NEW s \in SlotIds PROVE slots[s].round <= nrounds /\ (s > nslots => slots[s] = NoSlot)
    <3>1. slots[s] = empty /\ nrounds = 1
        BY <1>1, <1>9
    <3> QED
        BY <1>8, <1>9, <3>1
  <2> QED
      BY <2>1, <2>2 DEF RowsOK
<1>12. task \in [Requests -> Task] /\ TasksAgree
    BY <1>1, RestingType DEF TasksAgree
<1> QED
    BY <1>10, <1>11, <1>12 DEF Inv

LEMMA NextKeepsInv == Inv /\ [Next]_vars => Inv'
BY StartKeeps, StepKeeps, TickKeeps, RestartKeeps, StutterKeeps DEF Next

LEMMA InvAlways == Spec => []Inv
<1>1. Init => Inv
    BY InitInv
<1>2. Inv /\ [Next]_vars => Inv'
    BY NextKeepsInv
<1> QED
    BY <1>1, <1>2, PTL DEF Spec

\* Every reachable state is well typed, whatever the handlers, the bounds and the number of
\* requests: no handler writes to a round that does not exist and no round has two numbers.
THEOREM Typing == Spec => []TypeOK
<1>1. Inv => TypeOK
    BY DEF Inv, DataOK, TypeOK
<1> QED
    BY <1>1, InvAlways, PTL
=============================================================================
