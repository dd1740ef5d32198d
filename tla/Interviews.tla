----------------------------- MODULE Interviews -----------------------------
(***************************************************************************)
(* The interviews of one application. Q3's desk (modules/q3/q3-interviews. *)
(* service.ts and the round edit of q3-referrals.service.ts): slots are    *)
(* recorded, one is confirmed, the interview takes place, is rescheduled   *)
(* or missed, and the company's decision opens a next round, hires or      *)
(* rejects. Or the company answers itself, in its portal (employers.       *)
(* service.ts, recruitment/interview-round.service.ts): it records a       *)
(* result, with the next round's details, or undoes a rejection.           *)
(*                                                                         *)
(* As in Referral.tla a request is the list of database statements it has  *)
(* still to execute, and other requests run between two of them.           *)
(***************************************************************************)
EXTENDS Naturals, Sequences, FiniteSets, Functions

CONSTANTS
    Requests,     \* concurrent HTTP requests
    Handlers,     \* the endpoints a run exercises
    MaxRounds,    \* bound on the rounds of the application
    MaxSlots,     \* bound on the slots ever offered
    MaxNow,       \* bound on the clock
    MaxReleases,  \* bound on the reschedules of the application
    Restarts      \* TRUE: the API process may restart

Q3Endpoints == {"edit", "availability", "confirm", "reschedule", "checklist", "conducted", "decide", "mail"}
PortalEndpoints == {"offer", "result", "undo"}

ASSUME InterviewsAssumption ==
    /\ Handlers \subseteq Q3Endpoints \union PortalEndpoints
    /\ MaxRounds \in Nat \ {0}
    /\ MaxSlots \in Nat
    /\ MaxNow \in Nat
    /\ MaxReleases \in Nat
    /\ Restarts \in BOOLEAN

VARIABLES
    rounds,    \* tblInterviewRound rows by round id
    nrounds,   \* how many of them exist
    slots,     \* tblInterviewSlot rows by slot id; round 0: no such row
    nslots,    \* slot ids handed out
    hiring,    \* tblApplicationHiring
    stage,     \* jobMapStatusID of the application
    logged,    \* the newest status of its log that undo returns to
    now,       \* the clock
    task,      \* what each request is executing
    alone,     \* history: handlers ran one at a time and to their end
    desk       \* history: who answers for the company, Q3's desk or its own portal

vars == <<rounds, nrounds, slots, nslots, hiring, stage, logged, now, task, alone, desk>>

Ids == 1 .. MaxRounds
SlotIds == 1 .. MaxSlots
Times == 1 .. MaxNow

Decisions == {"NextRound", "FinalRound", "Hold", "Rejected", "Selected"}
Results == {"Pending", "Passed", "Failed", "Hold"}
Schedulable == {"Pending", "NoShow", "RescheduleRequested"}
Stages == {"SHORTLISTED", "INTERVIEW_R1", "INTERVIEW_R2", "INTERVIEW_R3", "FINAL_ROUND", "INTERVIEW_ATTENDED",
           "INTERVIEW_NOT_ATTENDED", "RESCHEDULE_REQUESTED", "ON_HOLD", "SENT_TO_COMPANY", "REJECTED", "SELECTED"}
Marks == {"SHORTLISTED", "REJECTED"}   \* what undo takes back
FromInterview == Stages \ (Marks \union {"SELECTED", "SENT_TO_COMPANY", "INTERVIEW_NOT_ATTENDED"})
FinalNumber == 4                       \* the portal's number of its final round

Round ==
    [status : {"None", "Scheduled", "Completed"} \union Schedulable,
     number : Nat, final : BOOLEAN,
     decision : {"None"} \union Decisions, result : Results,
     at : 0 .. MaxNow,             \* scheduledAt, 0 when NULL
     joined : BOOLEAN,             \* candidateJoinedAt is set
     mailed : {"None"} \union Decisions,   \* set with decisionMailSentAt, to what the mail told
     invites : Nat, releases : Nat]        \* history: invite mails sent, slots released
NewRound(n, final) ==
    [status |-> "Pending", number |-> n, final |-> final, decision |-> "None", result |-> "Pending", at |-> 0,
     joined |-> FALSE, mailed |-> "None", invites |-> 0, releases |-> 0]
NoRound == [NewRound(0, FALSE) EXCEPT !.status = "None"]

Slot == [round : 0 .. MaxRounds, at : 0 .. MaxNow, selected : BOOLEAN, unavailable : BOOLEAN]
NoSlot == [round |-> 0, at |-> 0, selected |-> FALSE, unavailable |-> FALSE]

\* What the rest of the application shows while a round is on.
StageFor(r) ==
    IF r.final \/ r.number >= FinalNumber THEN "FINAL_ROUND"
    ELSE <<"INTERVIEW_R1", "INTERVIEW_R2", "INTERVIEW_R3">>[r.number]

Statements == {"slots", "markUnavailable", "markAvailable", "claimSlot", "select", "invite",
               "release", "complete", "joined", "unjoined", "decide", "next",
               "liftHold", "hold", "hire", "stage", "mail",
               "clear", "offer", "unschedule", "look", "result", "nextRound", "find", "reopen"}
Task == [round : 0 .. MaxRounds, slot : 0 .. MaxSlots, at : 0 .. MaxNow, times : SUBSET Times, stage : Stages,
         decision : {"None"} \union Decisions, result : Results, number : 0 .. FinalNumber,
         was : {"None", "Scheduled", "Completed"} \union Schedulable, todo : Seq(Statements)]
Resting ==
    [round |-> 0, slot |-> 0, at |-> 0, times |-> {}, stage |-> "SHORTLISTED", decision |-> "None",
     result |-> "Pending", number |-> 0, was |-> "None", todo |-> <<>>]

\* Round 1 exists, opened by Q3 for a shortlisted application or booked by the company; its
\* slots are still to come.
Init ==
    /\ rounds = [i \in Ids |-> IF i = 1 THEN NewRound(1, FALSE) ELSE NoRound]
    /\ nrounds = 1
    /\ slots = [s \in SlotIds |-> NoSlot]
    /\ nslots = 0
    /\ hiring = [selected |-> FALSE, onHold |-> FALSE]
    /\ \/ stage = "SHORTLISTED" /\ logged = "SENT_TO_COMPANY"
       \/ stage = "INTERVIEW_R1" /\ logged = "INTERVIEW_R1"
    /\ now = 0
    /\ task = [r \in Requests |-> Resting]
    /\ alone = TRUE
    /\ desk = "none"

-----------------------------------------------------------------------------
(* Starting a handler: its reads and guards, and the statements to come.   *)

Idle(r) == task[r].todo = <<>>
Quiet == \A r \in Requests : Idle(r)

BeginAt(r, d, t) ==
    /\ Idle(r)
    /\ task' = [task EXCEPT ![r] = t]
    /\ alone' = (alone /\ Quiet)
    /\ desk' = d
    /\ UNCHANGED <<rounds, nrounds, slots, nslots, hiring, stage, logged, now>>
Begin(r, t) == BeginAt(r, desk, t)

\* A bound of the model: the first to answer answers to the end.
Answers(d) == desk \in {"none", d}

\* The bound on reschedules counts those that running handlers are still going to write.
Coming(s) == Cardinality({r \in Requests : \E k \in DOMAIN task[r].todo : task[r].todo[k] = s})
Released == SumFunctionOnSet([i \in Ids |-> rounds[i].releases], Ids)

\* setupRound with a roundId: the company's slots for a round that is not confirmed.
EditRound(r, i, times) ==
    /\ rounds[i].status \in Schedulable
    /\ \A t \in times : t >= now
    /\ Begin(r, [Resting EXCEPT !.round = i, !.times = times, !.todo = <<"slots">>])

SetSlotUnavailable(r, s, unavailable) ==
    LET slot == slots[s] IN
    /\ slot.round # 0
    /\ ~(slot.selected /\ rounds[slot.round].status = "Scheduled")
    /\ Begin(r, [Resting EXCEPT !.round = slot.round, !.slot = s,
                                !.todo = IF unavailable THEN <<"markUnavailable">> ELSE <<"markAvailable">>])

Confirm(r, s) ==
    LET slot == slots[s] IN
    /\ slot.round # 0
    /\ rounds[slot.round].status \in Schedulable
    /\ ~slot.unavailable
    /\ slot.at >= now
    /\ Begin(r, [Resting EXCEPT !.round = slot.round, !.slot = s, !.at = slot.at,
                                !.stage = StageFor(rounds[slot.round]),
                                !.todo = <<"claimSlot", "select", "stage", "invite">>])

\* Past the start time and without the candidate it is a no-show.
Reschedule(r, i) ==
    /\ rounds[i].status = "Scheduled"
    /\ Released + Coming("release") < MaxReleases
    /\ Begin(r, [Resting EXCEPT !.round = i,
                     !.stage = IF rounds[i].at <= now /\ ~rounds[i].joined
                               THEN "INTERVIEW_NOT_ATTENDED" ELSE "RESCHEDULE_REQUESTED",
                     !.todo = <<"release", "stage">>])

\* The checklist's "candidate joined", ticked from shortly before the start (a tick of
\* the clock for the code's 15 minutes), or unticked.
Checklist(r, i, done) ==
    /\ rounds[i].status = "Scheduled"
    /\ done => rounds[i].at <= now + 1
    /\ Begin(r, [Resting EXCEPT !.round = i, !.todo = IF done THEN <<"joined">> ELSE <<"unjoined">>])

Conducted(r, i) ==
    /\ rounds[i].status = "Scheduled"
    /\ rounds[i].at <= now
    /\ Begin(r, [Resting EXCEPT !.round = i, !.stage = "INTERVIEW_ATTENDED", !.todo = <<"complete", "stage">>])

\* latestRound: the rows come ordered by round number.
Latest(i) == \A j \in 1 .. nrounds : rounds[j].number <= rounds[i].number

\* Mutant of Consequences: a cleared round leaves the application on hold.
ConsequencesKeepingHold(d) ==
    CASE d \in {"NextRound", "FinalRound"} -> <<"next", "stage">>
      [] d = "Hold" -> <<"hold">>
      [] d = "Rejected" -> <<"stage">>
      [] d = "Selected" -> <<"hire", "stage">>

\* What a decision triggers once it has claimed the round.
Consequences(d) ==
    CASE d \in {"NextRound", "FinalRound"} ->
             IF hiring.onHold THEN <<"next", "stage", "liftHold">> ELSE <<"next", "stage">>
      [] d = "Hold" -> <<"hold">>
      [] d = "Rejected" -> <<"stage">>
      [] d = "Selected" -> <<"hire", "stage">>

Decide(r, i, d, sendMail) ==
    /\ Answers("q3")
    /\ Latest(i)
    /\ rounds[i].status = "Completed"
    /\ rounds[i].decision \in {"None", "Hold"}
    /\ d = "Selected" => rounds[i].final
    /\ d \in {"NextRound", "FinalRound"} => ~rounds[i].final /\ rounds[i].number < MaxRounds
    /\ BeginAt(r, "q3", [Resting EXCEPT !.round = i, !.decision = d,
                     !.stage = CASE d \in {"NextRound", "FinalRound"} ->
                                        StageFor(NewRound(rounds[i].number + 1, d = "FinalRound"))
                                 [] d = "Selected" -> "SELECTED"
                                 [] OTHER -> "REJECTED",
                     !.todo = <<"decide">> \o Consequences(d) \o (IF sendMail THEN <<"mail">> ELSE <<>>)])

SendDecisionMail(r, i) ==
    /\ rounds[i].decision # "None"
    /\ rounds[i].mailed = "None"
    /\ Begin(r, [Resting EXCEPT !.round = i, !.decision = rounds[i].decision, !.todo = <<"mail">>])

\* addSlots: new options for any round that is not completed; a confirmed one is to be
\* scheduled again, with its selected slot still standing.
AddSlots(r, i, times) ==
    /\ Answers("portal")
    /\ rounds[i].status # "Completed"
    /\ times # {}
    /\ nslots + Cardinality(times) <= MaxSlots
    /\ BeginAt(r, "portal", [Resting EXCEPT !.round = i, !.times = times, !.todo = <<"clear", "offer", "unschedule">>])

\* recordInterviewResult: once per round, on the newest round, with future slots for a next
\* one; a passed round without a next number is a hire.
RecordInterviewResult(r, i, result, number, times) ==
    /\ Answers("portal")
    /\ rounds[i].status = "Scheduled"
    /\ rounds[i].result \in {"Pending", "Hold"}
    /\ Latest(i)
    /\ result = "Hold" => rounds[i].result # "Hold"
    /\ times = {} <=> number = 0
    /\ number # 0 => /\ result = "Passed" /\ number > rounds[i].number
                     /\ \A t \in times : t > now
                     /\ nrounds < MaxRounds
                     /\ nslots + Cardinality(times) <= MaxSlots
    /\ BeginAt(r, "portal",
           [Resting EXCEPT !.round = i, !.result = result, !.number = number, !.times = times,
                !.stage = CASE result = "Failed" -> "REJECTED"
                            [] result = "Hold" -> "ON_HOLD"
                            [] result = "Passed" /\ number = 0 -> "SELECTED"
                            [] OTHER -> StageFor(NewRound(number, FALSE)),
                !.todo = <<"look", "result">> \o (IF number = 0 THEN <<>> ELSE <<"nextRound", "offer">>) \o <<"stage">>])

\* undoApplicantDecision: back to the newest status that was no mark; a rejection that came
\* out of an interview also reopens the failed round. (What it does to the referral is in
\* Referral.tla.)
UndoDecision(r) ==
    /\ Answers("portal")
    /\ stage \in Marks
    /\ BeginAt(r, "portal", [Resting EXCEPT !.stage = logged,
                    !.todo = IF stage = "REJECTED" /\ logged \in FromInterview
                             THEN <<"stage", "find", "reopen">> ELSE <<"stage">>])

Start(r) ==
    \/ \E i \in 1 .. nrounds :
           \/ "edit" \in Handlers /\ \E times \in SUBSET Times : EditRound(r, i, times)
           \/ "checklist" \in Handlers /\ \E b \in BOOLEAN : Checklist(r, i, b)
           \/ "decide" \in Handlers /\ \E d \in Decisions, b \in {FALSE, "mail" \in Handlers} : Decide(r, i, d, b)
           \/ "reschedule" \in Handlers /\ Reschedule(r, i)
           \/ "conducted" \in Handlers /\ Conducted(r, i)
           \/ "mail" \in Handlers /\ SendDecisionMail(r, i)
           \/ "offer" \in Handlers /\ \E times \in SUBSET Times : AddSlots(r, i, times)
           \/ "result" \in Handlers /\ \E result \in Results \ {"Pending"}, n \in 0 .. FinalNumber, times \in SUBSET Times :
                                          RecordInterviewResult(r, i, result, n, times)
    \/ \E s \in SlotIds :
           \/ "availability" \in Handlers /\ \E b \in BOOLEAN : SetSlotUnavailable(r, s, b)
           \/ "confirm" \in Handlers /\ Confirm(r, s)
    \/ "undo" \in Handlers /\ UndoDecision(r)

-----------------------------------------------------------------------------
(* The statements of a running handler.                                    *)

At(r, s) == task[r].todo # <<>> /\ Head(task[r].todo) = s
Target(r) == rounds[task[r].round]
Rest(t) == IF Tail(t.todo) = <<>> THEN Resting ELSE [t EXCEPT !.todo = Tail(@)]
Continue(r) == task' = [task EXCEPT ![r] = Rest(@)]
\* The handler throws: nothing further happens.
Abort(r) == task' = [task EXCEPT ![r] = Resting]
SetRound(r, row) == rounds' = [rounds EXCEPT ![task[r].round] = row]

\* The task's times become slots of its round, beside the ones that are kept.
PutSlots(r, kept) ==
    LET fresh == nslots + 1 .. nslots + Cardinality(task[r].times)
    IN  /\ nslots + Cardinality(task[r].times) <= MaxSlots
        /\ \E f \in [fresh -> task[r].times] :
               /\ \A s, t \in fresh : s < t => f[s] < f[t]
               /\ slots' = [s \in SlotIds |->
                               IF s \in fresh THEN [NoSlot EXCEPT !.round = task[r].round, !.at = f[s]]
                               ELSE IF s \in kept THEN slots[s] ELSE NoSlot]
        /\ nslots' = nslots + Cardinality(task[r].times)
        /\ Continue(r)
        /\ UNCHANGED <<rounds, nrounds, hiring, stage, logged, now, alone, desk>>

\* Unselected slots are deleted and the company's are inserted, in one transaction.
Kept(r) == {s \in SlotIds : slots[s].round # task[r].round \/ slots[s].selected}
ReplaceSlots(r) == At(r, "slots") /\ PutSlots(r, Kept(r))

\* The portal's two statements; createRound's new round has only the insertion.
ClearSlots(r) ==
    /\ At(r, "clear")
    /\ slots' = [s \in SlotIds |-> IF s \in Kept(r) THEN slots[s] ELSE NoSlot]
    /\ Continue(r)
    /\ UNCHANGED <<rounds, nrounds, nslots, hiring, stage, logged, now, alone, desk>>
OfferSlots(r) == At(r, "offer") /\ PutSlots(r, SlotIds)

\* An update by primary key throws when the row is gone.
MarkSlot(r) ==
    LET s == task[r].slot IN
    /\ At(r, "markUnavailable") \/ At(r, "markAvailable")
    /\ IF slots[s].round = 0 THEN UNCHANGED slots
       ELSE slots' = [slots EXCEPT ![s].unavailable = At(r, "markUnavailable"),
                                   ![s].selected = @ /\ At(r, "markAvailable")]
    /\ Continue(r)
    /\ UNCHANGED <<rounds, nrounds, nslots, hiring, stage, logged, now, alone, desk>>

\* Mutant of ClaimSlot: the update is by the round's key alone.
ClaimSlotByKey(r) ==
    /\ At(r, "claimSlot")
    /\ SetRound(r, [Target(r) EXCEPT !.status = "Scheduled", !.at = task[r].at, !.joined = FALSE])
    /\ Continue(r)
    /\ UNCHANGED <<nrounds, slots, nslots, hiring, stage, logged, now, alone, desk>>

\* Conditional on the round still being schedulable.
ClaimSlot(r) ==
    /\ At(r, "claimSlot")
    /\ IF Target(r).status \in Schedulable
       THEN /\ SetRound(r, [Target(r) EXCEPT !.status = "Scheduled", !.at = task[r].at, !.joined = FALSE])
            /\ Continue(r)
       ELSE UNCHANGED rounds /\ Abort(r)
    /\ UNCHANGED <<nrounds, slots, nslots, hiring, stage, logged, now, alone, desk>>

\* One transaction; a slot deleted meanwhile makes it throw and roll back.
SelectSlot(r) ==
    LET s == task[r].slot IN
    /\ At(r, "select")
    /\ IF slots[s].round = 0
       THEN UNCHANGED slots /\ Abort(r)
       ELSE /\ slots' = [t \in SlotIds |-> IF slots[t].round = task[r].round
                                           THEN [slots[t] EXCEPT !.selected = (t = s)] ELSE slots[t]]
            /\ Continue(r)
    /\ UNCHANGED <<rounds, nrounds, nslots, hiring, stage, logged, now, alone, desk>>

\* Updates of the round by its key, whatever it holds by now.
Overwrite(r, s, row) ==
    /\ At(r, s)
    /\ SetRound(r, row)
    /\ Continue(r)
    /\ UNCHANGED <<nrounds, slots, nslots, hiring, stage, logged, now, alone, desk>>

SendInvites(r) == Overwrite(r, "invite", [Target(r) EXCEPT !.invites = @ + 1])
Complete(r) == Overwrite(r, "complete", [Target(r) EXCEPT !.status = "Completed"])
Join(r) == Overwrite(r, "joined", [Target(r) EXCEPT !.joined = TRUE])
Unjoin(r) == Overwrite(r, "unjoined", [Target(r) EXCEPT !.joined = FALSE])
SendMail(r) == Overwrite(r, "mail", [Target(r) EXCEPT !.mailed = task[r].decision])
Unschedule(r) == Overwrite(r, "unschedule", [Target(r) EXCEPT !.status = "Pending", !.at = 0])
\* A hold writes the status back as it was read.
RecordResult(r) ==
    Overwrite(r, "result", [Target(r) EXCEPT !.result = task[r].result,
                                !.status = IF task[r].result = "Hold" THEN task[r].was ELSE "Completed"])
\* Mutant of ReopenRound: it stays completed.
ReopenResultOnly(r) ==
    Overwrite(r, "reopen", [Target(r) EXCEPT !.result = IF task[r].stage = "ON_HOLD" THEN "Hold" ELSE "Pending"])
ReopenRound(r) ==
    Overwrite(r, "reopen", [Target(r) EXCEPT !.result = IF task[r].stage = "ON_HOLD" THEN "Hold" ELSE "Pending",
                                             !.status = IF task[r].at = 0 THEN "Pending" ELSE "Scheduled"])

\* Reads between two writes: submitResult's own read of the round, and undo's search for the
\* failed round with the highest number.
LookAtRound(r) ==
    /\ At(r, "look")
    /\ task' = [task EXCEPT ![r].was = Target(r).status, ![r].todo = Tail(@)]
    /\ UNCHANGED <<rounds, nrounds, slots, nslots, hiring, stage, logged, now, alone, desk>>
FindFailed(r) ==
    LET failed == {i \in 1 .. nrounds : rounds[i].result = "Failed"} IN
    /\ At(r, "find")
    /\ IF failed = {} THEN Abort(r)
       ELSE \E i \in failed :
                /\ \A j \in failed : rounds[j].number <= rounds[i].number
                /\ task' = [task EXCEPT ![r].round = i, ![r].at = rounds[i].at, ![r].todo = Tail(@)]
    /\ UNCHANGED <<rounds, nrounds, slots, nslots, hiring, stage, logged, now, alone, desk>>

\* Mutants of Release: the confirmed slot is kept; the round is cancelled instead.
ReleaseRoundOnly(r) ==
    /\ At(r, "release")
    /\ SetRound(r, [Target(r) EXCEPT !.status = "RescheduleRequested", !.releases = @ + 1])
    /\ Continue(r)
    /\ UNCHANGED <<nrounds, slots, nslots, hiring, stage, logged, now, alone, desk>>
ReleaseCancelling(r) ==
    /\ At(r, "release")
    /\ SetRound(r, [Target(r) EXCEPT !.status = "Cancelled", !.releases = @ + 1])
    /\ Continue(r)
    /\ UNCHANGED <<nrounds, slots, nslots, hiring, stage, logged, now, alone, desk>>

\* One transaction: the round is to be scheduled again, the confirmed slot is out of reach.
Release(r) ==
    /\ At(r, "release")
    /\ SetRound(r, [Target(r) EXCEPT !.releases = @ + 1,
                        !.status = IF task[r].stage = "INTERVIEW_NOT_ATTENDED" THEN "NoShow" ELSE "RescheduleRequested"])
    /\ slots' = [s \in SlotIds |-> IF slots[s].round = task[r].round /\ slots[s].selected
                                   THEN [slots[s] EXCEPT !.selected = FALSE, !.unavailable = TRUE] ELSE slots[s]]
    /\ Continue(r)
    /\ UNCHANGED <<nrounds, nslots, hiring, stage, logged, now, alone, desk>>

ResultFor(d) == CASE d = "Hold" -> "Hold" [] d = "Rejected" -> "Failed" [] OTHER -> "Passed"

\* Mutants of ClaimDecision: decisionMailSentAt is not reset; the update is by key alone.
ClaimDecisionKeepingMail(r) ==
    /\ At(r, "decide")
    /\ IF Target(r).decision \in {"None", "Hold"}
       THEN SetRound(r, [Target(r) EXCEPT !.decision = task[r].decision,
                                                   !.result = ResultFor(task[r].decision)]) /\ Continue(r)
       ELSE UNCHANGED rounds /\ Abort(r)
    /\ UNCHANGED <<nrounds, slots, nslots, hiring, stage, logged, now, alone, desk>>
ClaimDecisionByKey(r) ==
    /\ At(r, "decide")
    /\ SetRound(r, [Target(r) EXCEPT !.decision = task[r].decision, !.mailed = "None",
                                                   !.result = ResultFor(task[r].decision)])
    /\ Continue(r)
    /\ UNCHANGED <<nrounds, slots, nslots, hiring, stage, logged, now, alone, desk>>

\* Conditional on no decision, or a hold, being recorded.
ClaimDecision(r) ==
    /\ At(r, "decide")
    /\ IF Target(r).decision \in {"None", "Hold"}
       THEN SetRound(r, [Target(r) EXCEPT !.decision = task[r].decision, !.mailed = "None",
                                                   !.result = ResultFor(task[r].decision)]) /\ Continue(r)
       ELSE UNCHANGED rounds /\ Abort(r)
    /\ UNCHANGED <<nrounds, slots, nslots, hiring, stage, logged, now, alone, desk>>

OpenRound(r, s, row, t) ==
    /\ At(r, s)
    /\ nrounds < MaxRounds
    /\ nrounds' = nrounds + 1
    /\ rounds' = [rounds EXCEPT ![nrounds + 1] = row]
    /\ task' = [task EXCEPT ![r] = t]
    /\ UNCHANGED <<slots, nslots, hiring, stage, logged, now, alone, desk>>

OpenNextRound(r) ==
    OpenRound(r, "next", NewRound(Target(r).number + 1, task[r].decision = "FinalRound"),
              [task[r] EXCEPT !.todo = Tail(@)])
\* createRound: the portal's rounds are never final; the slots that follow are the new round's.
CreateRound(r) ==
    OpenRound(r, "nextRound", NewRound(task[r].number, FALSE),
              [task[r] EXCEPT !.round = nrounds + 1, !.todo = Tail(@)])

\* ensureHiring: an upsert of the fields it is given.
SetHiring(r, s, row) ==
    /\ At(r, s)
    /\ hiring' = row
    /\ Continue(r)
    /\ UNCHANGED <<rounds, nrounds, slots, nslots, stage, logged, now, alone, desk>>

LiftHold(r) == SetHiring(r, "liftHold", [hiring EXCEPT !.onHold = FALSE])
Hold(r) == SetHiring(r, "hold", [hiring EXCEPT !.onHold = TRUE])
Hire(r) == SetHiring(r, "hire", [selected |-> TRUE, onHold |-> FALSE])

Transition(r) ==
    /\ At(r, "stage")
    /\ stage' = task[r].stage
    /\ logged' = IF task[r].stage \in Marks THEN logged ELSE task[r].stage
    /\ Continue(r)
    /\ UNCHANGED <<rounds, nrounds, slots, nslots, hiring, now, alone, desk>>

Step(r) ==
    \/ ReplaceSlots(r) \/ MarkSlot(r) \/ ClaimSlot(r) \/ SelectSlot(r) \/ SendInvites(r)
    \/ Release(r) \/ Complete(r) \/ Join(r) \/ Unjoin(r)
    \/ ClaimDecision(r) \/ OpenNextRound(r) \/ LiftHold(r) \/ Hold(r) \/ Hire(r)
    \/ Transition(r) \/ SendMail(r)
    \/ ClearSlots(r) \/ OfferSlots(r) \/ Unschedule(r) \/ LookAtRound(r) \/ RecordResult(r) \/ CreateRound(r) \/ FindFailed(r) \/ ReopenRound(r)

Tick ==
    /\ now < MaxNow
    /\ now' = now + 1
    /\ UNCHANGED <<rounds, nrounds, slots, nslots, hiring, stage, logged, task, alone, desk>>

\* The API restarts: the handlers in flight are gone.
Restart ==
    /\ Restarts
    /\ ~Quiet
    /\ task' = [r \in Requests |-> Resting]
    /\ alone' = FALSE
    /\ UNCHANGED <<rounds, nrounds, slots, nslots, hiring, stage, logged, now, desk>>

Next ==
    \/ \E r \in Requests : Start(r) \/ Step(r)
    \/ Tick \/ Restart

Spec == Init /\ [][Next]_vars

-----------------------------------------------------------------------------
TypeOK ==
    /\ rounds \in [Ids -> Round]
    /\ nrounds \in Ids
    /\ slots \in [SlotIds -> Slot]
    /\ nslots \in 0 .. MaxSlots
    /\ hiring \in [selected : BOOLEAN, onHold : BOOLEAN]
    /\ stage \in Stages
    /\ logged \in Stages
    /\ now \in 0 .. MaxNow
    /\ task \in [Requests -> Task]
    /\ alone \in BOOLEAN
    /\ desk \in {"none", "q3", "portal"}

\* "A double click cannot send the invites twice": however confirm calls, reschedules and
\* crashes interleave, invites go out at most once for every time the round was free.
InvitesOncePerSchedule == \A i \in Ids : rounds[i].invites <= rounds[i].releases + 1

\* The rounds of one application form one ladder: no two decisions stand on a round, no
\* decision opens two rounds and nobody is hired without a final round's selection, for
\* any number of Q3 users saving decisions at once.
Ladder == INSTANCE HiringLadder WITH
    ladder <- [i \in 1 .. nrounds |-> [decision |-> rounds[i].decision, final |-> rounds[i].final]],
    hired <- hiring.selected
ImplementsLadder == Ladder!Spec

\* Q3's desk alone, one handler at a time: a scheduled round has one selected slot, the one its time came
\* from and one the candidate can make; a round that was freed has none.
ScheduledSlotAgrees ==
    (alone /\ Quiet /\ desk # "portal") => \A i \in 1 .. nrounds :
        LET selected == {s \in SlotIds : slots[s].round = i /\ slots[s].selected} IN
        /\ rounds[i].status = "Scheduled" =>
               \E s \in selected : selected = {s} /\ slots[s].at = rounds[i].at /\ ~slots[s].unavailable
        /\ rounds[i].status \in Schedulable => selected = {}

\* A status is the one the newest round stands for.
Shows(st) ==
    LET r == rounds[nrounds] IN
    st = CASE r.decision = "Rejected" -> "REJECTED"
           [] r.decision = "Selected" -> "SELECTED"
           [] r.decision \notin {"Rejected", "Selected"} ->
                CASE r.status = "Completed" -> "INTERVIEW_ATTENDED"
                  [] r.status = "NoShow" -> "INTERVIEW_NOT_ATTENDED"
                  [] r.status = "RescheduleRequested" -> "RESCHEDULE_REQUESTED"
                  [] r.status = "Pending" /\ nrounds = 1 /\ st # "INTERVIEW_R1" -> "SHORTLISTED"
                  [] OTHER -> StageFor(r)

\* Q3's desk alone, one handler at a time: the status every screen shows for the application is the one its
\* newest round stands for, and a hold does not outlive a selection or a cleared round.
StageAgrees ==
    (alone /\ Quiet /\ desk # "portal") =>
        /\ hiring.onHold => rounds[nrounds].decision \in {"Hold", "Rejected"}
        /\ hiring.selected <=> rounds[nrounds].decision = "Selected"
        /\ Shows(stage)

\* The portal answering and Q3 scheduling, one handler at a time: the status says rejected,
\* selected or on hold only as the newest round's result does, an undone rejection takes its
\* result back with it, and a round without an answer is open to one unless Q3 closed it as
\* conducted.
PortalAgrees ==
    (alone /\ Quiet /\ desk = "portal") => LET r == rounds[nrounds] IN
        /\ stage = "REJECTED" <=> r.result = "Failed"
        /\ stage = "SELECTED" <=> r.result = "Passed"
        /\ stage = "ON_HOLD" => r.result = "Hold"
        /\ (stage \notin {"REJECTED", "SELECTED"} /\ r.status = "Completed") => stage = "INTERVIEW_ATTENDED"

\* A slot the candidate cannot make "can no longer be confirmed".
UnavailableIsNotConfirmed ==
    [][\A s \in SlotIds : (slots'[s].selected /\ ~slots[s].selected) => ~slots[s].unavailable]_vars

\* "A Hold's mail must not count as this decision's". One handler at a time: a decision
\* mail counts as sent only when it told the decision that stands.
MailTellsDecision ==
    (alone /\ Quiet) => \A i \in Ids : rounds[i].mailed \in {"None", rounds[i].decision}
=============================================================================
