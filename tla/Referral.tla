------------------------------ MODULE Referral ------------------------------
(***************************************************************************)
(* The hand-off of one application between Q2, Q3 and the company          *)
(* (modules/recruitment/cv-referral.service.ts and its callers in the q2,  *)
(* q3, recruitment and employers modules).                                 *)
(*                                                                         *)
(* Prisma runs on PostgreSQL at READ COMMITTED and every awaited call is a *)
(* transaction of its own, so a request is the list of database statements *)
(* it has still to execute: it is started by an action that performs the   *)
(* handler's reads and guards, and each statement is a later step, between *)
(* which the other requests, the hourly expiry job and the clock move.     *)
(***************************************************************************)
EXTENDS Naturals, Sequences, FiniteSets

CONSTANTS
    Maps,          \* applications (tblJobSubscriberMapping rows)
    Requests,      \* concurrent HTTP requests
    Expiry,        \* the cv-expiry BullMQ worker
    Window,        \* REVIEW_WINDOW_DAYS, in ticks of the clock
    MaxNow,        \* bound on the clock
    MaxReferrals,  \* bound on the referrals of one application
    MaxRounds,     \* bound on the opening rounds of one application
    Decisions,     \* what the employer portal decides: SHORTLISTED, SELECTED, REJECTED
    MaxCrashes,    \* bound on process restarts that cut a handler short
    Serial         \* TRUE: no two handlers overlap

ASSUME ReferralAssumption ==
    /\ Maps # {}
    /\ Window \in Nat \ {0}
    /\ MaxNow \in Nat
    /\ MaxReferrals \in Nat \ {0}
    /\ MaxRounds \in Nat
    /\ MaxCrashes \in Nat
    /\ Decisions \subseteq {"SHORTLISTED", "SELECTED", "REJECTED"}
    /\ Serial \in BOOLEAN
    /\ Expiry \notin Requests

VARIABLES
    mapStatus,   \* jobMapStatusID of each application
    trail,       \* newest logged status that is neither SHORTLISTED nor REJECTED
    review,      \* Q2's tblApplicationMatchReview status
    refs,        \* tblCvReferral rows, oldest first
    nrefs,       \* how many of them exist
    rounds,      \* opening interview rounds created
    now,         \* the clock
    task,        \* what each worker is executing
    stale,       \* rows the running expiry job found and has not handled
    crashes      \* restarts so far

vars == <<mapStatus, trail, review, refs, nrefs, rounds, now, task, stale, crashes>>

Workers == Requests \union {Expiry}
Ids == 1 .. MaxReferrals

MapStatus == {"MAPPED", "SHORTLISTED", "SELECTED", "REJECTED", "NEED_MORE_INFO",
              "REFERRED_TO_Q3", "SENT_TO_COMPANY", "INTERVIEW_R1", "CV_EXPIRED"}
Marks == {"SHORTLISTED", "REJECTED"}
Closed == {"REJECTED", "SELECTED", "CV_EXPIRED"}
ReviewStatus == {"New", "Forwarded", "SentBackToQ1", "RejectedByQ2"}
RefStatus == {"None", "Referred", "SentToCompany", "Expired", "Returned"}
Never == MaxNow + Window + 1     \* a NULL timestamp: no comparison with it holds

Times == 0 .. Never
Referral ==
    [status : RefStatus, answer : {"Pending", "Selected", "Rejected"},
     sentAt : Times, expiresAt : Times,
     shortlisted : BOOLEAN,       \* companyShortlistedAt is set
     returnedByQ3 : BOOLEAN,      \* returnedBy is set
     reReferred : BOOLEAN]        \* reReferredAt is set
NoReferral ==
    [status |-> "None", answer |-> "Pending", sentAt |-> Never, expiresAt |-> Never,
     shortlisted |-> FALSE, returnedByQ3 |-> FALSE, reReferred |-> FALSE]

Statements ==
    MapStatus \union ReviewStatus \union
    {"find", "supersede", "create", "claimForward", "claimReturn", "claimExpire", "select",
     "answer", "reject", "markShortlisted", "round", "history", "restore", "reopen"}
Task == [map : Maps, ref : 0 .. MaxReferrals, to : MapStatus, todo : Seq(Statements)]
Idle(m) == [map |-> m, ref |-> 0, to |-> "MAPPED", todo |-> <<>>]

Init ==
    /\ mapStatus = [m \in Maps |-> "MAPPED"]
    /\ trail = [m \in Maps |-> "MAPPED"]
    /\ review = [m \in Maps |-> "New"]
    /\ refs = [m \in Maps |-> [i \in Ids |-> NoReferral]]
    /\ nrefs = [m \in Maps |-> 0]
    /\ rounds = [m \in Maps |-> 0]
    /\ now = 0
    /\ \E m \in Maps :
           task = [w \in Workers |-> Idle(m)]
    /\ stale = {}
    /\ crashes = 0

-----------------------------------------------------------------------------
(* Starting a handler: its reads and guards, and the statements to come.   *)

Busy(w) == task[w].todo # <<>> \/ (w = Expiry /\ stale # {})

Begin(r, m, i, todo) ==
    /\ ~Busy(r)
    /\ Serial => \A w \in Workers : ~Busy(w)
    /\ task' = [task EXCEPT ![r] = [map |-> m, ref |-> i, to |-> "MAPPED", todo |-> todo]]
    /\ UNCHANGED <<mapStatus, trail, review, refs, nrefs, rounds, now, stale, crashes>>

\* The referral every screen shows: the newest one (take: 1, newest first).
LatestIs(m, s) == nrefs[m] > 0 /\ refs[m][nrefs[m]].status = s
AwaitsAnswer(m) == LatestIs(m, "SentToCompany") /\ refs[m][nrefs[m]].answer = "Pending"

\* Bounds count the rows that running handlers are still going to insert.
Coming(m, s) ==
    Cardinality({w \in Workers : task[w].map = m /\ \E k \in DOMAIN task[w].todo : task[w].todo[k] = s})
MayRefer(m) == nrefs[m] + Coming(m, "create") < MaxReferrals
MayOpenRound(m) == rounds[m] + Coming(m, "round") < MaxRounds

\* POST /recruitment/referrals: refer without touching Q2's review row.
ReferToQ3(r, m) ==
    /\ MayRefer(m)
    /\ Begin(r, m, 0, <<"find", "supersede", "create", "REFERRED_TO_Q3">>)

\* The three Q2 decisions: assertPending reads the review row, the rest follows.
Q2Forward(r, m) ==
    /\ review[m] = "New"
    /\ MayRefer(m)
    /\ Begin(r, m, 0, <<"find", "supersede", "create", "REFERRED_TO_Q3", "Forwarded">>)

Q2SendBack(r, m) ==
    /\ review[m] = "New"
    /\ Begin(r, m, 0, <<"NEED_MORE_INFO", "SentBackToQ1">>)

Q2Reject(r, m) ==
    /\ review[m] = "New"
    /\ Begin(r, m, 0, <<"REJECTED", "RejectedByQ2">>)

Q3Forward(r, m, i) ==
    /\ refs[m][i].status = "Referred"
    /\ Begin(r, m, i, <<"claimForward", "SENT_TO_COMPANY">>)

Q3Return(r, m, i) ==
    /\ refs[m][i].status = "Referred"
    /\ Begin(r, m, i, <<"claimReturn", "New", "MAPPED">>)

\* Q3 captures the shortlist for the company; Round 1 must not exist yet.
Q3SetupRound(r, m) ==
    /\ LatestIs(m, "SentToCompany")
    /\ rounds[m] = 0
    /\ MayOpenRound(m)
    /\ Begin(r, m, 0, <<"round", "markShortlisted", "SHORTLISTED">>)

\* The company's answer to one referral; only its status is looked at.
CompanyShortlist(r, m, i) ==
    /\ refs[m][i].status = "SentToCompany"
    /\ MayOpenRound(m)
    /\ Begin(r, m, i, <<"select", "markShortlisted", "round", "INTERVIEW_R1">>)

CompanyReject(r, m, i) ==
    /\ refs[m][i].status = "SentToCompany"
    /\ Begin(r, m, i, <<"reject", "REJECTED">>)

\* The employer portal's decision on an applicant, referred or not.
DecideApplicant(r, m, status) ==
    /\ rounds[m] = 0
    /\ mapStatus[m] \in Closed => mapStatus[m] = "REJECTED"
    /\ IF ~AwaitsAnswer(m)
       THEN Begin(r, m, 0, <<status>>)
       ELSE Begin(r, m, nrefs[m],
                  IF status = "REJECTED" THEN <<status, "reject">>
                                         ELSE <<status, "answer", "markShortlisted">>)

UndoDecision(r, m) ==
    /\ mapStatus[m] \in Marks
    /\ Begin(r, m,
             IF nrefs[m] > 0 /\ refs[m][nrefs[m]].answer # "Pending" THEN nrefs[m] ELSE 0,
             <<"history", "restore", "reopen">>)

\* The employer portal books the first interview round.
ScheduleInterview(r, m) ==
    /\ mapStatus[m] \notin Closed
    /\ rounds[m] = 0
    /\ MayOpenRound(m)
    /\ IF AwaitsAnswer(m)
       THEN Begin(r, m, nrefs[m], <<"answer", "markShortlisted", "round", "INTERVIEW_R1">>)
       ELSE Begin(r, m, 0, <<"markShortlisted", "round", "INTERVIEW_R1">>)

\* POST /recruitment/interview-rounds: no guard on the referral.
BookRound(r, m) ==
    /\ MayOpenRound(m)
    /\ Begin(r, m, 0, <<"round", "INTERVIEW_R1", "markShortlisted">>)

Start(r) ==
    \E m \in Maps :
        \/ ReferToQ3(r, m) \/ Q2Forward(r, m) \/ Q2SendBack(r, m) \/ Q2Reject(r, m)
        \/ Q3SetupRound(r, m) \/ UndoDecision(r, m) \/ ScheduleInterview(r, m) \/ BookRound(r, m)
        \/ \E s \in Decisions : DecideApplicant(r, m, s)
        \/ \E i \in 1 .. nrefs[m] :
               \/ Q3Forward(r, m, i) \/ Q3Return(r, m, i)
               \/ CompanyShortlist(r, m, i) \/ CompanyReject(r, m, i)

-----------------------------------------------------------------------------
(* The statements of a running handler, one database call each.            *)

At(w, s) == task[w].todo # <<>> /\ Head(task[w].todo) = s
Goto(w, todo) == task' = [task EXCEPT ![w] = IF todo = <<>> THEN Idle(@.map) ELSE [@ EXCEPT !.todo = todo]]
Continue(w) == Goto(w, Tail(task[w].todo))
Target(w) == refs[task[w].map][task[w].ref]
SetRef(w, row) == refs' = [refs EXCEPT ![task[w].map][task[w].ref] = row]

\* Mutant of FindLatest: a referral that is still open is referred over.
FindLatestOverOpen(w) ==
    LET m == task[w].map
        rest == Tail(task[w].todo)
    IN  /\ At(w, "find")
        /\ IF nrefs[m] = 0
           THEN Goto(w, Tail(rest))
           ELSE task' = [task EXCEPT ![w].ref = nrefs[m], ![w].todo = rest]
        /\ UNCHANGED <<mapStatus, trail, review, refs, nrefs, rounds, now, stale, crashes>>

\* referToQ3: a referral still open makes the loop skip the application; one that
\* came back is superseded; none at all goes straight to the insert.
FindLatest(w) ==
    LET m == task[w].map
        rest == Tail(task[w].todo)
    IN  /\ At(w, "find")
        /\ IF nrefs[m] = 0
           THEN Goto(w, Tail(rest))
           ELSE IF LatestIs(m, "Returned") \/ LatestIs(m, "Expired")
           THEN task' = [task EXCEPT ![w].ref = nrefs[m], ![w].todo = rest]
           ELSE Goto(w, Tail(Tail(Tail(rest))))
        /\ UNCHANGED <<mapStatus, trail, review, refs, nrefs, rounds, now, stale, crashes>>

Supersede(w) ==
    /\ At(w, "supersede")
    /\ SetRef(w, [Target(w) EXCEPT !.reReferred = TRUE])
    /\ Continue(w)
    /\ UNCHANGED <<mapStatus, trail, review, nrefs, rounds, now, stale, crashes>>

CreateReferral(w) ==
    LET m == task[w].map IN
    /\ At(w, "create")
    /\ nrefs[m] < MaxReferrals
    /\ nrefs' = [nrefs EXCEPT ![m] = @ + 1]
    /\ refs' = [refs EXCEPT ![m][nrefs[m] + 1] = [NoReferral EXCEPT !.status = "Referred"]]
    /\ Continue(w)
    /\ UNCHANGED <<mapStatus, trail, review, rounds, now, stale, crashes>>

\* Mutant of MoveTo: the history an undo reads also keeps the decision itself.
MoveToLoggingMarks(m, s) ==
    /\ mapStatus' = [mapStatus EXCEPT ![m] = s]
    /\ trail' = [trail EXCEPT ![m] = s]

\* transitionStatus: the status and its log row, in one transaction.
MoveTo(m, s) ==
    /\ mapStatus' = [mapStatus EXCEPT ![m] = s]
    /\ trail' = IF s \in Marks THEN trail ELSE [trail EXCEPT ![m] = s]

Transition(w) ==
    \E s \in MapStatus :
        /\ At(w, s)
        /\ MoveTo(task[w].map, s)
        /\ Continue(w)
        /\ UNCHANGED <<review, refs, nrefs, rounds, now, stale, crashes>>

\* recordDecision (Q2) and reopenForQ2 (back to New).
WriteReview(w) ==
    \E s \in ReviewStatus :
        /\ At(w, s)
        /\ review' = [review EXCEPT ![task[w].map] = s]
        /\ Continue(w)
        /\ UNCHANGED <<mapStatus, trail, refs, nrefs, rounds, now, stale, crashes>>

\* A conditional updateMany: no row matched means nothing further happens.
Claim(w, matched, row) ==
    /\ IF matched THEN SetRef(w, row) /\ Continue(w)
                  ELSE UNCHANGED refs /\ Goto(w, <<>>)
    /\ UNCHANGED <<mapStatus, trail, review, nrefs, rounds, now, stale, crashes>>

ClaimForward(w) ==
    /\ At(w, "claimForward")
    /\ Claim(w, Target(w).status = "Referred",
             [Target(w) EXCEPT !.status = "SentToCompany", !.sentAt = now, !.expiresAt = now + Window])

\* Mutant of ClaimReturn: Q3's return updates the row by its key alone.
ClaimReturnByKey(w) ==
    /\ At(w, "claimReturn")
    /\ Claim(w, TRUE, [Target(w) EXCEPT !.status = "Returned", !.returnedByQ3 = TRUE])

ClaimReturn(w) ==
    /\ At(w, "claimReturn")
    /\ Claim(w, Target(w).status = "Referred",
             [Target(w) EXCEPT !.status = "Returned", !.returnedByQ3 = TRUE])

Unanswered(ref) == ref.status = "SentToCompany" /\ ~ref.shortlisted /\ ref.answer = "Pending"

\* Mutant of ClaimExpire: the claim repeats the status and forgets the answer.
ClaimExpireByStatus(w) ==
    /\ At(w, "claimExpire")
    /\ Claim(w, Target(w).status = "SentToCompany", [Target(w) EXCEPT !.status = "Expired"])

ClaimExpire(w) ==
    /\ At(w, "claimExpire")
    /\ Claim(w, Unanswered(Target(w)), [Target(w) EXCEPT !.status = "Expired"])

\* Updates by primary key, whatever the row holds by now.
Overwrite(w, s, row) ==
    /\ At(w, s)
    /\ SetRef(w, row)
    /\ Continue(w)
    /\ UNCHANGED <<mapStatus, trail, review, nrefs, rounds, now, stale, crashes>>

Select(w) ==
    Overwrite(w, "select",
        [Target(w) EXCEPT !.answer = "Selected", !.status = "SentToCompany", !.expiresAt = Never])
AnswerSelected(w) ==
    Overwrite(w, "answer", [Target(w) EXCEPT !.answer = "Selected", !.expiresAt = Never])
Reject(w) ==
    Overwrite(w, "reject",
        [Target(w) EXCEPT !.answer = "Rejected", !.status = "Returned", !.expiresAt = Never])
\* Mutant of Reopen: the answer is cleared and the deadline left as the answer left it.
ReopenWithoutClock(w) ==
    Overwrite(w, "reopen", [Target(w) EXCEPT !.status = "SentToCompany", !.answer = "Pending"])
Reopen(w) ==
    Overwrite(w, "reopen",
        [Target(w) EXCEPT !.status = "SentToCompany", !.answer = "Pending",
                          !.expiresAt = IF Target(w).sentAt = Never THEN now + Window
                                                                    ELSE Target(w).sentAt + Window])

\* markShortlisted: every row of the application that is still out and unstamped.
Stamped(row) ==
    IF row.status = "SentToCompany" /\ ~row.shortlisted
    THEN [row EXCEPT !.shortlisted = TRUE, !.answer = "Selected"] ELSE row

MarkShortlisted(w) ==
    LET m == task[w].map
        rows == [i \in Ids |-> Stamped(refs[m][i])]
    IN  /\ At(w, "markShortlisted")
        /\ refs' = [refs EXCEPT ![m] = rows]
        /\ Continue(w)
        /\ UNCHANGED <<mapStatus, trail, review, nrefs, rounds, now, stale, crashes>>

OpenRound(w) ==
    /\ At(w, "round")
    /\ rounds' = [rounds EXCEPT ![task[w].map] = @ + 1]
    /\ Continue(w)
    /\ UNCHANGED <<mapStatus, trail, review, refs, nrefs, now, stale, crashes>>

\* Mutant of ReadHistory: the status is put back and the referral never is.
ReadHistoryOfStatusOnly(w) ==
    /\ At(w, "history")
    /\ task' = [task EXCEPT ![w].to = trail[task[w].map], ![w].todo = <<"restore">>]
    /\ UNCHANGED <<mapStatus, trail, review, refs, nrefs, rounds, now, stale, crashes>>

\* undo: the log is read after the application, and decides what is restored.
ReadHistory(w) ==
    LET previous == trail[task[w].map] IN
    /\ At(w, "history")
    /\ task' = [task EXCEPT ![w].to = previous,
                            ![w].todo = IF previous = "SENT_TO_COMPANY" /\ task[w].ref # 0
                                        THEN <<"restore", "reopen">> ELSE <<"restore">>]
    /\ UNCHANGED <<mapStatus, trail, review, refs, nrefs, rounds, now, stale, crashes>>

Restore(w) ==
    /\ At(w, "restore")
    /\ MoveTo(task[w].map, task[w].to)
    /\ Continue(w)
    /\ UNCHANGED <<review, refs, nrefs, rounds, now, stale, crashes>>

Step(w) ==
    \/ FindLatest(w) \/ Supersede(w) \/ CreateReferral(w)
    \/ Transition(w) \/ WriteReview(w)
    \/ ClaimForward(w) \/ ClaimReturn(w) \/ ClaimExpire(w)
    \/ Select(w) \/ AnswerSelected(w) \/ Reject(w) \/ Reopen(w)
    \/ MarkShortlisted(w) \/ OpenRound(w) \/ ReadHistory(w) \/ Restore(w)

-----------------------------------------------------------------------------
(* The hourly job, the clock and restarts.                                 *)

\* Mutants of Expirable: lte instead of lt, and the window counted twice.
ExpirableOnDeadline == {x \in Maps \X Ids : LET row == refs[x[1]][x[2]] IN Unanswered(row) /\ row.expiresAt <= now}
ExpirableAfterTwo == {x \in Maps \X Ids : LET row == refs[x[1]][x[2]] IN Unanswered(row) /\ row.expiresAt + Window < now}

Expirable == {x \in Maps \X Ids : LET row == refs[x[1]][x[2]] IN Unanswered(row) /\ row.expiresAt < now}

ScanStale ==
    /\ ~Busy(Expiry)
    /\ Serial => \A r \in Requests : ~Busy(r)
    /\ Expirable # {}
    /\ stale' = Expirable
    /\ UNCHANGED <<mapStatus, trail, review, refs, nrefs, rounds, now, task, crashes>>

\* Mutant of NextStale: an expired CV is not put back on Q2's queue.
NextStaleOffQueue ==
    /\ task[Expiry].todo = <<>>
    /\ \E x \in stale :
           /\ stale' = stale \ {x}
           /\ task' = [task EXCEPT ![Expiry] =
                          [map |-> x[1], ref |-> x[2], to |-> "MAPPED",
                           todo |-> <<"claimExpire", "CV_EXPIRED">>]]
    /\ UNCHANGED <<mapStatus, trail, review, refs, nrefs, rounds, now, crashes>>

NextStale ==
    /\ task[Expiry].todo = <<>>
    /\ \E x \in stale :
           /\ stale' = stale \ {x}
           /\ task' = [task EXCEPT ![Expiry] =
                          [map |-> x[1], ref |-> x[2], to |-> "MAPPED",
                           todo |-> <<"claimExpire", "CV_EXPIRED", "New">>]]
    /\ UNCHANGED <<mapStatus, trail, review, refs, nrefs, rounds, now, crashes>>

Tick ==
    /\ now < MaxNow
    /\ now' = now + 1
    /\ UNCHANGED <<mapStatus, trail, review, refs, nrefs, rounds, task, stale, crashes>>

\* The API process restarts: every handler in flight is gone, the rows stay.
Restart ==
    /\ crashes < MaxCrashes
    /\ \E w \in Workers : Busy(w)
    /\ crashes' = crashes + 1
    /\ task' = [w \in Workers |-> Idle(task[w].map)]
    /\ stale' = {}
    /\ UNCHANGED <<mapStatus, trail, review, refs, nrefs, rounds, now>>

Next ==
    \/ \E r \in Requests : Start(r)
    \/ \E w \in Workers : Step(w)
    \/ ScanStale \/ NextStale \/ Tick \/ Restart

\* A handler that has begun runs on, BullMQ fires every hour, time passes. Nothing
\* makes a person press a button.
Fairness ==
    /\ \A w \in Workers : WF_vars(Step(w))
    /\ WF_vars(ScanStale) /\ WF_vars(NextStale) /\ WF_vars(Tick)

Spec == Init /\ [][Next]_vars /\ Fairness

-----------------------------------------------------------------------------
TypeOK ==
    /\ mapStatus \in [Maps -> MapStatus]
    /\ trail \in [Maps -> MapStatus \ Marks]
    /\ review \in [Maps -> ReviewStatus]
    /\ refs \in [Maps -> [Ids -> Referral]]
    /\ nrefs \in [Maps -> 0 .. MaxReferrals]
    /\ rounds \in [Maps -> Nat]
    /\ now \in 0 .. MaxNow
    /\ task \in [Workers -> Task]
    /\ stale \subseteq Maps \X Ids
    /\ crashes \in 0 .. MaxCrashes

\* Q3's two outcomes exclude each other however many Q3 users work on a batch: a CV
\* the company received was never also returned to Q2 at validation.
Q3DecidesOnce ==
    \A m \in Maps, i \in Ids : refs[m][i].returnedByQ3 => refs[m][i].sentAt = Never

\* The job takes a CV back only after the whole review window, although its update
\* does not look at expiresAt again and an undo may have moved it since the scan.
ExpiredAfterFullWindow ==
    \A m \in Maps, i \in Ids :
        refs[m][i].status = "Expired" => refs[m][i].sentAt + Window < now

\* A CV the company has been asked about always has its clock running.
ClockRunsWhileAwaiting ==
    \A m \in Maps, i \in Ids :
        (refs[m][i].status = "SentToCompany" /\ refs[m][i].answer = "Pending") =>
            refs[m][i].expiresAt = refs[m][i].sentAt + Window

\* "A shortlisted CV is never expired": the job never takes back a CV on which the
\* company has answered, even when the answer lands between its scan and its update.
AnsweredIsNotExpired ==
    [][\A m \in Maps, i \in Ids :
          (refs[m][i].status # "Expired" /\ refs'[m][i].status = "Expired") =>
              Unanswered(refs[m][i])]_vars

\* The row of a CV the company leaves unanswered past its window does not stay out for ever:
\* the job takes it back, also when the API stops between the job's scan and its claim. The
\* application's status and Q2's queue are not claimed here: a stop after the claim leaves
\* them unwritten, and no later run finds the row (BackOnQ2Queue speaks of whole handlers).
UnansweredComesBack ==
    \A m \in Maps, i \in Ids :
        (Unanswered(refs[m][i]) /\ refs[m][i].expiresAt < now) ~> ~Unanswered(refs[m][i])

\* What undoApplicantDecision promises when it puts a CV back with the company
\* ("reopen its 14-day window"): once the window is over the CV comes back, whether or
\* not the company had shortlisted it before. The code leaves companyShortlistedAt set.
ReopenedWindowRuns ==
    \A m \in Maps, i \in Ids :
        (refs[m][i].status = "SentToCompany" /\ refs[m][i].answer = "Pending" /\ refs[m][i].expiresAt < now)
            ~> ~(refs[m][i].status = "SentToCompany" /\ refs[m][i].answer = "Pending")

Quiet == \A w \in Workers : ~Busy(w)

\* One handler at a time: an application has at most one referral in flight.
OneOpenReferral ==
    \A m \in Maps :
        Cardinality({i \in Ids : refs[m][i].status \in {"Referred", "SentToCompany"}}) <= 1

\* One handler at a time: a CV that came back from Q3 or expired, and was not
\* re-referred, is on Q2's queue again or was decided there afresh.
BackOnQ2Queue ==
    Quiet => \A m \in Maps :
        (LatestIs(m, "Expired") \/ (LatestIs(m, "Returned") /\ refs[m][nrefs[m]].returnedByQ3))
            => review[m] # "Forwarded"

\* One handler at a time: an application that reads "sent to company", also after an
\* undo, has its newest referral awaiting the company.
CompanyInboxAgrees ==
    Quiet => \A m \in Maps : mapStatus[m] = "SENT_TO_COMPANY" => AwaitsAnswer(m)
=============================================================================
