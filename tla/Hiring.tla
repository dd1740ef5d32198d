------------------------------- MODULE Hiring --------------------------------
(***************************************************************************)
(* From selection to joining, for one candidate's applications: documents  *)
(* asked for, uploaded, verified and forwarded to the company              *)
(* (modules/q3/q3-documents.service.ts, the employer portal's review in    *)
(* employers.service.ts), the offer letter (recruitment/                   *)
(* offer-letter.service.ts), and the application's status with its log and *)
(* the candidate's "latest status" row (jobs/job-application.service.ts).  *)
(* The status has other writers, which know of no offer: interviews, the   *)
(* company's decisions and their undo. They are here for what they write;  *)
(* which rounds exist is left open (Interviews.tla).                       *)
(*                                                                         *)
(* As in Referral.tla a request is the list of statements it has still to  *)
(* execute; other requests run between two of them. Applying, uploading,   *)
(* asking for documents and moving by hand are one step each.              *)
(***************************************************************************)
EXTENDS Naturals, Sequences, FiniteSets

CONSTANTS
    Requests,     \* concurrent HTTP requests
    Apps,         \* the candidate's applications, each at a company of its own
    NoApp,
    Docs,         \* document types
    Defaults,     \* DEFAULT_HIRING_DOCUMENTS
    BoardStages,  \* stages the recruiter board moves applications to
    Pursued,      \* bound: the applications anything happens to after they were made
    MaxDisturbed  \* bound on overlaps, restarts, moves by hand and going beyond, counted together

\* JobMapStatus from here on. "MARKED" stands for the two marks an undo skips, shortlisted and
\* rejected, "MAPPED" for every other stage before the selection, interviews included.
OfferStages == {"OFFER_SENT", "OFFER_ACCEPTED", "JOINED"}
Stages == {"MAPPED", "MARKED", "SELECTED"} \union OfferStages

ASSUME HiringAssumption ==
    /\ NoApp \notin Apps
    /\ Defaults \subseteq Docs
    /\ BoardStages \subseteq Stages
    /\ Pursued \subseteq Apps
    /\ MaxDisturbed \in Nat

Candidate == "candidate"   \* owner of a document asked for by no application
NotAsked == "notAsked"

VARIABLES
    status,      \* tblJobSubscriberMapping.jobMapStatusID; "none": not applied
    logged,      \* the newest stage in the application's status log that is no mark
    latest,      \* tblSubscriberJobStatusLatest of the candidate
    aside,       \* history: applications with an offer, last moved by a handler that knows of none
    owner,       \* tblCandidateDocumentMap by type: the application it was asked under
    flag,        \* flgStatus of its upload; "unverified": uploaded, or sent back by anyone
    stale,       \* history: documents whose verdict was given on an earlier file
    selected,    \* history: applications somebody decided to select
    forwarded,   \* ApplicationHiring.docsForwardedAt is set
    approved,    \* ... docsApprovedAt
    joined,      \* ... joinedAt
    newest,      \* the application with the latest selectedAt
    approvals,   \* documents the company approved since they were forwarded to it, until the
                 \* set is approved or taken back
    offer,       \* OfferLetter.status by application
    accepted,    \* history: applications whose offer was accepted
    task,        \* what each request is executing
    overlaps,    \* history: requests started while another one ran
    stopped,     \* history: the API was restarted under a running request
    byHand,      \* history: the recruiter board moved an application
    beyond       \* history, for the bound only: which of Detours were taken

statusVars == <<status, logged, latest, aside>>
docVars == <<owner, flag, stale>>
handOffVars == <<forwarded, approved, approvals>>
hiringVars == <<selected, newest>>
offerVars == <<offer, accepted, joined>>
runVars == <<overlaps, stopped, beyond>>
vars == <<statusVars, docVars, handOffVars, hiringVars, offerVars, runVars, byHand, task>>

\* An application beyond Pursued, a handler that knows of no offer.
Detours == {"another", "aside"}
Flags == {"missing", "unverified", "verified"}
\* "latest" and "move" are transitionStatus.
Statements == {"latest", "move", "select", "askDefaults", "logVerdict", "verdict", "handOff", "withdraw",
               "settle", "forward", "approve", "checkOffer", "draft", "send", "answer", "join"}
Task == [app : Apps \union {NoApp},
         doc : SUBSET Docs,               \* at most one
         verdict : {"none", "verified", "unverified"},
         file : {"asSeen", "replaced"},   \* history: the file of doc since the handler read it
         to : Stages \union {"none"},     \* the status to set
         points : BOOLEAN,                \* the latest row was read to be this application's
         accept : BOOLEAN,
         todo : Seq(Statements)]
Resting == [app |-> NoApp, doc |-> {}, verdict |-> "none", file |-> "asSeen", to |-> "none",
            points |-> FALSE, accept |-> FALSE, todo |-> <<>>]

Init ==
    /\ status = [a \in Apps |-> "none"]
    /\ logged = [a \in Apps |-> "none"]
    /\ latest = [app |-> NoApp, status |-> "none"]
    /\ aside = {}
    /\ owner = [d \in Docs |-> NotAsked]
    /\ flag = [d \in Docs |-> "missing"]
    /\ stale = {}
    /\ selected = {}
    /\ forwarded = {}
    /\ approved = {}
    /\ joined = {}
    /\ newest = NoApp
    /\ approvals = [a \in Apps |-> {}]
    /\ offer = [a \in Apps |-> "none"]
    /\ accepted = {}
    /\ task = [r \in Requests |-> Resting]
    /\ overlaps = 0
    /\ stopped = FALSE
    /\ byHand = FALSE
    /\ beyond = {}

-----------------------------------------------------------------------------
(* Starting a handler: its reads and guards, and the statements to come.   *)

Idle(r) == task[r].todo = <<>>
Quiet == \A r \in Requests : Idle(r)
Alone == overlaps = 0

Disturbed == overlaps + Cardinality(beyond) + Cardinality({h \in 1..2 : <<stopped, byHand>>[h]})
MayDisturb == Disturbed < MaxDisturbed

Arrive == IF Quiet THEN UNCHANGED overlaps ELSE MayDisturb /\ overlaps' = overlaps + 1
Launch(r, t) ==
    /\ Idle(r)
    /\ Arrive
    /\ task' = [task EXCEPT ![r] = t]
    /\ UNCHANGED <<statusVars, docVars, handOffVars, newest, offerVars, stopped, byHand>>
Begin(r, t) == Launch(r, t) /\ UNCHANGED <<selected, beyond>>

Applied(a) == status[a] # "none"
Uploaded(d) == flag[d] # "missing"
Asked == {d \in Docs : owner[d] # NotAsked}

\* Going beyond the pursued applications, and off the straight way to an offer, count once each.
GoBeyond(detour) ==
    /\ detour \in beyond \/ MayDisturb
    /\ Quiet \/ Disturbed + 1 < MaxDisturbed
    /\ beyond' = beyond \union {detour}

\* Self-apply and assign-to-job: one transaction makes the application and its log, and takes
\* the candidate's latest row over.
Apply(a) ==
    /\ ~Applied(a)
    /\ Arrive
    /\ IF a \in Pursued THEN UNCHANGED beyond ELSE GoBeyond("another")
    /\ status' = [status EXCEPT ![a] = "MAPPED"]
    /\ logged' = [logged EXCEPT ![a] = "MAPPED"]
    /\ latest' = [app |-> a, status |-> "MAPPED"]
    /\ UNCHANGED <<aside, docVars, handOffVars, hiringVars, offerVars, stopped, byHand, task>>

Decided(a, s) == selected' = IF s = "SELECTED" THEN selected \union {a} ELSE selected

\* The decision "Selected" at Q3's desk, on the last round (Interviews.tla).
Select(r, a) ==
    /\ Applied(a)
    /\ Launch(r, [Resting EXCEPT !.app = a, !.to = "SELECTED",
                                 !.todo = <<"select", "askDefaults", "latest", "move">>])
    /\ Decided(a, "SELECTED")
    /\ UNCHANGED beyond

\* The other ways into transitionStatus. Scheduling, the update of an interview, a new round and
\* a round's result look neither at the status nor at an offer. What Q2, the referral service
\* and the rest of Q3's desk do to the status, under guards, is among the moves of these.
MoveTo(r, a, s) ==
    /\ Applied(a)
    /\ Launch(r, [Resting EXCEPT !.app = a, !.to = s, !.todo = <<"latest", "move">>])
    /\ GoBeyond("aside")
ScheduleInterview(r, a) == MoveTo(r, a, "MAPPED") /\ UNCHANGED selected
UpdateInterviewStatus(r, a) == MoveTo(r, a, "MAPPED") /\ UNCHANGED selected
CreateRound(r, a) == MoveTo(r, a, "MAPPED") /\ UNCHANGED selected
\* Hold or a next round; failed; hired. The route of its own checks nothing of the round, so
\* the portal's guards restrict no move.
SubmitResult(r, a, s) ==
    /\ s \in {"MAPPED", "MARKED", "SELECTED"}
    /\ MoveTo(r, a, s)
    /\ Decided(a, s)
\* A picked slot logs the status as it was read, and writes it back.
SelectSlot(r, a) == MoveTo(r, a, status[a]) /\ UNCHANGED selected
\* The company before any round: shortlisted or rejected; hired.
DecideApplicant(r, a, s) ==
    /\ status[a] \in {"MAPPED", "MARKED"} /\ s \in {"MARKED", "SELECTED"}
    /\ MoveTo(r, a, s)
    /\ Decided(a, s)
\* Back to the newest stage in the log that is no mark; mapped, if the 50 rows read are marks.
UndoApplicantDecision(r, a, s) ==
    /\ status[a] = "MARKED" /\ s \in {logged[a], "MAPPED"}
    /\ MoveTo(r, a, s)
    /\ UNCHANGED selected

\* The recruiter board: any stage, past transitionStatus and the log.
UpdatePipelineStage(a, s) ==
    /\ Applied(a) /\ MayDisturb
    /\ Arrive
    /\ status' = [status EXCEPT ![a] = s]
    /\ byHand' = TRUE
    /\ UNCHANGED <<logged, latest, aside, docVars, handOffVars, hiringVars, offerVars, stopped, beyond, task>>

\* A document the candidate was asked for already, by anyone, is not asked for twice.
AskedBy(o, D) == owner' = [d \in Docs |-> IF d \in D /\ owner[d] = NotAsked THEN o ELSE owner[d]]

\* Q3's request and the company's are made under an application, QC's assignment is not.
Request(a, D) ==
    /\ Applied(a)
    /\ Arrive
    /\ AskedBy(a, D)
    /\ UNCHANGED <<flag, stale, statusVars, handOffVars, hiringVars, offerVars, stopped, byHand, beyond, task>>
RequestApplicantDocuments(a, D) == status[a] = "SELECTED" /\ Request(a, D)
AssignDocuments(D) ==
    /\ Arrive
    /\ AskedBy(Candidate, D)
    /\ UNCHANGED <<flag, stale, statusVars, handOffVars, hiringVars, offerVars, stopped, byHand, beyond, task>>

\* Handlers that have read the upload give their verdict on a file that is gone.
Replaced(d) == [r \in Requests |-> IF task[r].doc = {d} THEN [task[r] EXCEPT !.file = "replaced"] ELSE task[r]]

\* Mutant of UploadDocument: the verdict on the earlier file stays.
UploadKeepsFlag(d) ==
    /\ d \in Asked
    /\ Arrive
    /\ flag' = IF Uploaded(d) THEN flag ELSE [flag EXCEPT ![d] = "unverified"]
    /\ stale' = IF Uploaded(d) THEN stale \union {d} ELSE stale
    /\ task' = Replaced(d)
    /\ UNCHANGED <<owner, statusVars, handOffVars, hiringVars, offerVars, stopped, byHand, beyond>>

\* A new file, to be verified again; the hand-off to a company is not looked at.
UploadDocument(d) ==
    /\ d \in Asked
    /\ Arrive
    /\ flag' = [flag EXCEPT ![d] = "unverified"]
    /\ stale' = stale \ {d}
    /\ task' = Replaced(d)
    /\ UNCHANGED <<owner, statusVars, handOffVars, hiringVars, offerVars, stopped, byHand, beyond>>

\* Mutant of MapOf: the document is taken to have been asked for under an application.
MapOfAsked(d) == owner[d]
\* mapIdForUpload: the application it was asked under, else the one last selected.
MapOf(d) == IF owner[d] \in Apps THEN owner[d] ELSE newest

Verify(r, d) ==
    /\ Uploaded(d) /\ flag[d] # "verified"
    /\ Begin(r, [Resting EXCEPT !.doc = {d}, !.verdict = "verified", !.todo = <<"verdict">>])
SendBack(r, d) ==
    /\ Uploaded(d)
    /\ Begin(r, [Resting EXCEPT !.doc = {d}, !.app = MapOf(d), !.verdict = "unverified",
                                !.todo = IF MapOf(d) = NoApp THEN <<"verdict">> ELSE <<"verdict", "handOff">>])
\* The recruiter's review knows of no hand-off.
ReviewDocument(r, d, v) ==
    /\ Uploaded(d)
    /\ Begin(r, [Resting EXCEPT !.doc = {d}, !.verdict = v, !.todo = <<"verdict">>])
ReviewApplicantDocument(r, a, d, v) ==
    /\ Applied(a) /\ Uploaded(d)
    /\ Begin(r, [Resting EXCEPT !.app = a, !.doc = {d}, !.verdict = v, !.todo = <<"logVerdict", "verdict", "handOff">>])

Forward(r, a) ==
    /\ Asked # {} /\ \A d \in Asked : flag[d] = "verified"
    /\ Applied(a) /\ a \notin forwarded
    /\ Begin(r, [Resting EXCEPT !.app = a, !.todo = <<"forward">>])
Approve(r, a) ==
    /\ a \in forwarded \ approved
    /\ Begin(r, [Resting EXCEPT !.app = a, !.todo = <<"approve">>])

\* Mutant of MayOffer: one verified document is enough.
MayOfferSome(a) ==
    /\ status[a] = "SELECTED"
    /\ \E d \in Docs : flag[d] = "verified"
    /\ offer[a] = "none"
\* Mutant of MayOffer: the documents alone decide.
MayOfferUnselected(a) ==
    /\ \E d \in Docs : Uploaded(d)
    /\ \A d \in Docs : Uploaded(d) => flag[d] = "verified"
    /\ offer[a] = "none"
\* createOffer: selected, every upload of the candidate approved, no offer yet.
MayOffer(a) ==
    /\ status[a] = "SELECTED"
    /\ \E d \in Docs : Uploaded(d)
    /\ \A d \in Docs : Uploaded(d) => flag[d] = "verified"
    /\ offer[a] = "none"
CreateOffer(r, a) ==
    /\ MayOffer(a)
    /\ Begin(r, [Resting EXCEPT !.app = a, !.todo = <<"draft">>])
\* Q3's route creates and sends in one request.
GenerateOffer(r, a) ==
    /\ a \in approved /\ offer[a] = "none"
    /\ Begin(r, [Resting EXCEPT !.app = a, !.to = "OFFER_SENT",
                                !.todo = <<"checkOffer", "draft", "send", "latest", "move">>])
SendOffer(r, a) ==
    /\ offer[a] # "none"
    /\ Begin(r, [Resting EXCEPT !.app = a, !.to = "OFFER_SENT", !.todo = <<"send", "latest", "move">>])
\* Mutant of RespondToOffer: an answered offer may be answered again.
RespondAgain(r, a, accept) ==
    /\ offer[a] \notin {"none", "Draft"}
    /\ Begin(r, [Resting EXCEPT !.app = a, !.accept = accept, !.to = IF accept THEN "OFFER_ACCEPTED" ELSE "none",
                                !.todo = IF accept THEN <<"answer", "latest", "move">> ELSE <<"answer">>])
RespondToOffer(r, a, accept) ==
    /\ offer[a] = "Sent"
    /\ Begin(r, [Resting EXCEPT !.app = a, !.accept = accept, !.to = IF accept THEN "OFFER_ACCEPTED" ELSE "none",
                                !.todo = IF accept THEN <<"answer", "latest", "move">> ELSE <<"answer">>])

\* Mutant of Joined: an offer in the candidate's hands is enough.
JoinedUnanswered(r, a) ==
    /\ offer[a] # "none" /\ a \notin joined
    /\ Begin(r, [Resting EXCEPT !.app = a, !.to = "JOINED", !.todo = <<"join", "latest", "move">>])
Joined(r, a) ==
    /\ offer[a] = "Accepted" /\ a \notin joined
    /\ Begin(r, [Resting EXCEPT !.app = a, !.to = "JOINED", !.todo = <<"join", "latest", "move">>])
\* The recruitment route moves the status only.
MarkJoined(r, a) ==
    /\ offer[a] = "Accepted"
    /\ Begin(r, [Resting EXCEPT !.app = a, !.to = "JOINED", !.todo = <<"latest", "move">>])

Verdicts == {"verified", "unverified"}
Instant ==
    \/ \E a \in Apps : Apply(a)
    \/ \E a \in Pursued :
           \/ \E s \in BoardStages : UpdatePipelineStage(a, s)
           \/ \E D \in SUBSET Docs \ {{}} : Request(a, D) \/ RequestApplicantDocuments(a, D)
    \/ \E D \in SUBSET Docs \ {{}} : AssignDocuments(D)
    \/ \E d \in Docs : UploadDocument(d)
Start(r) ==
    \/ \E a \in Pursued :
           \/ Select(r, a)
           \/ ScheduleInterview(r, a) \/ UpdateInterviewStatus(r, a) \/ CreateRound(r, a) \/ SelectSlot(r, a)
           \/ \E s \in Stages : SubmitResult(r, a, s) \/ DecideApplicant(r, a, s) \/ UndoApplicantDecision(r, a, s)
           \/ \E d \in Docs, v \in Verdicts : ReviewApplicantDocument(r, a, d, v)
           \/ Forward(r, a) \/ Approve(r, a)
           \/ CreateOffer(r, a) \/ GenerateOffer(r, a) \/ SendOffer(r, a)
           \/ \E accept \in BOOLEAN : RespondToOffer(r, a, accept)
           \/ Joined(r, a) \/ MarkJoined(r, a)
    \/ \E d \in Docs :
           \/ Verify(r, d) \/ SendBack(r, d)
           \/ \E v \in Verdicts : ReviewDocument(r, d, v)

-----------------------------------------------------------------------------
(* The statements of a running handler.                                    *)

At(r, s) == task[r].todo # <<>> /\ Head(task[r].todo) = s
Rest(t) == IF Tail(t.todo) = <<>> THEN Resting ELSE [t EXCEPT !.todo = Tail(@)]
Continue(r) == task' = [task EXCEPT ![r] = Rest(@)]
Finish(r) == task' = [task EXCEPT ![r] = Resting]

\* Mutant of ReadLatest: the latest row is taken to be this application's.
ReadLatestAny(r) ==
    /\ At(r, "latest")
    /\ task' = [task EXCEPT ![r] = [Rest(@) EXCEPT !.points = latest.app # NoApp]]
    /\ UNCHANGED <<statusVars, docVars, handOffVars, hiringVars, offerVars, runVars, byHand>>

\* transitionStatus: the latest row is read inside the transaction and updated, by candidate,
\* when it pointed here. The move is logged with it.
ReadLatest(r) ==
    /\ At(r, "latest")
    /\ task' = [task EXCEPT ![r] = [Rest(@) EXCEPT !.points = (latest.app = task[r].app)]]
    /\ UNCHANGED <<statusVars, docVars, handOffVars, hiringVars, offerVars, runVars, byHand>>
Move(r) ==
    LET t == task[r] IN
    /\ At(r, "move")
    /\ status' = [status EXCEPT ![t.app] = t.to]
    /\ logged' = IF t.to = "MARKED" THEN logged ELSE [logged EXCEPT ![t.app] = t.to]
    /\ latest' = IF t.points THEN [latest EXCEPT !.status = t.to] ELSE latest
    /\ aside' = IF t.to \in OfferStages THEN aside \ {t.app}
                ELSE IF offer[t.app] = "none" THEN aside ELSE aside \union {t.app}
    /\ Continue(r)
    /\ UNCHANGED <<docVars, handOffVars, hiringVars, offerVars, runVars, byHand>>

MarkSelected(r) ==
    /\ At(r, "select")
    /\ newest' = task[r].app
    /\ Continue(r)
    /\ UNCHANGED <<selected, statusVars, docVars, handOffVars, offerVars, runVars, byHand>>

\* requestDefaultDocuments.
AskDefaults(r) ==
    /\ At(r, "askDefaults")
    /\ AskedBy(task[r].app, Defaults)
    /\ Continue(r)
    /\ UNCHANGED <<flag, stale, statusVars, handOffVars, hiringVars, offerVars, runVars, byHand>>

\* An approval before the hand-off is older than docsForwardedAt and never counts; one of an
\* approved set settles nothing.
LogVerdict(r) ==
    LET t == task[r] IN
    /\ At(r, "logVerdict")
    /\ approvals' = IF t.verdict = "verified" /\ t.app \in forwarded \ approved
                    THEN [approvals EXCEPT ![t.app] = @ \union t.doc] ELSE approvals
    /\ Continue(r)
    /\ UNCHANGED <<forwarded, approved, statusVars, docVars, hiringVars, offerVars, runVars, byHand>>

\* By id, whatever file the upload holds by now.
Verdict(r) ==
    LET t == task[r] IN
    /\ At(r, "verdict")
    /\ flag' = [d \in Docs |-> IF d \in t.doc THEN t.verdict ELSE flag[d]]
    /\ stale' = IF t.file = "replaced" THEN stale \union t.doc ELSE stale \ t.doc
    /\ task' = [task EXCEPT ![r] = IF Tail(t.todo) = <<>> THEN Resting
                                   ELSE [Rest(t) EXCEPT !.doc = {}, !.file = "asSeen"]]
    /\ UNCHANGED <<owner, statusVars, handOffVars, hiringVars, offerVars, runVars, byHand>>

\* Mutant of ReadHandOff: an approved set is taken back as well.
ReadHandOffApproved(r) ==
    LET t == task[r] IN
    /\ At(r, "handOff")
    /\ IF t.app \in forwarded
       THEN task' = [task EXCEPT ![r].todo = IF t.verdict = "verified" THEN <<"settle">> ELSE <<"withdraw">>]
       ELSE Finish(r)
    /\ UNCHANGED <<statusVars, docVars, handOffVars, hiringVars, offerVars, runVars, byHand>>

\* A set with the company and not approved: a correction takes it back, an approval may be
\* the last one.
ReadHandOff(r) ==
    LET t == task[r] IN
    /\ At(r, "handOff")
    /\ IF t.app \in forwarded \ approved
       THEN task' = [task EXCEPT ![r].todo = IF t.verdict = "verified" THEN <<"settle">> ELSE <<"withdraw">>]
       ELSE Finish(r)
    /\ UNCHANGED <<statusVars, docVars, handOffVars, hiringVars, offerVars, runVars, byHand>>
\* The company's approvals of a set it no longer holds never count again, but for a handler
\* that read the hand-off before.
Counting(a) == \E q \in Requests : At(q, "settle") /\ task[q].app = a
Withdraw(r) ==
    LET a == task[r].app IN
    /\ At(r, "withdraw")
    /\ forwarded' = forwarded \ {a}
    /\ approvals' = IF Counting(a) THEN approvals ELSE [approvals EXCEPT ![a] = {}]
    /\ Continue(r)
    /\ UNCHANGED <<approved, statusVars, docVars, hiringVars, offerVars, runVars, byHand>>

\* Uploads asked for under this application, all approved by its company since.
Settled(a) ==
    LET own == {d \in Docs : owner[d] = a /\ Uploaded(d)}
    IN  own # {} /\ own \subseteq approvals[a]
Settle(r) ==
    /\ At(r, "settle")
    /\ IF Settled(task[r].app) THEN task' = [task EXCEPT ![r].todo = <<"approve">>] ELSE Finish(r)
    /\ UNCHANGED <<statusVars, docVars, handOffVars, hiringVars, offerVars, runVars, byHand>>

WriteForward(r) ==
    LET a == task[r].app IN
    /\ At(r, "forward")
    /\ forwarded' = forwarded \union {a}
    /\ approved' = approved \ {a}
    /\ approvals' = [approvals EXCEPT ![a] = {}]
    /\ Continue(r)
    /\ UNCHANGED <<statusVars, docVars, hiringVars, offerVars, runVars, byHand>>
WriteApprove(r) ==
    /\ At(r, "approve")
    /\ approved' = approved \union {task[r].app}
    /\ approvals' = [approvals EXCEPT ![task[r].app] = {}]
    /\ Continue(r)
    /\ UNCHANGED <<forwarded, statusVars, docVars, hiringVars, offerVars, runVars, byHand>>

CheckOffer(r) ==
    /\ At(r, "checkOffer")
    /\ IF MayOffer(task[r].app) THEN Continue(r) ELSE Finish(r)
    /\ UNCHANGED <<statusVars, docVars, handOffVars, hiringVars, offerVars, runVars, byHand>>

\* Mutant of WriteDraft: no unique index, the second offer starts over.
WriteDraftAnyway(r) ==
    /\ At(r, "draft")
    /\ offer' = [offer EXCEPT ![task[r].app] = "Draft"]
    /\ Continue(r)
    /\ UNCHANGED <<accepted, joined, statusVars, docVars, handOffVars, hiringVars, runVars, byHand>>

\* The unique index on the application refuses a second offer.
WriteDraft(r) ==
    LET a == task[r].app IN
    /\ At(r, "draft")
    /\ IF offer[a] = "none" THEN offer' = [offer EXCEPT ![a] = "Draft"] /\ Continue(r)
       ELSE UNCHANGED offer /\ Finish(r)
    /\ UNCHANGED <<accepted, joined, statusVars, docVars, handOffVars, hiringVars, runVars, byHand>>

\* By id, whatever the status has become.
WriteSend(r) ==
    /\ At(r, "send")
    /\ offer' = [offer EXCEPT ![task[r].app] = "Sent"]
    /\ Continue(r)
    /\ UNCHANGED <<accepted, joined, statusVars, docVars, handOffVars, hiringVars, runVars, byHand>>
WriteAnswer(r) ==
    LET t == task[r] IN
    /\ At(r, "answer")
    /\ offer' = [offer EXCEPT ![t.app] = IF t.accept THEN "Accepted" ELSE "Rejected"]
    /\ accepted' = IF t.accept THEN accepted \union {t.app} ELSE accepted
    /\ Continue(r)
    /\ UNCHANGED <<joined, statusVars, docVars, handOffVars, hiringVars, runVars, byHand>>
WriteJoin(r) ==
    /\ At(r, "join")
    /\ joined' = joined \union {task[r].app}
    /\ Continue(r)
    /\ UNCHANGED <<offer, accepted, statusVars, docVars, handOffVars, hiringVars, runVars, byHand>>

\* The process stops: what the running handlers had not executed never happens.
Restart ==
    /\ ~Quiet /\ MayDisturb
    /\ stopped' = TRUE
    /\ task' = [r \in Requests |-> Resting]
    /\ UNCHANGED <<overlaps, beyond, statusVars, docVars, handOffVars, hiringVars, offerVars, byHand>>

Step(r) ==
    \/ ReadLatest(r) \/ Move(r) \/ MarkSelected(r) \/ AskDefaults(r) \/ LogVerdict(r) \/ Verdict(r)
    \/ ReadHandOff(r) \/ Withdraw(r) \/ Settle(r) \/ WriteForward(r) \/ WriteApprove(r)
    \/ CheckOffer(r) \/ WriteDraft(r) \/ WriteSend(r) \/ WriteAnswer(r) \/ WriteJoin(r)

Next ==
    \/ \E r \in Requests : (Idle(r) /\ Start(r)) \/ (~Idle(r) /\ Step(r))
    \/ Instant
    \/ Restart

Spec == Init /\ [][Next]_vars

-----------------------------------------------------------------------------
(* Properties.                                                             *)

\* Every variable holds values the program can give it.
TypeOK ==
    /\ status \in [Apps -> Stages \union {"none"}]
    /\ logged \in [Apps -> (Stages \ {"MARKED"}) \union {"none"}]
    /\ aside \subseteq Apps
    /\ latest \in [app : Apps \union {NoApp}, status : Stages \union {"none"}]
    /\ owner \in [Docs -> Apps \union {Candidate, NotAsked}]
    /\ flag \in [Docs -> Flags]
    /\ stale \subseteq Docs
    /\ selected \subseteq Apps /\ forwarded \subseteq Apps /\ approved \subseteq Apps /\ joined \subseteq Apps
    /\ newest \in Apps \union {NoApp}
    /\ approvals \in [Apps -> SUBSET Docs]
    /\ offer \in [Apps -> {"none", "Draft", "Sent", "Accepted", "Rejected"}]
    /\ accepted \subseteq Apps
    /\ task \in [Requests -> Task]
    /\ overlaps \in Nat /\ stopped \in BOOLEAN /\ byHand \in BOOLEAN /\ beyond \subseteq Detours

\* Without overlapping requests an approved set is one the company holds: sending a document
\* back, by Q3 or by the company, never takes away a set that was approved.
HandOffAgrees == Alone => approved \subseteq forwarded

\* Without overlaps a verdict on a document is about the file that is there now: a new file
\* starts unverified, by whatever route the earlier one was judged.
VerdictIsOnTheFile == Alone => stale = {}

\* However requests overlap or stop, an offer exists only for an application that somebody
\* decided to select, at Q3's desk, in the portal or on a round's own route, or that was moved
\* by hand: an undo or a picked slot brings a selection back, and makes none.
OfferAfterSelection == \A a \in Apps : offer[a] # "none" => a \in selected \/ byHand

\* However requests overlap or stop, nobody joins who never accepted; unless an application was
\* moved by hand, JOINED as its status says the same.
JoinedAccepted ==
    /\ joined \subseteq accepted
    /\ ~byHand => \A a \in Apps : status[a] = "JOINED" => a \in accepted

\* Without overlaps and moves by hand, the candidate's latest row repeats the status of the
\* application it points to, which may not be the one that moved last.
LatestAgrees ==
    Alone /\ ~byHand /\ latest.app # NoApp => latest.status = status[latest.app]

\* When no request runs, and none overlapped, was cut short or moved the application by hand,
\* the application's status tells the offer's: the two are written by two statements. The one
\* exception is an application with an offer that an interview, a round's result, a company's
\* decision or its undo has moved since: its status may then tell nothing of the offer, but
\* nothing wrong either, also when the undo brings back a stage of the offer from the log.
OfferTold ==
    [none |-> {"none", "MAPPED", "MARKED", "SELECTED"}, Draft |-> {"SELECTED"}, Sent |-> {"OFFER_SENT"},
     Rejected |-> {"OFFER_SENT"}, Accepted |-> {"OFFER_ACCEPTED", "JOINED"}]
OfferStatusAgrees ==
    Alone /\ Quiet /\ ~stopped /\ ~byHand =>
        \A a \in Apps : \/ status[a] \in OfferTold[offer[a]]
                        \/ a \in aside /\ status[a] \notin OfferStages

\* Without overlaps an offer is drafted only when every file the candidate has uploaded was
\* verified as it is, whoever asked for it.
OfferOnVerifiedFiles ==
    [][Alone /\ (\E a \in Apps : offer[a] = "none" /\ offer'[a] = "Draft")
        => \A d \in Docs : Uploaded(d) => flag[d] = "verified" /\ d \notin stale]_vars

\* The offer letters keep the promise of Offers.tla under every interleaving and restart.
Offer == INSTANCE Offers
ImplementsOffers == Offer!Spec
=============================================================================
