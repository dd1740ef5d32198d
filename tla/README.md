# Formal model of the Aajiveka recruitment platform

TLA+ models of the parts of the Aajiveka API where several people, jobs and external
services work on the same rows, the TLC runs that check them, and TLAPS proofs of what
matters most. Paths below are relative to `src/apps/api/src/` unless they start with `src/`.

Run everything from this directory: `tlc -config MCReferralConc.cfg MCReferral`,
`tlapm ReferralProofs.tla`.

## The system

A NestJS API on PostgreSQL (Prisma), Redis for one-time passwords, BullMQ for jobs, and a
React web application over it. No handler holds a lock. Every awaited Prisma call commits on
its own at READ COMMITTED unless it is inside `$transaction`, so between two awaits of one
request any number of statements of other requests can run, and a restart leaves what was
written so far. The code protects itself with conditional updates
(`updateMany ... where status = <what was read>` and a check of `count`), with unique indexes,
and in places not at all.

| Component | State it keeps | Operations | Interacts with | What makes it correct | Model |
|---|---|---|---|---|---|
| CV referral hand-off (`modules/recruitment/cv-referral.service.ts`, `modules/q3/q3-referrals.service.ts`) | `CvReferral` rows: status, company review, sentAt, expiresAt, shortlistedAt | refer, forward, return, shortlist, reject, expire, reopen | Q2 review, status ladder, expiry job, employer portal, interview rounds | one referral in flight; Q3's outcomes exclude each other; a full review window; no answered CV taken back; the row of an unanswered CV taken back, and the CV then on Q2's queue | `Referral` |
| Application status ladder (`modules/jobs/job-application.service.ts`, `shared/status.ts`) | `JobSubscriberMapping.jobMapStatusID` and its log | apply, transitionStatus | called by everyone | status agrees with the referral, the newest round and the offer; the candidate's latest-status row repeats the status of the application it points to | in `Referral` and `Interviews` with the guards of its callers; in `Hiring` every caller that looks at no offer, for what it writes |
| Q2 match review (`modules/q2`) | `ApplicationMatchReview` | forward, send back, reject, notes | referrals, Q1 screening | a decided application is not decided again; a CV that comes back is on the queue | decisions in `Referral` |
| Employer portal (`modules/employers`) | jobs, applicants, rounds of its applications | decide, undo, schedule, record results, job posting | referrals, status ladder, rounds | a decision ends the review, an undo restores it; a correction takes a document set back | decisions on a referral in `Referral`, results of rounds and their undo in `Interviews`, documents in `Hiring`, decisions, undo and results once more there for the status |
| Q3 interview desk (`modules/q3/q3-interviews.service.ts`) | `InterviewRound`, `InterviewSlot`, `ApplicationHiring` | edit slots, availability, confirm, reschedule, checklist, conducted, decide, mail | status ladder, mail | invites once per schedule; one decision per round; slot, round, hold, status and mail agree | `Interviews` over `HiringLadder` |
| Portal rounds (`modules/recruitment/interview-round.service.ts`) | the same rows | create, add slots, select, submit result | status ladder | the status follows the newest round's result, through hold and undo | create in `Referral`, add slots and the guarded result in `Interviews`; create, select and the unguarded result in `Hiring` for the status |
| Payments (`modules/payments`) | `PaymentOrder`, `Subscription` | create order, verify, webhooks | Razorpay | one period per captured order, no capture without one | `Payments` over `SubscriptionLedger` |
| One-time passwords and registration (`modules/auth/otp.service.ts`, `auth.service.ts`) | Redis: code, attempts and pending form by handle, cooldown by address; user rows | register, resend, verify | mail | a code meets a bounded number of guesses and is accepted once; one account per address | `Accounts` |
| Sessions and passwords (`modules/auth`, `applyUserChanges` in `modules/admin`, `requestDeletion` in `modules/candidates`) | `SecActiveSessions`, `AuthPasswordReset`, the active flag | login, refresh, logout, forgot, reset, deactivate, reactivate | guards, browser | one bearer per sign-in; no session older than the last revocation | `Accounts` over `SignIns` |
| The browser's session (`src/apps/web/src/lib/axios.ts`, `tokenStorage.ts`, `features/auth/auth.store.ts`) | one refresh token in localStorage for all tabs, a user per tab | exchange on 401, sign in and out, start-up, reload | the endpoints above | the stored token is live; nothing live is left behind | in `Accounts` |
| Documents, offers, joining (`modules/q3/q3-documents.service.ts`, `modules/recruitment/offer-letter.service.ts`, the portal's reviews) | `CandidateDocumentMap`, `CandidateDocumentUploaded`, the hand-off in `ApplicationHiring`, `OfferLetter` | request, upload, verify, send back, forward, approve, offer, send, respond, joined | status ladder, candidate profile, recruiter board | an approved set is with the company; verdicts are about the file that is there; offers follow selection and verified files; joining needs an accepted offer; status tells the offer | `Hiring` over `Offers` |
| Recruiter board (`modules/recruitment/recruitment.service.ts`) | the same rows, older interview table | stage by hand, assign documents, review document, assign to job, schedule and update an interview | status ladder | its routes know nothing of the hand-off or the offer | those in `Hiring`, interviews for the status |
| Q1 screening, candidate profile, jobs, admin, notifications, email, audit, files, storage, exports, site documents, health, scoring, the web application's screens | rows of one user, output, pure functions | CRUD | | | not modelled |

Hard behaviour: guards read before an await and relied on after it; the hourly job that scans
first and claims later; verify calls and webhooks for one payment arriving twice, together and
late; undo that restores state from a log; a restart between two statements of a handler that
nothing repairs. `PROJECT.json` lists each under "hazards" at its line.

## How a handler is modelled

`Referral`, `Interviews`, `Hiring` and `Accounts` give each request a task: the rows it works on and the list of
database statements it has still to execute (`task[r].todo`). An action named after the
handler (`Q3Forward`, `Confirm`, ...) does the reads and guards of its beginning, takes what
it will write from the rows *as read*, and sets the list; each statement is an action
(`ClaimForward`, `Transition`, `SelectSlot`, ...), so all interleavings at await points occur.
A conditional update is a claim that ends the task when no row matched; an update by primary
key overwrites whatever the row holds by then. `$transaction` arrays are one statement.
The interactive transaction that settles a payment is three steps under a row lock, its
writes appearing at the commit. In `Accounts` a statement is one Redis command (the verify
script is one: Redis runs it whole) or one transaction; the answer that reaches the browser is
a step of its own, so a token may be issued, and revoked, before a tab stores it, or never
reach it. In `Hiring` the handlers that write once and decide nothing afterwards (apply, upload,
requests, moves by hand) are one step; those that check, write and settle keep their order.

Left out because nothing decides on them: audit rows, mail bodies, notification fan-out,
free-text fields, and the length of a day. The clock is a counter; a review window is
`Window` ticks. The referral model keeps the status log as the one entry an undo can read:
the newest status that is neither SHORTLISTED nor REJECTED.

| Module | Models | State | Actions |
|---|---|---|---|
| `Referral` | the hand-off of applications between Q2, Q3 and the company | `mapStatus`, `trail`, `review`, `refs`, `nrefs`, `rounds`, `now`; `task`, `stale`, `crashes` | the handlers of Q2, Q3, company and portal, their statements, `ScanStale`/`NextStale` (the BullMQ job), `Tick`, `Restart` |
| `Payments` | the Razorpay flow | `order`, `subs`; the gateway's `paid`, `events`, `acked`; `lock`, `req`, `now`, `crashes` | order creation, `VerifyPayment`, `WebhookCaptured`, `WebhookFailed`, the settle transaction, the gateway, `Restart` |
| `SubscriptionLedger` | the promise of the payments service: what is captured, what was granted | `paid`, `subs` | `Capture`, `Grant` |
| `Interviews` | the interviews of one application, answered through Q3's desk or the portal | `rounds`, `slots`, `hiring`, `stage`, `logged` (the status undo returns to), `now`; `task`; history `alone`, `desk`, `invites`, `releases` | one action per endpoint in `Handlers`, their statements, `Tick`, `Restart` |
| `HiringLadder` | the promise of the interview desk: rounds and decisions as a ladder | `ladder`, `hired` | `Decide`, `OpenNext`, `Hire` |
| `Accounts` | codes, accounts, sessions of one address and the browser that signs in | Redis: `otp`, `cooldown`; database: `users`, `links`, `sessions`, `tokens`; browser: `stored`, `signedIn`; `task`; history: `ncodes`, `ntokens`, `matched`, `revs`, `displaced`, `overlaps`, `lost` | the endpoints of auth, deactivation, their statements, `Succeeded`/`Failed` (the tab acts on an answer), `Bounce`, `Reload`, `BootstrapFails`, expiries, `Restart` |
| `SignIns` | the promise of the session table: a sign-in is held, in exchange or ended | `phase` | `Begin`, `HandIn`, `HandOut`, `End` |
| `Hiring` | documents, hand-off, offer, joining and status of one candidate's applications | `owner`, `flag`; `forwarded`, `approved`, `approvals`; `newest`; `offer`, `joined`; `status`, `logged` (the status undo returns to), `latest`; `task`; history: `stale`, `selected`, `accepted`, `aside`, `overlaps`, `stopped`, `byHand`, `beyond` | the handlers of Q3, company, recruiter and candidate, the handlers that move the status and know of no offer (`ScheduleInterview`, `UpdateInterviewStatus`, `CreateRound`, `SubmitResult`, `SelectSlot`, `DecideApplicant`, `UndoApplicantDecision`), their statements, `Restart` |
| `Offers` | the promise of the offer letters | `offer`, `accepted`, `joined` | `Draft`, `Send`, `Accept`, `Decline`, `Join` |
| `ReferralProofs`, `PaymentsProofs`, `AccountsProofs`, `HiringProofs` | theorems about the module named | | |
| `InterviewsProofs`; `InterviewsDeskProofs`, `InterviewsSerialProofs`, `InterviewsPortalProofs` | theorems about `Interviews`: its type and what every endpoint begins; Q3's desk with any number of users; one handler at a time at the desk; one handler at a time in the portal | | |
| `MCReferral`, `MCPayments`, `MCInterviews`, `MCAccounts`, `MCHiring` | model values and symmetry for TLC | | |

Composition: `Referral` composes the referral service, the Q2 decisions, the expiry job, the
portal's decisions and the status ladder, which share rows. `Payments` instantiates
`SubscriptionLedger` on its own `paid` and `subs`; `Interviews` instantiates `HiringLadder`
with the rounds projected to decision and final flag. `Accounts` composes the API's session
table with the tabs of a browser and instantiates `SignIns`, telling each sign-in's phase from
its live tokens and the exchanges under way. `Hiring` composes the document routes of three
kinds of user with the offer service and the status ladder, and instantiates `Offers` on its own
variables; it takes over where `Interviews` ends, at the decision to select, by whichever of
the three ways it is made: at Q3's desk, as the result of a round, or by the company before any
round. Which rounds exist is left open there, so a handler may run that the code would refuse
for the lack of a round, or for one: `Hiring` allows more than the code, never less.

Definitions headed "Mutant of ..." are plausible bugs used to show that each property can fail;
no specification uses them.

## What is checked

| Run | Question | Bounds |
|---|---|---|
| `referral_concurrent` | Two users and the hourly job, statement by statement: type, Q3's outcomes exclude each other, full window before expiry, clock runs while the company is asked, answered CVs are not expired | one application, two requests, one referral, one round, window 1, clock 0..2; requests are symmetric |
| `referral_serial` | Any sequence of whole handlers, undo and re-referral included: one referral in flight, expired and returned CVs on Q2's queue, company inbox and application agree | three referrals, two rounds, clock 0..3, all three portal decisions |
| `referral_liveness` | The row of an unanswered CV is taken back, also when the API restarts between scan and claim; a restart after the claim leaves status and queue unwritten, which is not claimed away (hazard at `expireStale`) | one request, one restart |
| `referral_undo` (violated) | "reopen its 14-day window" after the undo of a shortlist | one request |
| `payments` | Type, one period per order, a paid order has its period, an acknowledged full capture has its period, refinement of the ledger, captured money is granted | two orders of one subscriber, two requests, one restart, clock 0..1 |
| `payments_late_failure` (violated) | a late failure does not turn a paid order FAILED | one order, two requests |
| `payments_renewal` (violated) | a renewal keeps the time already paid for | two orders, two requests |
| `interviews_concurrent` | Two Q3 users, with restarts: type, invites once per schedule, refinement of the ladder | two rounds, two slots, one reschedule, clock 0..1 |
| `interviews_serial` | Any sequence of whole handlers: slot, round, hold, status and decision mail agree at Q3's desk; in the portal the status follows the newest round's result and undo takes both back | all eleven endpoints, two rounds, two slots, clock 0..2 |
| `interviews_unavailable` (violated) | an unavailable slot can no longer be confirmed | one round, one slot, two requests |
| `accounts` | Requests of two tabs, of whoever else sent a form, and of an administrator: type; guesses bounded, a code accepted once, sessions not older than a revocation, locked out unless in flight, refinement of `SignIns` under every interleaving; one account per address, the stored token live and nothing else left live for requests one at a time | two requests, two tabs, two handles, one reset link, two attempts, two codes, two accounts, two tokens, one revocation, one overlap; all sets symmetric |
| `hiring` | Handlers on one application while the candidate has another: type, offers only for an application somebody decided to select, joiners accepted, refinement of `Offers` under every interleaving and restart; approved sets held, verdicts on the present file, latest-status row, offers on verified files for requests one at a time; so too that the status tells the offer, but where a handler that knows of no offer moved it since | two requests, two applications of which one is pursued, two documents, one disturbance: an overlap, a restart, a move by hand, or going beyond (handlers that know of no offer, any number, or the second application); requests and documents symmetric |

Why the bounds are enough. The races in this code are between two handlers, or a handler and
the job, on one row; two requests and the job reach each of them. No action reads one
application's rows to change another's, so one application shows what a set of them does
(the theorems hold for any set). Window 1 and clock 2 give a moment before, on and after the
deadline. Three referrals allow refer, return or expire, re-refer and again. Two orders of one
subscriber are what a renewal needs. Two rounds cover a first round, its successor and a
final round; two slots cover a changed choice. The bounds on rows count those that running
handlers are still going to insert, so a bound stops a handler from starting and never cuts
one short. A bound on the clock ends time, so fairness on `Tick` stops at `MaxNow`; the
liveness properties speak of deadlines inside it. The referral and interview runs do not
check deadlock: with the clock at its bound and no rows left to create the bounded system
may come to rest. The payments runs do so for the same reason, and the accounts
run, which stops when codes, tokens and revocations are used up.

In `accounts` two codes are a code and its resent successor, two tokens a sign-in and one
rotation (or two sign-ins, one displacing the other), two attempts a guess allowed and a guess
refused; two accounts are what a second registration would make. One overlap is two requests
that interleave freely: every race of this code is between two. In `hiring` two documents let a
set be half judged, and the second application makes the latest-status row point elsewhere and
gives `mapIdForUpload` a choice. One disturbance, whichever it is, keeps the space in
reach: TLC explores the handlers that know of no offer in any number and order, but not
together with an overlap, a restart or a move by hand. The theorems below have no such bound
and cover them together.

The properties of the serial runs, and those of `Accounts` and `Hiring` that begin with `Alone`,
are claimed when handlers do not overlap, and the models say why: statements of two handlers on one application can leave, for instance, two open
referrals (a double click on Forward), a late transition over a newer status, an approved
document set the company no longer holds, two accounts from two verifications at once, or a
browser signed out by the slower of two exchanges. Those are
listed as hazards, with a note. `CompanyInboxAgrees`, `ScheduledSlotAgrees` and their
like are what the code promises to a user who waits for an answer before the next click.

### Disagreements with the code's own comments

- *Undo of a shortlist* leaves `companyShortlistedAt` set; the expiry job skips such rows, so
  the reopened window never ends (`modules/employers/employers.service.ts:1427`).
- *Late `payment.failed`*: guard on the order as read, then an update by primary key; a
  capture between the two is overwritten (`modules/payments/payments.service.ts:277-283`).
  The period stays granted: `SuccessIsGranted` and the ledger hold.
- *Concurrent renewals* of one subscriber start at the same instant
  (`modules/payments/payments.service.ts:140`, `:246`, comment at `:462`).
- *A slot marked unavailable* between confirm's check and its update is confirmed
  (`modules/q3/q3-interviews.service.ts:252-267`, comment at `:187`).

Seen while modelling, and left as guards of the properties (`Alone`, `task[r].since`) or outside
the models rather than runs of their own:

- "A password change kills every live session" (`modules/auth/auth.service.ts:671`): a login or
  refresh past its check issues its tokens after the deletion (`SessionsPostdateRevocation` is
  about the order of issue and revocation for that reason), and `changePassword`
  (`modules/candidates/candidates.service.ts:1398`) deletes no session.
- "Re-checked inside the write" (`auth.service.ts:399`): the check at 402 is outside the
  transaction that begins at 409.
- "an answered offer stays answered" (`modules/recruitment/offer-letter.service.ts:139`): only
  `respondToOffer` looks; sending an answered offer makes it `Sent` again. `Offers` therefore
  promises no more than that each answer follows a sending.
- "the hand-off starts again" (`modules/q3/q3-documents.service.ts:252`): not when the recruiter
  rejects a document, or the candidate uploads another file.
- Undo reopens a failed round only when the newest logged status is an interview's
  (`modules/employers/employers.service.ts:1446`). `selectSlot` logs the status it read
  (`interview-round.service.ts:238`), which may be SHORTLISTED or INTERVIEW_NOT_ATTENDED: a round
  failed after such a pick stays failed, and the company, told to record the result on that round
  (line 1320), cannot. Undo also leaves Q3's own `decision` on the round it reopens.
- "The offer unlocks after the company approves the documents"
  (`q3-documents.service.ts:406`): Q3's route checks it, the recruitment route `createOffer` does
  not; `OfferOnVerifiedFiles` says what both routes guarantee.

### Fairness

`Referral`: weak fairness on the statements of a running handler (Node goes on with a handler
it has begun), on the job's scan and on its next row (`upsertJobScheduler` every hour), and on
the clock. Nothing makes a person click, so no handler's start is fair. `Payments`: weak
fairness on a request's steps and strong fairness on the delivery of an unanswered capture:
Razorpay sends a webhook again until it is answered with success, and a request is free again
and again. Strong, because busy requests and restarts disable a delivery in between. Restarts
are bounded. `Interviews` states safety only and assumes no fairness: a restart between a
decision and its next round is not repaired by the code, so nothing promises that the ladder
moves on. `Accounts` and `Hiring` state safety only, for the same reason: every step there is
begun by a person, and nothing repairs what a restart cut short.

## What is proved

For every value of the constants satisfying the named assumption of each module (any sets of
applications, requests, orders and subscribers, any bounds).

`ReferralProofs` (assumes `ReferralAssumption`): `TypeOK`, `Q3DecidesOnce`,
`ClockRunsWhileAwaiting`, `ExpiredAfterFullWindow`, `AnsweredIsNotExpired`. None
is inductive by itself. The inductive invariant `Inv` adds to the type:

- `RowsAgree`: what holds of each referral row in every combination of its fields. A row that was
  never sent has no sentAt, a returned row's flag, the clock of a row awaiting an answer.
  `Q3DecidesOnce` and `ClockRunsWhileAwaiting` are parts of it.
- `NewRows`: rows beyond `nrefs` are untouched, so that an insert starts from a known row.
- `TasksAgree`: what the statements a handler still has to execute may rely on: an answer or a
  reopening only comes to a row that was sent, an expiry only to one whose window is over.
  Needed because an overwriting statement such as `reopen` has no guard of its own.
- `StaleAgrees`: the window of a row the job found is over. The claim does not look at
  expiresAt again, so the fact must be carried from the scan to the claim over everything
  that happens in between. This is what makes `ExpiredAfterFullWindow` true.

Assuming `Serial` (one handler runs at a time, as in `referral_serial`), the module also proves
`OneOpenReferral`, wherever handlers are cut short, and `BackOnQ2Queue` and `CompanyInboxAgrees` as
long as none is. Between two statements of a handler nothing agrees, so `SerialInv`
speaks of the one worker that may be running. `After` names the lists of statements that exist;
for every application `OpenOK` says that no referral but the newest is out, and, while nothing was
cut short, `CalmOK` that status, log and review row tell the newest referral but for what the
running handler has still to write, and that it will write what they should tell. What a
statement does to one application is proved first as a lemma without primes (`StatusAgrees`,
`AnswerAgrees`, `FindAgrees`, ...), then each action is one of those.

`PaymentsProofs` (assumes `PaymentsAssumption`): `TypeOK`, `OneSubscriptionPerOrder`,
`SuccessIsGranted`, `AckedCaptureIsGranted`, and `ImplementsLedger`. The inductive invariant
adds `HandlersAgree` (a request that settles works on an order the gateway captured, one that
marks a failure was started by a failed webhook, and a webhook being handled was sent) and
`EventsAgree` (a captured event exists only for a captured order). The refinement follows step by step: `Capture` is the ledger's
`Capture`, a committing `Insert` its `Grant`, everything else a stutter.

`AccountsProofs` (assumes `AccountsAssumption`): `TypeOK`, `GuessesBounded`, `CodeUsedOnce`,
`SessionsPostdateRevocation`, `LockedOutOnlyInFlight`, `ImplementsSignIns`, and, for requests that
do not overlap, `OneAccountPerAddress`, `StoredIsLive` and `LoggedOutIsRevoked`. The inductive invariant `Inv` adds to the type:

- `TasksAgree`: what the statements to come rely on, such as the account and the token a
  request works for, and when it began.
- `Bounded`: what running handlers will still insert fits the bounds, so an insert is never
  refused; this is what lets the proof know the row it writes is a new one.
- `OtpsAgree`: the script counted every guess it compared, and a code stands under one handle
  and has not been matched: a code issued again is a new one.
- `TokensAgree`: tokens not yet issued belong to nobody and are in no session.

`ImplementsSignIns` rests on `OneBearer`: for each sign-in, live tokens and exchanges under way
number at most one. It holds because `ClaimSession` deletes by key and looks at the count: a
second exchange of the same token finds no row. `OneAccountPerAddress` has an invariant of its
own (`SerialInv`): while no request has overlapped another, at most one task is running, so
nothing comes between the re-check and the transaction. On top of it `StorageInv` says what storage and
sessions tell around the one request that runs (`Fits`): the stored token is live, until an exchange or a
logout has handed it in, and from then on it is in no session; what is live beside it
was displaced by a later sign-in, or is the token on its way to a tab that waits. The last
is why the two properties need that no answer was lost: a tab reloaded meanwhile waits no more.

`HiringProofs` (assumes `HiringAssumption`): under every interleaving `TypeOK`,
`OfferAfterSelection`, `JoinedAccepted`, `ImplementsOffers`; while no two requests have overlapped
`HandOffAgrees`, `VerdictIsOnTheFile`, `LatestAgrees`, `OfferOnVerifiedFiles`, `OfferStatusAgrees`.
The first four follow from `Inv`, which says what each statement may rely on (`TasksAgree`: a draft comes only to
an application selected or moved by hand, an answer only to an offer that was sent, a
joining only to one that was accepted) and what stays on record (`Recorded`): whatever status or
log says SELECTED somebody decided, on any of the three ways, or was moved by hand, and the same of
JOINED and acceptance. The log is part of it because an undo writes what it finds there. The next
four need `Serial`: at most one handler runs, what it read still holds (`SerialTask`), and the
tables agree whenever it has finished a step (`Tables`). For `OfferStatusAgrees` the tables do not
agree between the offer's write and the status's, so its invariant `Told` says: every application
tells its offer (`AppTold`), but the one whose status is the running handler's next write, and what
that handler will write is what its offer then says (`ToldTask`). `AppTold` has two halves: the
status tells the offer, or was set aside by a handler that knows of no offer and is no stage of an
offer; and the newest stage in the log, if it is a stage of an offer, tells the offer too, which is
why an undo that brings it back does no harm.

What `OfferStatusAgrees` does not say is the code's doing. Scheduling or updating an interview, a new
round, a result, a decision of the company and its undo go through `transitionStatus` without a
look at the offer, so an application may read INTERVIEW_SCHEDULED beside an offer that was sent.
The property allows that for applications so moved (`aside`) until their status tells a
stage of the offer again, and `Offers` is not disturbed by it.

`InterviewsProofs` and the three modules that extend it (assume `InterviewsAssumption`) prove
all six properties of the interview runs and the refinement. The inductive invariant `Inv` of
`InterviewsProofs`, from which `TypeOK` follows, adds to the type which rows exist (`RowsOK`) and
`TasksAgree`: a task is one of the finitely many lists of statements an endpoint begins with, or a
rest of one, and carries what the rest will read (a round that exists, a decision with the
consequences it has). Every later proof starts from two lemmas of it: `StartBegan`, which says
what each endpoint leaves to be executed, and `StepMoves`, which says that a step executes the
first statement of a list.

- `InvitesAreOncePerSchedule` and `LadderImplemented` (`InterviewsDeskProofs`) hold for any number of
  overlapping handlers and wherever the process stops. They assume `Handlers \subseteq Q3Endpoints`:
  the application is answered at Q3's desk, the only place that records decisions and frees a
  round by a release. The first needs an account (`Paid`): a round's invites sent, those
  that handlers still owe, and the one a confirm may still claim never exceed its releases and
  one more; the invites owed are a set of running handlers, so its
  cardinality is followed through every step. The second needs `LadderInv`: every round but the newest was cleared, a next
  round or a hire still to be written is the newest round's decision, and one handler's only.
  This is what `decision: null` in the claim's where-clause buys.
- `MailsTellDecisions`, `ScheduledSlotsAgree`, `StatusesAgree` (`InterviewsSerialProofs`, desk) and
  `PortalStatusesAgree` (`InterviewsPortalProofs`, portal) are about handlers that run one at a
  time and are not cut short, for any endpoints and bounds. Between two statements of a
  handler the tables do not agree, so each invariant (`MailInv`, `SlotInv`, `StageInv`, `PortalInv`)
  speaks of the tables and of the one task being executed: what they lack is exactly what the
  task is still to write, and what it will write is right. `PortalInv` also carries
  what undo relies on: the status that the log would return to is one the newest round had before its
  result (`FitsRow`), and every earlier round was passed (`RowsFit`), so `findFirst` by number
  finds the round the rejection was about.

The proof of `StatusesAgree` found an error in an earlier form of the model: two arms of a CASE
overlapped (a result "Passed" with and without a next round), which in TLA+ chooses an unknown
one of them where the code takes the first. `RecordInterviewResult` and `Shows` now have disjoint arms.

Each proof has a lemma per action (or per group of actions that write alike), the facts about
initial states and steps, and a last step by temporal logic.

Only model-checked: the liveness properties (`UnansweredComesBack`, `CapturedIsGranted`),
which are beyond the prover. Every other property of a passing run is also a theorem, within the
hypotheses named above.

## What is not modelled

In `Interviews` an application is answered through one of the two: Q3's `decide` or the portal's
`recordInterviewResult`, `addSlots` and undo (`Answers`, a bound of the model: the code lets the two
mix). Mixed, no agreement holds: each writes fields the other does not look at. For the same
reason the candidate's `selectSlot`, which looks neither at the round's status nor at
`isUnavailable`, and the two routes of `interview-rounds` that reach `createRound` and
`submitResult` without the portal's guards (`modules/recruitment/recruitment.controller.ts:251`,
`:298`) are not in `Interviews`; `Hiring` has them for what they do to the status. There the
existence of rounds is left open, and with it the guards that ask for a round or for none.
Q2's and the referral service's moves of the status are in `Referral`; in `Hiring` they are among
those of a new round or a result, which write the same kinds of stage under no guard. The refinement of the ladder and the invites are claimed for Q3's desk
only: the portal records results, not decisions.

Within modelled components: mail, audit and notification output; the BillDesk methods of the
payments service, of which a route reaches only `createOrder` (`modules/payments/payments.controller.ts:92`),
which only inserts an order; `requestSlots`, `remind`, `nudge` and `contact`,
which log; Q1's screening row in a send-back; `registerEmployer`, `changePassword`,
role changes and the access token's own lifetime; reminders and mails of the document routes.
`Accounts` is about the accounts of one address and one browser: neither code, nor session, nor
storage of another address is looked at by any handler of it. Other
components: see the table; single-row CRUD, output and pure functions offer nothing that
interleaving can break beyond what their tests reach.

## Plan

1. Done: `Referral` with proofs; `Payments` over `SubscriptionLedger` with proofs; `Interviews`
   over `HiringLadder`; `Accounts` over `SignIns` with proofs; `Hiring` over `Offers` with proofs.
2. Done: the theorems about `Interviews`.
3. The candidate's `selectSlot` and both desks on one application, once the agreement they are to
   keep is decided.
4. Done: the theorems about handlers that run one at a time, in every component.
