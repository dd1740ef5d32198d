--------------------------- MODULE ReferralProofs ---------------------------
(***************************************************************************)
(* Theorems about Referral.tla for any number of applications, requests,   *)
(* referrals and restarts. One inductive invariant, Inv, carries those of  *)
(* any interleaving; SerialInv, the ones of handlers that do not overlap.  *)
(***************************************************************************)
EXTENDS Referral, FiniteSetTheorems, TLAPS

Sent(m, i) == refs[m][i].sentAt # Never
Due(m, i) == refs[m][i].sentAt + Window < now

\* What one referral row says about itself. sentAt never goes back to NULL, so it is
\* the memory the other columns are measured against.
RowAgrees(row) ==
    /\ row.status \in {"None", "Referred"} => (row.sentAt = Never /\ ~row.returnedByQ3)
    /\ row.returnedByQ3 => row.sentAt = Never
    /\ row.sentAt # Never => row.sentAt <= now
    /\ row.status \in {"SentToCompany", "Expired"} => row.sentAt # Never
    /\ row.answer # "Pending" => row.sentAt # Never
    /\ (row.status = "SentToCompany" /\ row.answer = "Pending") => row.expiresAt = row.sentAt + Window
    /\ row.status = "Expired" => row.sentAt + Window < now
RowsAgree == \A m \in Maps, i \in Ids : RowAgrees(refs[m][i])

\* Rows beyond the count have not been inserted.
NewRows == \A m \in Maps, i \in Ids : i > nrefs[m] => refs[m][i].status = "None"

\* What a running handler may still execute: answers and reopenings only on a referral
\* that was sent, an expiry only on one whose window is over, and the search for the
\* newest referral only first, with the rest of referToQ3 behind it.
Answering == {"select", "answer", "reject", "reopen", "history"}
TodoAgrees(todo, m, i) ==
    \A k \in 1 .. Len(todo) :
        /\ todo[k] \in Answering => (i = 0 \/ Sent(m, i))
        /\ todo[k] = "claimExpire" => (i # 0 /\ Due(m, i))
        /\ todo[k] = "find" =>
               /\ k = 1
               /\ Len(todo) >= 4
               /\ \A j \in 1 .. Len(todo) : todo[j] \notin Answering \union {"claimExpire"}
TasksAgree == \A w \in Workers : TodoAgrees(task[w].todo, task[w].map, task[w].ref)

StaleAgrees == \A x \in stale : Due(x[1], x[2])

Inv == TypeOK /\ RowsAgree /\ NewRows /\ TasksAgree /\ StaleAgrees

\* Never is a value of the columns, later than every moment of the clock.
LEMMA NeverType == Never \in Nat /\ Never \in Times /\ MaxNow < Never /\ MaxNow + Window < Never
BY ReferralAssumption DEF Never, Times

LEMMA NoReferralType == NoReferral \in Referral
BY NeverType DEF NoReferral, Referral, RefStatus

LEMMA InitInv == Init => Inv
<1> SUFFICES ASSUME Init PROVE Inv
    OBVIOUS
<1>1. refs \in [Maps -> [Ids -> Referral]]
    BY NoReferralType DEF Init
<1>2. PICK m \in Maps : task = [w \in Workers |-> Idle(m)]
    BY DEF Init
<1>3. task \in [Workers -> Task]
  <2>1. <<>> \in Seq(Statements) /\ "MAPPED" \in MapStatus /\ 0 \in 0 .. MaxReferrals
      BY ReferralAssumption DEF MapStatus
  <2> QED
      BY <1>2, <2>1 DEF Task, Idle
<1>4. TypeOK
    BY <1>1, <1>3, ReferralAssumption DEF Init, TypeOK, MapStatus, Marks, ReviewStatus
<1>5. \A m_1 \in Maps, i \in Ids : refs[m_1][i] = NoReferral
    BY DEF Init
<1>6. RowsAgree /\ NewRows
    BY <1>5 DEF RowsAgree, RowAgrees, NewRows, NoReferral
<1>7. \A w \in Workers : Len(task[w].todo) = 0
    BY <1>2 DEF Idle
<1>8. TasksAgree
    BY <1>7 DEF TasksAgree, TodoAgrees
<1> QED
    BY <1>4, <1>6, <1>8 DEF Init, Inv, StaleAgrees

-----------------------------------------------------------------------------
\* Starting a handler changes nothing but its own task.
LEMMA BeginKeepsInv ==
    ASSUME Inv, NEW w \in Workers, NEW m \in Maps, NEW i \in 0 .. MaxReferrals,
           NEW todo \in Seq(Statements), TodoAgrees(todo, m, i), Begin(w, m, i, todo)
    PROVE  Inv'
<1> DEFINE started == [map |-> m, ref |-> i, to |-> "MAPPED", todo |-> todo]
<1>1. started \in Task
    BY DEF Task, MapStatus
<1>2. /\ task' \in [Workers -> Task]
      /\ task'[w] = started
      /\ \A v \in Workers : v # w => task'[v] = task[v]
    BY <1>1 DEF Begin, Inv, TypeOK
<1> HIDE DEF started
<1>3. started.todo = todo /\ started.map = m /\ started.ref = i
    BY DEF started
<1>4. UNCHANGED <<mapStatus, trail, review, refs, nrefs, rounds, now, stale, crashes>>
    BY DEF Begin
<1>5. TypeOK'
    BY <1>2, <1>4 DEF Inv, TypeOK
<1>6. TasksAgree'
  <2> SUFFICES ASSUME NEW v \in Workers
               PROVE  TodoAgrees(task'[v].todo, task'[v].map, task'[v].ref)
      BY <1>4 DEF TasksAgree, TodoAgrees, Sent, Due
  <2> QED
      BY <1>2, <1>3 DEF Inv, TasksAgree
<1> QED
    BY <1>4, <1>5, <1>6 DEF Inv, RowsAgree, RowAgrees, NewRows, StaleAgrees, Due

\* A handler without an answer, an expiry or a search may always run.
LEMMA PlainTodo ==
    ASSUME NEW todo, NEW m, NEW i,
           \A k \in 1 .. Len(todo) : todo[k] \notin Answering \union {"claimExpire", "find"}
    PROVE  TodoAgrees(todo, m, i)
BY DEF TodoAgrees

\* A handler that answers or reopens a referral that was sent.
LEMMA AnsweringTodo ==
    ASSUME NEW todo, NEW m, NEW i, i = 0 \/ Sent(m, i),
           \A k \in 1 .. Len(todo) : todo[k] \notin {"claimExpire", "find"}
    PROVE  TodoAgrees(todo, m, i)
BY DEF TodoAgrees

LEMMA SentWhileOut ==
    ASSUME Inv, NEW m \in Maps, NEW i \in Ids,
           refs[m][i].status = "SentToCompany" \/ refs[m][i].answer # "Pending"
    PROVE  Sent(m, i)
BY DEF Inv, RowsAgree, RowAgrees, Sent

LEMMA StartKeepsInv ==
    ASSUME Inv, NEW r \in Requests, Start(r)
    PROVE  Inv'
<1> PICK m \in Maps :
        \/ ReferToQ3(r, m) \/ Q2Forward(r, m) \/ Q2SendBack(r, m) \/ Q2Reject(r, m)
        \/ Q3SetupRound(r, m) \/ UndoDecision(r, m) \/ ScheduleInterview(r, m) \/ BookRound(r, m)
        \/ \E s \in Decisions : DecideApplicant(r, m, s)
        \/ \E i \in 1 .. nrefs[m] :
               \/ Q3Forward(r, m, i) \/ Q3Return(r, m, i)
               \/ CompanyShortlist(r, m, i) \/ CompanyReject(r, m, i)
    BY DEF Start
<1> r \in Workers
    BY DEF Workers
<1>0. /\ 0 \in 0 .. MaxReferrals
      /\ nrefs[m] \in 0 .. MaxReferrals
      /\ \A i \in 1 .. nrefs[m] : i \in Ids /\ i \in 0 .. MaxReferrals
    BY ReferralAssumption DEF Inv, TypeOK, Ids
<1>1. CASE ReferToQ3(r, m)
  <2> DEFINE todo == <<"find", "supersede", "create", "REFERRED_TO_Q3">>
  <2>1. todo \in Seq(Statements)
      BY DEF Statements, MapStatus
  <2>2. TodoAgrees(todo, m, 0)
      BY DEF TodoAgrees, Answering
  <2> QED
      BY <1>0, <1>1, <2>1, <2>2, BeginKeepsInv DEF ReferToQ3
<1>2. CASE Q2Forward(r, m)
  <2> DEFINE todo == <<"find", "supersede", "create", "REFERRED_TO_Q3", "Forwarded">>
  <2>1. todo \in Seq(Statements)
      BY DEF Statements, MapStatus, ReviewStatus
  <2>2. TodoAgrees(todo, m, 0)
      BY DEF TodoAgrees, Answering
  <2> QED
      BY <1>0, <1>2, <2>1, <2>2, BeginKeepsInv DEF Q2Forward
<1>3. CASE Q2SendBack(r, m) \/ Q2Reject(r, m)
  <2> DEFINE sent == <<"NEED_MORE_INFO", "SentBackToQ1">>
             rejected == <<"REJECTED", "RejectedByQ2">>
  <2>1. sent \in Seq(Statements) /\ rejected \in Seq(Statements)
      BY DEF Statements, MapStatus, ReviewStatus
  <2>2. TodoAgrees(sent, m, 0) /\ TodoAgrees(rejected, m, 0)
      BY DEF TodoAgrees, Answering
  <2> QED
      BY <1>0, <1>3, <2>1, <2>2, BeginKeepsInv DEF Q2SendBack, Q2Reject
<1>4. CASE Q3SetupRound(r, m)
  <2> DEFINE todo == <<"round", "markShortlisted", "SHORTLISTED">>
  <2>1. todo \in Seq(Statements)
      BY DEF Statements, MapStatus
  <2>2. TodoAgrees(todo, m, 0)
      BY DEF TodoAgrees, Answering
  <2> QED
      BY <1>0, <1>4, <2>1, <2>2, BeginKeepsInv DEF Q3SetupRound
<1>5. CASE UndoDecision(r, m)
  <2> DEFINE todo == <<"history", "restore", "reopen">>
             i == IF nrefs[m] > 0 /\ refs[m][nrefs[m]].answer # "Pending" THEN nrefs[m] ELSE 0
  <2>1. todo \in Seq(Statements)
      BY DEF Statements
  <2>2. i \in 0 .. MaxReferrals /\ (i = 0 \/ Sent(m, i))
      BY <1>0, SentWhileOut DEF Ids
  <2>3. TodoAgrees(todo, m, i)
    <3> HIDE DEF i
    <3> QED
        BY <2>2, AnsweringTodo
  <2>4. Begin(r, m, i, todo)
      BY <1>5 DEF UndoDecision
  <2> QED
      BY <2>1, <2>2, <2>3, <2>4, BeginKeepsInv
<1>6. CASE ScheduleInterview(r, m)
  <2> DEFINE answered == <<"answer", "markShortlisted", "round", "INTERVIEW_R1">>
             plain == <<"markShortlisted", "round", "INTERVIEW_R1">>
  <2>1. answered \in Seq(Statements) /\ plain \in Seq(Statements)
      BY DEF Statements, MapStatus
  <2>2. TodoAgrees(plain, m, 0)
      BY DEF TodoAgrees, Answering
  <2>3. AwaitsAnswer(m) => TodoAgrees(answered, m, nrefs[m])
    <3> SUFFICES ASSUME AwaitsAnswer(m) PROVE TodoAgrees(answered, m, nrefs[m])
        OBVIOUS
    <3>1. Sent(m, nrefs[m])
        BY <1>0, SentWhileOut DEF AwaitsAnswer, LatestIs, Ids
    <3> QED
        BY <3>1, AnsweringTodo
  <2> QED
      BY <1>0, <1>6, <2>1, <2>2, <2>3, BeginKeepsInv DEF ScheduleInterview
<1>7. CASE BookRound(r, m)
  <2> DEFINE todo == <<"round", "INTERVIEW_R1", "markShortlisted">>
  <2>1. todo \in Seq(Statements)
      BY DEF Statements, MapStatus
  <2>2. TodoAgrees(todo, m, 0)
      BY DEF TodoAgrees, Answering
  <2> QED
      BY <1>0, <1>7, <2>1, <2>2, BeginKeepsInv DEF BookRound
<1>8. ASSUME NEW s \in Decisions, DecideApplicant(r, m, s) PROVE Inv'
  <2> s \in MapStatus /\ s \notin Answering \union {"claimExpire", "find"}
      BY ReferralAssumption DEF MapStatus, Answering
  <2>1. CASE ~AwaitsAnswer(m)
    <3>1. <<s>> \in Seq(Statements)
        BY DEF Statements
    <3>2. TodoAgrees(<<s>>, m, 0)
        BY DEF TodoAgrees
    <3> QED
        BY <1>0, <1>8, <2>1, <3>1, <3>2, BeginKeepsInv DEF DecideApplicant
  <2>2. CASE AwaitsAnswer(m)
    <3> DEFINE rejecting == <<s, "reject">>
               choosing == <<s, "answer", "markShortlisted">>
    <3>1. rejecting \in Seq(Statements) /\ choosing \in Seq(Statements)
        BY DEF Statements
    <3>2. Sent(m, nrefs[m])
        BY <1>0, <2>2, SentWhileOut DEF AwaitsAnswer, LatestIs, Ids
    <3>3. TodoAgrees(rejecting, m, nrefs[m]) /\ TodoAgrees(choosing, m, nrefs[m])
        BY <3>2 DEF TodoAgrees
    <3> QED
        BY <1>0, <1>8, <2>2, <3>1, <3>3, BeginKeepsInv DEF DecideApplicant
  <2> QED
      BY <2>1, <2>2
<1>9. ASSUME NEW i \in 1 .. nrefs[m], Q3Forward(r, m, i) \/ Q3Return(r, m, i) PROVE Inv'
  <2> DEFINE forward == <<"claimForward", "SENT_TO_COMPANY">>
             return == <<"claimReturn", "New", "MAPPED">>
  <2>1. forward \in Seq(Statements) /\ return \in Seq(Statements)
      BY DEF Statements, MapStatus, ReviewStatus
  <2>2. TodoAgrees(forward, m, i) /\ TodoAgrees(return, m, i)
      BY DEF TodoAgrees, Answering
  <2> QED
      BY <1>0, <1>9, <2>1, <2>2, BeginKeepsInv DEF Q3Forward, Q3Return
<1>10. ASSUME NEW i \in 1 .. nrefs[m], CompanyShortlist(r, m, i) \/ CompanyReject(r, m, i) PROVE Inv'
  <2> DEFINE shortlist == <<"select", "markShortlisted", "round", "INTERVIEW_R1">>
             reject == <<"reject", "REJECTED">>
  <2>1. shortlist \in Seq(Statements) /\ reject \in Seq(Statements)
      BY DEF Statements, MapStatus
  <2>2. Sent(m, i)
      BY <1>0, <1>10, SentWhileOut DEF CompanyShortlist, CompanyReject
  <2>3. TodoAgrees(shortlist, m, i) /\ TodoAgrees(reject, m, i)
      BY <2>2 DEF TodoAgrees
  <2> QED
      BY <1>0, <1>10, <2>1, <2>3, BeginKeepsInv DEF CompanyShortlist, CompanyReject
<1> QED
    BY <1>1, <1>2, <1>3, <1>4, <1>5, <1>6, <1>7, <1>8, <1>9, <1>10

-----------------------------------------------------------------------------
\* No statement of any handler changes when a referral was sent.
RefsStable == \A m \in Maps, i \in Ids : Sent(m, i) => refs'[m][i].sentAt = refs[m][i].sentAt

LEMMA DueIsSent ==
    ASSUME TypeOK, NEW m \in Maps, NEW i \in Ids, Due(m, i)
    PROVE  Sent(m, i)
<1>1. refs[m][i].sentAt \in Nat /\ now \in Nat /\ now <= MaxNow
    BY ReferralAssumption, NeverType DEF TypeOK, Referral, Times
<1> QED
    BY <1>1, NeverType, ReferralAssumption DEF Due, Sent

LEMMA TodoStable ==
    ASSUME TypeOK, RefsStable, now' = now, NEW todo, NEW m \in Maps, NEW i \in 0 .. MaxReferrals,
           TodoAgrees(todo, m, i)
    PROVE  TodoAgrees(todo, m, i)'
<1>1. i # 0 => i \in Ids
    BY ReferralAssumption DEF Ids
<1>2. (i # 0 /\ Sent(m, i)) => Sent(m, i)'
    BY <1>1 DEF RefsStable, Sent
<1>3. (i # 0 /\ Due(m, i)) => Due(m, i)'
    BY <1>1, DueIsSent DEF RefsStable, Due
<1> QED
    BY <1>2, <1>3 DEF TodoAgrees

LEMMA StaleStable ==
    ASSUME Inv, RefsStable, UNCHANGED <<stale, now>>
    PROVE  StaleAgrees'
<1> SUFFICES ASSUME NEW x \in stale PROVE Due(x[1], x[2])'
    BY DEF StaleAgrees
<1>1. x[1] \in Maps /\ x[2] \in Ids
    BY DEF Inv, TypeOK
<1>2. Due(x[1], x[2])
    BY DEF Inv, StaleAgrees
<1> QED
    BY <1>1, <1>2, DueIsSent DEF Inv, RefsStable, Due

LEMMA TaskType ==
    ASSUME TypeOK, NEW w \in Workers
    PROVE  /\ task[w].map \in Maps
           /\ task[w].ref \in 0 .. MaxReferrals
           /\ task[w].to \in MapStatus
           /\ task[w].todo \in Seq(Statements)
BY DEF TypeOK, Task

\* A handler that drops statements from the front of its list keeps to the rules.
LEMMA GotoTasks ==
    ASSUME Inv, NEW w \in Workers, NEW t \in Seq(Statements), NEW d \in Nat \ {0},
           Len(t) + d = Len(task[w].todo),
           \A k \in 1 .. Len(t) : t[k] = task[w].todo[k + d],
           Goto(w, t), RefsStable, now' = now
    PROVE  task' \in [Workers -> Task] /\ TasksAgree'
<1>0. PICK m \in Maps, i \in 0 .. MaxReferrals : m = task[w].map /\ i = task[w].ref
    BY TaskType DEF Inv
<1> DEFINE new == IF t = <<>> THEN Idle(m) ELSE [task[w] EXCEPT !.todo = t]
<1>1. task[w] \in Task /\ Idle(m) \in Task
    BY ReferralAssumption DEF Inv, TypeOK, Task, Idle, MapStatus
<1>2. /\ new \in Task
      /\ t = <<>> => new.todo = <<>>
      /\ t # <<>> => (new.todo = t /\ new.ref = i /\ new.map = m)
    BY <1>0, <1>1 DEF Task, Idle
<1>3. task' = [task EXCEPT ![w] = new]
    BY <1>0 DEF Goto
<1> HIDE DEF new
<1>4. /\ task' \in [Workers -> Task]
      /\ task'[w] = new
      /\ \A v \in Workers : v # w => task'[v] = task[v]
    BY <1>2, <1>3 DEF Inv, TypeOK
<1>5. ASSUME NEW v \in Workers
      PROVE  TodoAgrees(task[v].todo, task[v].map, task[v].ref)'
  <2>0. TodoAgrees(task[v].todo, task[v].map, task[v].ref)
      BY DEF Inv, TasksAgree
  <2>1. CASE v # w
    <3>1. PICK vt \in Seq(Statements), vm \in Maps, vi \in 0 .. MaxReferrals :
              vt = task[v].todo /\ vm = task[v].map /\ vi = task[v].ref
        BY TaskType DEF Inv
    <3>2. TodoAgrees(vt, vm, vi)'
        BY <2>0, <3>1, TodoStable DEF Inv
    <3> QED
        BY <1>4, <2>1, <3>1, <3>2
  <2>2. CASE v = w /\ t = <<>>
      BY <1>2, <1>4, <2>2 DEF TodoAgrees
  <2>3. CASE v = w /\ t # <<>>
    <3>1. \A k \in 1 .. Len(t) :
              k + d \in 1 .. Len(task[w].todo) /\ t[k] = task[w].todo[k + d] /\ k + d # 1
        BY TaskType DEF Inv
    <3>2. TodoAgrees(t, m, i)
        BY <1>0, <2>0, <2>3, <3>1 DEF TodoAgrees
    <3>3. TodoAgrees(t, m, i)'
        BY <3>2, TodoStable DEF Inv
    <3> QED
        BY <1>2, <1>4, <2>3, <3>3
  <2> QED
      BY <2>1, <2>2, <2>3
<1> QED
    BY <1>4, <1>5 DEF TasksAgree

LEMMA ContinueTasks ==
    ASSUME Inv, NEW w \in Workers, task[w].todo # <<>>, Continue(w), RefsStable, now' = now
    PROVE  task' \in [Workers -> Task] /\ TasksAgree'
<1> DEFINE t == Tail(task[w].todo)
<1>1. task[w].todo \in Seq(Statements)
    BY TaskType DEF Inv
<1>2. /\ t \in Seq(Statements)
      /\ Len(t) + 1 = Len(task[w].todo)
      /\ \A k \in 1 .. Len(t) : t[k] = task[w].todo[k + 1]
    BY <1>1
<1>3. Goto(w, t)
    BY DEF Continue
<1> HIDE DEF t
<1> QED
    BY <1>2, <1>3, GotoTasks

LEMMA NothingWritten ==
    ASSUME UNCHANGED refs
    PROVE  RefsStable
BY DEF RefsStable

\* A write to the target of a task that leaves a row fit for its columns.
LEMMA RowWrite ==
    ASSUME Inv, NEW w \in Workers, NEW row, SetRef(w, row), UNCHANGED <<nrefs, now>>,
           task[w].ref # 0 =>
               /\ row \in Referral
               /\ RowAgrees(row)
               /\ row.status = "None" \/ Target(w).status # "None"
               /\ Target(w).sentAt # Never => row.sentAt = Target(w).sentAt
    PROVE  /\ refs' \in [Maps -> [Ids -> Referral]]
           /\ RowsAgree' /\ NewRows' /\ RefsStable
<1>0. PICK m \in Maps, i \in 0 .. MaxReferrals : m = task[w].map /\ i = task[w].ref
    BY TaskType DEF Inv
<1>1. refs' = [refs EXCEPT ![m] = [refs[m] EXCEPT ![i] = row]]
    BY <1>0 DEF SetRef
<1>2. refs \in [Maps -> [Ids -> Referral]]
    BY DEF Inv, TypeOK
<1>3. CASE i = 0
  <2>1. i \notin Ids
      BY <1>3 DEF Ids
  <2>2. [refs[m] EXCEPT ![i] = row] = refs[m]
      BY <1>2, <2>1
  <2>3. refs' = refs
      BY <1>1, <1>2, <2>2
  <2> QED
      BY <2>3 DEF Inv, TypeOK, RowsAgree, RowAgrees, NewRows, RefsStable
<1>4. CASE i # 0
  <2>1. i \in Ids /\ Target(w) = refs[m][i]
      BY <1>0, <1>4, ReferralAssumption DEF Ids, Target
  <2>2. /\ refs' \in [Maps -> [Ids -> Referral]]
        /\ refs'[m][i] = row
        /\ \A n \in Maps, j \in Ids : (n # m \/ j # i) => refs'[n][j] = refs[n][j]
      BY <1>0, <1>1, <1>2, <1>4, <2>1
  <2>3. RowsAgree'
    <3> SUFFICES ASSUME NEW n \in Maps, NEW j \in Ids PROVE RowAgrees(refs[n][j])'
        BY DEF RowsAgree
    <3> QED
        BY <1>0, <1>4, <2>2 DEF Inv, RowsAgree, RowAgrees
  <2>4. NewRows'
    <3> SUFFICES ASSUME NEW n \in Maps, NEW j \in Ids, j > nrefs[n] PROVE refs'[n][j].status = "None"
        BY DEF NewRows
    <3> QED
        BY <1>0, <1>4, <2>1, <2>2 DEF Inv, NewRows
  <2>5. RefsStable
    <3> SUFFICES ASSUME NEW n \in Maps, NEW j \in Ids, Sent(n, j)
                 PROVE  refs'[n][j].sentAt = refs[n][j].sentAt
        BY DEF RefsStable
    <3> QED
        BY <1>0, <1>4, <2>1, <2>2 DEF Sent
  <2> QED
      BY <2>2, <2>3, <2>4, <2>5
<1> QED
    BY <1>3, <1>4

\* A statement keeps Inv when its row writes and its list do.
LEMMA StatementInv ==
    ASSUME Inv, UNCHANGED <<now, stale, crashes>>,
           RefsStable, RowsAgree', NewRows', TasksAgree',
           task' \in [Workers -> Task],
           refs' \in [Maps -> [Ids -> Referral]],
           nrefs' \in [Maps -> 0 .. MaxReferrals],
           rounds' \in [Maps -> Nat],
           mapStatus' \in [Maps -> MapStatus],
           trail' \in [Maps -> MapStatus \ Marks],
           review' \in [Maps -> ReviewStatus]
    PROVE  Inv'
BY StaleStable DEF Inv, TypeOK

\* The row a task points at, when it points at one.
LEMMA TargetAgrees ==
    ASSUME Inv, NEW w \in Workers, task[w].ref # 0
    PROVE  /\ Target(w) \in Referral /\ RowAgrees(Target(w))
           /\ Sent(task[w].map, task[w].ref) <=> Target(w).sentAt # Never
           /\ Due(task[w].map, task[w].ref) <=> Target(w).sentAt + Window < now
<1>1. task[w].map \in Maps /\ task[w].ref \in Ids
    BY TaskType, ReferralAssumption DEF Inv, Ids
<1> QED
    BY <1>1 DEF Inv, TypeOK, RowsAgree, Target, Sent, Due

-----------------------------------------------------------------------------
LEMMA MoveToType ==
    ASSUME TypeOK, NEW m \in Maps, NEW s \in MapStatus, MoveTo(m, s)
    PROVE  mapStatus' \in [Maps -> MapStatus] /\ trail' \in [Maps -> MapStatus \ Marks]
BY DEF MoveTo, TypeOK

\* Statements that write no referral.
LEMMA PlainStatement ==
    ASSUME Inv, NEW w \in Workers,
           Transition(w) \/ WriteReview(w) \/ OpenRound(w) \/ Restore(w)
    PROVE  Inv'
<1>1. UNCHANGED <<refs, nrefs, now, stale, crashes>> /\ task[w].todo # <<>> /\ Continue(w)
    BY DEF Transition, WriteReview, OpenRound, Restore, At
<1>2. RefsStable
    BY <1>1, NothingWritten
<1>3. task' \in [Workers -> Task] /\ TasksAgree'
    BY <1>1, <1>2, ContinueTasks
<1>4. RowsAgree' /\ NewRows'
    BY <1>1 DEF Inv, RowsAgree, RowAgrees, NewRows
<1>5. task[w].map \in Maps /\ task[w].to \in MapStatus
    BY TaskType DEF Inv
<1>6. /\ mapStatus' \in [Maps -> MapStatus]
      /\ trail' \in [Maps -> MapStatus \ Marks]
      /\ review' \in [Maps -> ReviewStatus]
      /\ rounds' \in [Maps -> Nat]
  <2>1. CASE Transition(w) \/ Restore(w)
    <3>1. PICK s \in MapStatus : MoveTo(task[w].map, s)
        BY <1>5, <2>1 DEF Transition, Restore
    <3> QED
        BY <1>5, <2>1, <3>1, MoveToType DEF Transition, Restore, Inv, TypeOK
  <2>2. CASE WriteReview(w)
    <3>1. PICK s \in ReviewStatus : review' = [review EXCEPT ![task[w].map] = s]
        BY <2>2 DEF WriteReview
    <3> QED
        BY <1>5, <2>2, <3>1 DEF WriteReview, Inv, TypeOK
  <2>3. CASE OpenRound(w)
      BY <1>5, <2>3 DEF OpenRound, Inv, TypeOK
  <2> QED
      BY <2>1, <2>2, <2>3
<1> QED
    BY <1>1, <1>2, <1>3, <1>4, <1>6, StatementInv DEF Inv, TypeOK

\* A statement that rewrites the target row and goes on.
LEMMA RowStatement ==
    ASSUME Inv, NEW w \in Workers, NEW row, SetRef(w, row), task[w].todo # <<>>, Continue(w),
           UNCHANGED <<mapStatus, trail, review, nrefs, rounds, now, stale, crashes>>,
           task[w].ref # 0 =>
               /\ row \in Referral
               /\ RowAgrees(row)
               /\ row.status = "None" \/ Target(w).status # "None"
               /\ Target(w).sentAt # Never => row.sentAt = Target(w).sentAt
    PROVE  Inv'
<1>1. /\ refs' \in [Maps -> [Ids -> Referral]]
      /\ RowsAgree' /\ NewRows' /\ RefsStable
    BY RowWrite
<1>2. task' \in [Workers -> Task] /\ TasksAgree'
    BY <1>1, ContinueTasks
<1> QED
    BY <1>1, <1>2, StatementInv DEF Inv, TypeOK

LEMMA SupersedeKeepsInv ==
    ASSUME Inv, NEW w \in Workers, Supersede(w)
    PROVE  Inv'
<1> DEFINE row == [Target(w) EXCEPT !.reReferred = TRUE]
<1>1. task[w].ref # 0 => (row \in Referral /\ RowAgrees(row) /\ row.sentAt = Target(w).sentAt
                              /\ row.status = Target(w).status)
    BY TargetAgrees DEF Referral, RowAgrees
<1>2. SetRef(w, row) /\ task[w].todo # <<>> /\ Continue(w)
    BY DEF Supersede, At
<1> HIDE DEF row
<1> QED
    BY <1>1, <1>2, RowStatement DEF Supersede

\* Claims: the row is written when it is still what the handler expects.
LEMMA ClaimKeepsInv ==
    ASSUME Inv, NEW w \in Workers, NEW matched \in BOOLEAN, NEW row, Claim(w, matched, row),
           task[w].todo # <<>>,
           (matched /\ task[w].ref # 0) =>
               /\ row \in Referral
               /\ RowAgrees(row)
               /\ row.status = "None" \/ Target(w).status # "None"
               /\ Target(w).sentAt # Never => row.sentAt = Target(w).sentAt
    PROVE  Inv'
<1>1. CASE matched
    BY <1>1, RowStatement DEF Claim
<1>2. CASE ~matched
  <2>1. Goto(w, <<>>) /\ UNCHANGED <<refs, nrefs, now, stale, crashes, mapStatus, trail, review, rounds>>
      BY <1>2 DEF Claim
  <2>2. RefsStable
      BY <2>1, NothingWritten
  <2>3. /\ <<>> \in Seq(Statements)
        /\ Len(task[w].todo) \in Nat \ {0}
        /\ Len(<<>>) + Len(task[w].todo) = Len(task[w].todo)
        /\ \A k \in 1 .. Len(<<>>) : <<>>[k] = task[w].todo[k + Len(task[w].todo)]
      BY TaskType DEF Inv
  <2>4. task' \in [Workers -> Task] /\ TasksAgree'
      BY <2>1, <2>2, <2>3, GotoTasks
  <2>5. RowsAgree' /\ NewRows'
      BY <2>1 DEF Inv, RowsAgree, RowAgrees, NewRows
  <2> QED
      BY <2>1, <2>2, <2>4, <2>5, StatementInv DEF Inv, TypeOK
<1> QED
    BY <1>1, <1>2

LEMMA ClaimForwardKeepsInv ==
    ASSUME Inv, NEW w \in Workers, ClaimForward(w)
    PROVE  Inv'
<1> DEFINE matched == Target(w).status = "Referred"
           row == [Target(w) EXCEPT !.status = "SentToCompany", !.sentAt = now, !.expiresAt = now + Window]
<1>1. now \in Nat /\ now \in Times /\ now + Window \in Times /\ now # Never
    BY ReferralAssumption DEF Inv, TypeOK, Times, Never
<1>2. (matched /\ task[w].ref # 0) =>
          (row \in Referral /\ RowAgrees(row) /\ Target(w).sentAt = Never /\ Target(w).status # "None")
  <2> SUFFICES ASSUME matched, task[w].ref # 0
               PROVE  row \in Referral /\ RowAgrees(row) /\ Target(w).sentAt = Never
                          /\ Target(w).status # "None"
      OBVIOUS
  <2>1. Target(w) \in Referral /\ Target(w).sentAt = Never /\ ~Target(w).returnedByQ3
            /\ Target(w).status # "None"
      BY TargetAgrees DEF RowAgrees
  <2>2. row \in Referral
      BY <1>1, <2>1 DEF Referral, RefStatus
  <2>3. /\ row.status = "SentToCompany" /\ row.sentAt = now /\ row.expiresAt = now + Window
        /\ ~row.returnedByQ3
      BY <2>1 DEF Referral
  <2> HIDE DEF row
  <2>4. RowAgrees(row)
      BY <1>1, <2>3 DEF RowAgrees
  <2> QED
      BY <2>1, <2>2, <2>4
<1>3. Claim(w, matched, row) /\ task[w].todo # <<>> /\ matched \in BOOLEAN
    BY DEF ClaimForward, At
<1> HIDE DEF row, matched
<1> QED
    BY <1>2, <1>3, ClaimKeepsInv

LEMMA ClaimReturnKeepsInv ==
    ASSUME Inv, NEW w \in Workers, ClaimReturn(w)
    PROVE  Inv'
<1> DEFINE matched == Target(w).status = "Referred"
           row == [Target(w) EXCEPT !.status = "Returned", !.returnedByQ3 = TRUE]
<1>1. (matched /\ task[w].ref # 0) =>
          (row \in Referral /\ RowAgrees(row) /\ row.sentAt = Target(w).sentAt /\ Target(w).status # "None")
    BY TargetAgrees DEF Referral, RowAgrees, RefStatus
<1>2. Claim(w, matched, row) /\ task[w].todo # <<>> /\ matched \in BOOLEAN
    BY DEF ClaimReturn, At
<1> HIDE DEF row, matched
<1> QED
    BY <1>1, <1>2, ClaimKeepsInv

\* The expiry's claim: its target was due when the job found it, and still is.
LEMMA ClaimExpireKeepsInv ==
    ASSUME Inv, NEW w \in Workers, ClaimExpire(w)
    PROVE  Inv'
<1> DEFINE matched == Unanswered(Target(w))
           row == [Target(w) EXCEPT !.status = "Expired"]
<1>1. 1 \in 1 .. Len(task[w].todo) /\ task[w].todo[1] = "claimExpire"
    BY TaskType DEF Inv, ClaimExpire, At
<1>2. task[w].ref # 0 /\ Due(task[w].map, task[w].ref)
    BY <1>1 DEF Inv, TasksAgree, TodoAgrees
<1>3. matched =>
          (row \in Referral /\ RowAgrees(row) /\ row.sentAt = Target(w).sentAt /\ Target(w).status # "None")
    BY <1>2, TargetAgrees DEF Referral, RowAgrees, RefStatus, Unanswered
<1>4. Claim(w, matched, row) /\ task[w].todo # <<>> /\ matched \in BOOLEAN
    BY DEF ClaimExpire, At, Unanswered
<1> HIDE DEF row, matched
<1> QED
    BY <1>3, <1>4, ClaimKeepsInv

\* The answers and the reopening: updates by key of a row known to have been sent.
LEMMA AnswerKeepsInv ==
    ASSUME Inv, NEW w \in Workers, NEW s \in Answering, NEW row, Overwrite(w, s, row),
           (task[w].ref # 0 /\ Target(w).sentAt # Never) =>
               /\ row \in Referral
               /\ RowAgrees(row)
               /\ row.sentAt = Target(w).sentAt
    PROVE  Inv'
<1>1. 1 \in 1 .. Len(task[w].todo) /\ task[w].todo[1] = s /\ task[w].todo # <<>>
    BY TaskType DEF Inv, Overwrite, At
<1>2. task[w].ref # 0 => Target(w).sentAt # Never
    BY <1>1, TargetAgrees DEF Inv, TasksAgree, TodoAgrees
<1>3. task[w].ref # 0 => Target(w).status # "None"
    BY <1>2, TargetAgrees DEF RowAgrees
<1> QED
    BY <1>1, <1>2, <1>3, RowStatement DEF Overwrite

LEMMA AnswersKeepInv ==
    ASSUME Inv, NEW w \in Workers, Select(w) \/ AnswerSelected(w) \/ Reject(w) \/ Reopen(w)
    PROVE  Inv'
<1>1. Never \in Times
    BY NeverType
<1>2. ASSUME Select(w) PROVE Inv'
  <2> DEFINE row == [Target(w) EXCEPT !.answer = "Selected", !.status = "SentToCompany", !.expiresAt = Never]
  <2>1. (task[w].ref # 0 /\ Target(w).sentAt # Never) =>
            (row \in Referral /\ RowAgrees(row) /\ row.sentAt = Target(w).sentAt)
      BY <1>1, TargetAgrees DEF Referral, RowAgrees, RefStatus
  <2>2. Overwrite(w, "select", row) /\ "select" \in Answering
      BY <1>2 DEF Select, Answering
  <2> HIDE DEF row
  <2> QED
      BY <2>1, <2>2, AnswerKeepsInv
<1>3. ASSUME AnswerSelected(w) PROVE Inv'
  <2> DEFINE row == [Target(w) EXCEPT !.answer = "Selected", !.expiresAt = Never]
  <2>1. (task[w].ref # 0 /\ Target(w).sentAt # Never) =>
            (row \in Referral /\ RowAgrees(row) /\ row.sentAt = Target(w).sentAt)
      BY <1>1, TargetAgrees DEF Referral, RowAgrees, RefStatus
  <2>2. Overwrite(w, "answer", row) /\ "answer" \in Answering
      BY <1>3 DEF AnswerSelected, Answering
  <2> HIDE DEF row
  <2> QED
      BY <2>1, <2>2, AnswerKeepsInv
<1>4. ASSUME Reject(w) PROVE Inv'
  <2> DEFINE row == [Target(w) EXCEPT !.answer = "Rejected", !.status = "Returned", !.expiresAt = Never]
  <2>1. (task[w].ref # 0 /\ Target(w).sentAt # Never) =>
            (row \in Referral /\ RowAgrees(row) /\ row.sentAt = Target(w).sentAt)
      BY <1>1, TargetAgrees DEF Referral, RowAgrees, RefStatus
  <2>2. Overwrite(w, "reject", row) /\ "reject" \in Answering
      BY <1>4 DEF Reject, Answering
  <2> HIDE DEF row
  <2> QED
      BY <2>1, <2>2, AnswerKeepsInv
<1>5. ASSUME Reopen(w) PROVE Inv'
  <2> DEFINE row == [Target(w) EXCEPT !.status = "SentToCompany", !.answer = "Pending",
                         !.expiresAt = IF Target(w).sentAt = Never THEN now + Window
                                                                   ELSE Target(w).sentAt + Window]
  <2>1. ASSUME task[w].ref # 0, Target(w).sentAt # Never
        PROVE  row \in Referral /\ RowAgrees(row) /\ row.sentAt = Target(w).sentAt
    <3>1. Target(w).sentAt \in Nat /\ now \in Nat /\ now <= MaxNow /\ Target(w).sentAt <= now
        BY <2>1, TargetAgrees, ReferralAssumption, NeverType DEF RowAgrees, Referral, Times, Inv, TypeOK
    <3>2. Target(w).sentAt + Window \in Times
        BY <3>1, ReferralAssumption DEF Times, Never
    <3> QED
        BY <2>1, <3>1, <3>2, TargetAgrees DEF Referral, RowAgrees, RefStatus
  <2>2. Overwrite(w, "reopen", row) /\ "reopen" \in Answering
      BY <1>5 DEF Reopen, Answering
  <2> HIDE DEF row
  <2> QED
      BY <2>1, <2>2, AnswerKeepsInv
<1> QED
    BY <1>2, <1>3, <1>4, <1>5

LEMMA StampedType ==
    ASSUME NEW row \in Referral
    PROVE  Stamped(row) \in Referral
BY DEF Stamped, Referral

\* Every row of the application that is out and unstamped is stamped.
LEMMA MarkShortlistedKeepsInv ==
    ASSUME Inv, NEW w \in Workers, MarkShortlisted(w)
    PROVE  Inv'
<1> PICK m \in Maps : m = task[w].map
    BY TaskType DEF Inv
<1>1. /\ refs' \in [Maps -> [Ids -> Referral]]
      /\ \A i \in Ids : refs'[m][i] = Stamped(refs[m][i])
      /\ \A n \in Maps, i \in Ids : n # m => refs'[n][i] = refs[n][i]
  <2> DEFINE rows == [i \in Ids |-> Stamped(refs[m][i])]
  <2>1. refs' = [refs EXCEPT ![m] = rows]
      BY DEF MarkShortlisted
  <2>2. refs \in [Maps -> [Ids -> Referral]]
      BY DEF Inv, TypeOK
  <2>3. rows \in [Ids -> Referral]
      BY <2>2, StampedType
  <2> QED
      BY <2>1, <2>2, <2>3
<1>2. ASSUME NEW n \in Maps, NEW i \in Ids
      PROVE  /\ refs'[n][i].status = refs[n][i].status
             /\ refs'[n][i].sentAt = refs[n][i].sentAt
             /\ RowAgrees(refs[n][i])'
  <2>1. refs[n][i] \in Referral /\ RowAgrees(refs[n][i]) /\ now' = now
      BY DEF Inv, TypeOK, RowsAgree, MarkShortlisted
  <2>2. CASE n = m
    <3>1. refs'[n][i] = Stamped(refs[n][i])
        BY <1>1, <2>2
    <3>2. /\ Stamped(refs[n][i]).status = refs[n][i].status
          /\ Stamped(refs[n][i]).sentAt = refs[n][i].sentAt
          /\ RowAgrees(Stamped(refs[n][i]))
        BY <2>1 DEF Stamped, RowAgrees, Referral
    <3> QED
        BY <2>1, <3>1, <3>2 DEF RowAgrees
  <2>3. CASE n # m
      BY <1>1, <2>1, <2>3 DEF RowAgrees
  <2> QED
      BY <2>2, <2>3
<1>3. RowsAgree' /\ RefsStable
    BY <1>2 DEF RowsAgree, RefsStable
<1>4. NewRows'
    BY <1>2 DEF NewRows, Inv, MarkShortlisted
<1>5. task' \in [Workers -> Task] /\ TasksAgree'
    BY <1>3, ContinueTasks DEF MarkShortlisted, At
<1> QED
    BY <1>1, <1>3, <1>4, <1>5, StatementInv DEF MarkShortlisted, Inv, TypeOK

\* The insert of a referral fills the next free row.
LEMMA CreateKeepsInv ==
    ASSUME Inv, NEW w \in Workers, CreateReferral(w)
    PROVE  Inv'
<1> PICK m \in Maps : m = task[w].map
    BY TaskType DEF Inv
<1> DEFINE next == nrefs[m] + 1
           row == [NoReferral EXCEPT !.status = "Referred"]
<1>1. next \in Ids /\ nrefs[m] \in 0 .. MaxReferrals /\ next \in 0 .. MaxReferrals
    BY ReferralAssumption DEF Inv, TypeOK, CreateReferral, Ids
<1>2. /\ row \in Referral
      /\ row.status = "Referred" /\ row.answer = "Pending" /\ row.sentAt = Never /\ ~row.returnedByQ3
    BY NoReferralType DEF Referral, RefStatus, NoReferral
<1>3. /\ refs' = [refs EXCEPT ![m] = [refs[m] EXCEPT ![next] = row]]
      /\ nrefs' = [nrefs EXCEPT ![m] = next]
      /\ now' = now
    BY DEF CreateReferral
<1> HIDE DEF row
<1>4. /\ refs' \in [Maps -> [Ids -> Referral]]
      /\ refs'[m][next] = row
      /\ \A n \in Maps, i \in Ids : (n # m \/ i # next) => refs'[n][i] = refs[n][i]
    BY <1>1, <1>2, <1>3 DEF Inv, TypeOK
<1>5. /\ nrefs' \in [Maps -> 0 .. MaxReferrals]
      /\ \A n \in Maps : nrefs'[n] = IF n = m THEN next ELSE nrefs[n]
    BY <1>1, <1>3 DEF Inv, TypeOK
<1>6. RowsAgree'
  <2> SUFFICES ASSUME NEW n \in Maps, NEW i \in Ids PROVE RowAgrees(refs[n][i])'
      BY DEF RowsAgree
  <2>1. CASE n = m /\ i = next
      BY <1>2, <1>3, <1>4, <2>1 DEF RowAgrees
  <2>2. CASE n # m \/ i # next
      BY <1>3, <1>4, <2>2 DEF Inv, RowsAgree, RowAgrees
  <2> QED
      BY <2>1, <2>2
<1>7. NewRows'
  <2> SUFFICES ASSUME NEW n \in Maps, NEW i \in Ids, i > nrefs'[n] PROVE refs'[n][i].status = "None"
      BY DEF NewRows
  <2>1. i \in Nat /\ nrefs[n] \in Nat /\ i > nrefs[n] /\ (n # m \/ i # next)
      BY <1>1, <1>5 DEF Ids, Inv, TypeOK
  <2> QED
      BY <1>4, <2>1 DEF Inv, NewRows
<1>8. RefsStable
  <2> SUFFICES ASSUME NEW n \in Maps, NEW i \in Ids, Sent(n, i)
               PROVE  refs'[n][i].sentAt = refs[n][i].sentAt
      BY DEF RefsStable
  <2>1. n # m \/ i # next
    <3>1. refs[m][next].status = "None"
        BY <1>1 DEF Inv, NewRows
    <3>2. refs[m][next].sentAt = Never
        BY <1>1, <3>1 DEF Inv, RowsAgree, RowAgrees
    <3> QED
        BY <3>2 DEF Sent
  <2> QED
      BY <1>4, <2>1
<1>9. task' \in [Workers -> Task] /\ TasksAgree'
    BY <1>8, ContinueTasks DEF CreateReferral, At
<1> QED
    BY <1>4, <1>5, <1>6, <1>7, <1>8, <1>9, StatementInv DEF CreateReferral, Inv, TypeOK

\* A step that replaces the task of one worker and touches no row.
LEMMA TaskStep ==
    ASSUME Inv, NEW w \in Workers, NEW new \in Task, task' = [task EXCEPT ![w] = new],
           TodoAgrees(new.todo, new.map, new.ref),
           UNCHANGED <<mapStatus, trail, review, refs, nrefs, rounds, now, crashes>>,
           stale' \subseteq stale
    PROVE  Inv'
<1>1. /\ task' \in [Workers -> Task]
      /\ task'[w] = new
      /\ \A v \in Workers : v # w => task'[v] = task[v]
    BY DEF Inv, TypeOK
<1>2. TasksAgree'
  <2> SUFFICES ASSUME NEW v \in Workers PROVE TodoAgrees(task[v].todo, task[v].map, task[v].ref)'
      BY DEF TasksAgree
  <2> QED
      BY <1>1 DEF Inv, TasksAgree, TodoAgrees, Sent, Due
<1>3. TypeOK' /\ StaleAgrees'
    BY <1>1 DEF Inv, TypeOK, StaleAgrees, Due
<1> QED
    BY <1>2, <1>3 DEF Inv, RowsAgree, RowAgrees, NewRows

LEMMA ReadHistoryKeepsInv ==
    ASSUME Inv, NEW w \in Workers, ReadHistory(w)
    PROVE  Inv'
<1> PICK m \in Maps, i \in 0 .. MaxReferrals : m = task[w].map /\ i = task[w].ref
    BY TaskType DEF Inv
<1> DEFINE todo == IF trail[m] = "SENT_TO_COMPANY" /\ i # 0 THEN <<"restore", "reopen">> ELSE <<"restore">>
           new == [task[w] EXCEPT !.to = trail[m], !.todo = todo]
<1>1. 1 \in 1 .. Len(task[w].todo) /\ task[w].todo[1] = "history"
    BY TaskType DEF Inv, ReadHistory, At
<1>2. i = 0 \/ Sent(m, i)
    BY <1>1 DEF Inv, TasksAgree, TodoAgrees, Answering
<1>3. todo \in Seq(Statements) /\ TodoAgrees(todo, m, i)
  <2>1. <<"restore", "reopen">> \in Seq(Statements) /\ <<"restore">> \in Seq(Statements)
      BY DEF Statements
  <2>2. TodoAgrees(<<"restore">>, m, i)
      BY DEF TodoAgrees, Answering
  <2>3. TodoAgrees(<<"restore", "reopen">>, m, i)
      BY <1>2, AnsweringTodo
  <2> QED
      BY <2>1, <2>2, <2>3
<1>4. task[w] \in Task /\ trail[m] \in MapStatus
    BY DEF Inv, TypeOK
<1>5. task' = [task EXCEPT ![w] = new]
    BY <1>4 DEF ReadHistory, Inv, TypeOK, Task
<1> HIDE DEF todo
<1>6. new \in Task /\ new.todo = todo /\ new.map = m /\ new.ref = i
    BY <1>3, <1>4 DEF Task
<1> HIDE DEF new
<1> QED
    BY <1>3, <1>5, <1>6, TaskStep DEF ReadHistory

LEMMA TailFacts ==
    ASSUME NEW s \in Seq(Statements), Len(s) >= 1
    PROVE  /\ Tail(s) \in Seq(Statements)
           /\ Len(Tail(s)) + 1 = Len(s)
           /\ \A k \in 1 .. Len(Tail(s)) : Tail(s)[k] = s[k + 1] /\ k + 1 \in 1 .. Len(s)
OBVIOUS

\* A search drops the inserts behind it, or starts them on the newest referral.
LEMMA FindLatestKeepsInv ==
    ASSUME Inv, NEW w \in Workers, FindLatest(w)
    PROVE  Inv'
<1> PICK m \in Maps : m = task[w].map
    BY TaskType DEF Inv
<1> DEFINE todo == task[w].todo
           rest == Tail(todo)
           t2 == Tail(rest)
<1>0. todo \in Seq(Statements) /\ Len(todo) \in Nat /\ 1 \in 1 .. Len(todo) /\ todo[1] = "find"
    BY TaskType DEF Inv, FindLatest, At
<1>1. /\ Len(todo) >= 4
      /\ \A k \in 1 .. Len(todo) : /\ todo[k] = "find" => k = 1
                                   /\ todo[k] \notin Answering \union {"claimExpire"}
    BY <1>0 DEF Inv, TasksAgree, TodoAgrees
<1> HIDE DEF todo
<1>2. /\ rest \in Seq(Statements) /\ Len(rest) + 1 = Len(todo)
      /\ \A k \in 1 .. Len(rest) : rest[k] = todo[k + 1]
    BY <1>0, <1>1, TailFacts
<1> HIDE DEF rest
<1>3. /\ t2 \in Seq(Statements) /\ Len(t2) + 2 = Len(todo)
      /\ \A k \in 1 .. Len(t2) : t2[k] = todo[k + 2]
  <2>1. /\ t2 \in Seq(Statements) /\ Len(t2) + 1 = Len(rest)
        /\ \A k \in 1 .. Len(t2) : t2[k] = rest[k + 1] /\ k + 1 \in 1 .. Len(rest)
      BY <1>0, <1>1, <1>2, TailFacts
  <2> QED
      BY <1>0, <1>2, <2>1
<1> HIDE DEF t2
<1> DEFINE t3 == Tail(t2)
<1>4. /\ t3 \in Seq(Statements) /\ Len(t3) + 3 = Len(todo)
      /\ \A k \in 1 .. Len(t3) : t3[k] = todo[k + 3]
  <2>1. /\ t3 \in Seq(Statements) /\ Len(t3) + 1 = Len(t2)
        /\ \A k \in 1 .. Len(t3) : t3[k] = t2[k + 1] /\ k + 1 \in 1 .. Len(t2)
      BY <1>0, <1>1, <1>3, TailFacts
  <2> QED
      BY <1>0, <1>3, <2>1
<1> HIDE DEF t3
<1> DEFINE t4 == Tail(t3)
<1>4a. /\ t4 \in Seq(Statements) /\ Len(t4) + 4 = Len(todo)
      /\ \A k \in 1 .. Len(t4) : t4[k] = todo[k + 4]
  <2>1. /\ t4 \in Seq(Statements) /\ Len(t4) + 1 = Len(t3)
        /\ \A k \in 1 .. Len(t4) : t4[k] = t3[k + 1] /\ k + 1 \in 1 .. Len(t3)
      BY <1>0, <1>1, <1>4, TailFacts
  <2> QED
      BY <1>0, <1>4, <2>1
<1> HIDE DEF t4
<1>5. UNCHANGED <<mapStatus, trail, review, refs, nrefs, rounds, now, stale, crashes>>
    BY DEF FindLatest
<1>6. RefsStable /\ RowsAgree' /\ NewRows'
    BY <1>5, NothingWritten DEF Inv, RowsAgree, RowAgrees, NewRows
<1>7. CASE Goto(w, t2) \/ Goto(w, t4)
  <2> USE DEF todo
  <2>1. CASE Goto(w, t2)
    <3>a. 2 \in Nat \ {0} /\ now' = now
        BY <1>5
    <3>b. /\ t2 \in Seq(Statements) /\ Len(t2) + 2 = Len(task[w].todo)
          /\ \A k \in 1 .. Len(t2) : t2[k] = task[w].todo[k + 2]
        BY <1>3
    <3>1. task' \in [Workers -> Task] /\ TasksAgree'
        BY <1>6, <2>1, <3>a, <3>b, GotoTasks
    <3> QED
        BY <1>5, <1>6, <3>1, StatementInv DEF Inv, TypeOK
  <2>2. CASE Goto(w, t4)
    <3>a. 4 \in Nat \ {0} /\ now' = now
        BY <1>5
    <3>b. /\ t4 \in Seq(Statements) /\ Len(t4) + 4 = Len(task[w].todo)
          /\ \A k \in 1 .. Len(t4) : t4[k] = task[w].todo[k + 4]
        BY <1>4a
    <3>1. task' \in [Workers -> Task] /\ TasksAgree'
        BY <1>6, <2>2, <3>a, <3>b, GotoTasks
    <3> QED
        BY <1>5, <1>6, <3>1, StatementInv DEF Inv, TypeOK
  <2> QED
      BY <1>7, <2>1, <2>2
<1>8. CASE task' = [task EXCEPT ![w].ref = nrefs[m], ![w].todo = rest]
  <2> DEFINE new == [task[w] EXCEPT !.ref = nrefs[m], !.todo = rest]
  <2>1. task[w] \in Task /\ nrefs[m] \in 0 .. MaxReferrals
      BY DEF Inv, TypeOK
  <2>2. \A k \in 1 .. Len(rest) : rest[k] \notin Answering \union {"claimExpire", "find"}
      BY <1>0, <1>1, <1>2
  <2>3. task' = [task EXCEPT ![w] = new]
      BY <1>8, <2>1 DEF Inv, TypeOK, Task
  <2> HIDE DEF rest
  <2>4. new \in Task /\ new.todo = rest /\ new.map = m /\ new.ref = nrefs[m]
      BY <1>2, <2>1 DEF Task
  <2>5. TodoAgrees(rest, m, nrefs[m])
      BY <2>2, PlainTodo
  <2> HIDE DEF new
  <2> QED
      BY <1>5, <2>3, <2>4, <2>5, TaskStep
<1> QED
    BY <1>7, <1>8 DEF FindLatest, todo, rest, t2, t3, t4

LEMMA StepKeepsInv ==
    ASSUME Inv, NEW w \in Workers, Step(w)
    PROVE  Inv'
BY FindLatestKeepsInv, SupersedeKeepsInv, CreateKeepsInv, PlainStatement, ClaimForwardKeepsInv,
   ClaimReturnKeepsInv, ClaimExpireKeepsInv, AnswersKeepInv, MarkShortlistedKeepsInv,
   ReadHistoryKeepsInv DEF Step

-----------------------------------------------------------------------------
\* The job finds only rows whose window is over, and works through them.
LEMMA ExpiryKeepsInv ==
    ASSUME Inv, ScanStale \/ NextStale
    PROVE  Inv'
<1>1. CASE ScanStale
  <2>1. stale' \subseteq Maps \X Ids
      BY <1>1 DEF ScanStale, Expirable
  <2>2. StaleAgrees'
    <3> SUFFICES ASSUME NEW x \in stale' PROVE refs'[x[1]][x[2]].sentAt + Window < now'
        BY DEF StaleAgrees, Due
    <3>1. x[1] \in Maps /\ x[2] \in Ids /\ Unanswered(refs[x[1]][x[2]]) /\ refs[x[1]][x[2]].expiresAt < now
        BY <1>1 DEF ScanStale, Expirable
    <3>2. refs[x[1]][x[2]].expiresAt = refs[x[1]][x[2]].sentAt + Window
        BY <3>1 DEF Inv, RowsAgree, RowAgrees, Unanswered
    <3> QED
        BY <1>1, <3>1, <3>2 DEF ScanStale
  <2> QED
      BY <1>1, <2>1, <2>2
      DEF ScanStale, Inv, TypeOK, RowsAgree, RowAgrees, NewRows, TasksAgree, TodoAgrees, Sent, Due
<1>2. CASE NextStale
  <2> PICK x \in stale :
          /\ stale' = stale \ {x}
          /\ task' = [task EXCEPT ![Expiry] =
                         [map |-> x[1], ref |-> x[2], to |-> "MAPPED",
                          todo |-> <<"claimExpire", "CV_EXPIRED", "New">>]]
      BY <1>2 DEF NextStale
  <2> DEFINE todo == <<"claimExpire", "CV_EXPIRED", "New">>
             new == [map |-> x[1], ref |-> x[2], to |-> "MAPPED", todo |-> todo]
  <2>1. Expiry \in Workers
      BY DEF Workers
  <2>2. x[1] \in Maps /\ x[2] \in Ids /\ Due(x[1], x[2])
      BY DEF Inv, TypeOK, StaleAgrees
  <2>3. todo \in Seq(Statements)
      BY DEF Statements, MapStatus, ReviewStatus
  <2>4. x[2] \in 0 .. MaxReferrals /\ x[2] # 0
      BY <2>2, ReferralAssumption DEF Ids
  <2>5. TodoAgrees(todo, x[1], x[2])
      BY <2>2, <2>4 DEF TodoAgrees, Answering
  <2> HIDE DEF todo
  <2>6. new \in Task /\ new.todo = todo /\ new.map = x[1] /\ new.ref = x[2]
      BY <2>2, <2>3, <2>4 DEF Task, MapStatus
  <2>7. task' = [task EXCEPT ![Expiry] = new]
      BY DEF todo
  <2> HIDE DEF new
  <2> QED
      BY <1>2, <2>1, <2>5, <2>6, <2>7, TaskStep DEF NextStale
<1> QED
    BY <1>1, <1>2

LEMMA TickKeepsInv ==
    ASSUME Inv, Tick
    PROVE  Inv'
<1>1. now \in Nat /\ now' = now + 1 /\ now' \in 0 .. MaxNow
    BY ReferralAssumption DEF Inv, TypeOK, Tick
<1>2. \A m \in Maps, i \in Ids : refs[m][i].sentAt \in Nat
    BY NeverType DEF Inv, TypeOK, Referral, Times
<1>3. \A m \in Maps, i \in Ids : Due(m, i) => Due(m, i)'
    BY <1>1, <1>2, ReferralAssumption DEF Due, Tick
<1>4. RowsAgree'
    BY <1>1, <1>2, ReferralAssumption DEF Inv, RowsAgree, RowAgrees, Tick
<1>5. StaleAgrees'
    BY <1>3 DEF Inv, TypeOK, StaleAgrees, Tick
<1>6. TasksAgree'
  <2> SUFFICES ASSUME NEW w \in Workers PROVE TodoAgrees(task[w].todo, task[w].map, task[w].ref)'
      BY DEF TasksAgree
  <2>1. PICK todo \in Seq(Statements), m \in Maps, i \in 0 .. MaxReferrals :
            todo = task[w].todo /\ m = task[w].map /\ i = task[w].ref
      BY TaskType DEF Inv
  <2>2. i # 0 => i \in Ids
      BY ReferralAssumption DEF Ids
  <2>3. TodoAgrees(todo, m, i)'
      BY <1>3, <2>1, <2>2 DEF Inv, TasksAgree, TodoAgrees, Sent, Tick
  <2> QED
      BY <2>1, <2>3 DEF Tick
<1> QED
    BY <1>1, <1>4, <1>5, <1>6 DEF Inv, TypeOK, NewRows, Tick

LEMMA RestartKeepsInv ==
    ASSUME Inv, Restart
    PROVE  Inv'
<1>1. \A w \in Workers : Idle(task[w].map) \in Task
    BY TaskType, ReferralAssumption DEF Inv, Idle, Task, MapStatus
<1>2. task' \in [Workers -> Task] /\ \A w \in Workers : Len(task'[w].todo) = 0
    BY <1>1 DEF Restart, Idle
<1>3. TasksAgree' /\ StaleAgrees'
    BY <1>2 DEF Restart, TasksAgree, TodoAgrees, StaleAgrees
<1>4. TypeOK'
    BY <1>2, ReferralAssumption DEF Restart, Inv, TypeOK
<1> QED
    BY <1>3, <1>4 DEF Restart, Inv, RowsAgree, RowAgrees, NewRows

LEMMA InvInductive == Inv /\ [Next]_vars => Inv'
<1> SUFFICES ASSUME Inv, [Next]_vars PROVE Inv'
    OBVIOUS
<1>1. CASE UNCHANGED vars
    BY <1>1 DEF vars, Inv, TypeOK, RowsAgree, RowAgrees, NewRows, TasksAgree, TodoAgrees, Sent, Due,
           StaleAgrees
<1>2. CASE Next
    BY <1>2, StartKeepsInv, StepKeepsInv, ExpiryKeepsInv, TickKeepsInv, RestartKeepsInv DEF Next
<1> QED
    BY <1>1, <1>2

LEMMA InvAlways == Spec => []Inv
<1> QED
    BY InitInv, InvInductive, PTL DEF Spec

-----------------------------------------------------------------------------
\* Every state has well-typed rows, and no handler runs past the end of its statements.
THEOREM TypeCorrect == Spec => []TypeOK
<1>1. Inv => TypeOK
    BY DEF Inv
<1> QED
    BY <1>1, InvAlways, PTL

\* Forwarding to the company and returning to Q2 exclude each other, whatever number of
\* Q3 users decide at once: the conditional update is the only guard needed.
THEOREM Q3Exclusive == Spec => []Q3DecidesOnce
<1>1. Inv => Q3DecidesOnce
    BY DEF Inv, RowsAgree, RowAgrees, Q3DecidesOnce
<1> QED
    BY <1>1, InvAlways, PTL

\* A CV with the company and unanswered has a deadline, one window after it was sent,
\* also when an undo races the answer it takes back.
THEOREM ClockRuns == Spec => []ClockRunsWhileAwaiting
<1>1. Inv => ClockRunsWhileAwaiting
    BY DEF Inv, RowsAgree, RowAgrees, ClockRunsWhileAwaiting
<1> QED
    BY <1>1, InvAlways, PTL

\* The job never takes back a CV before its window is over, although its update does
\* not look at the deadline again after the scan.
THEOREM FullWindow == Spec => []ExpiredAfterFullWindow
<1>1. Inv => ExpiredAfterFullWindow
    BY DEF Inv, RowsAgree, RowAgrees, ExpiredAfterFullWindow
<1> QED
    BY <1>1, InvAlways, PTL

\* A write by key leaves every row alone but the target.
LEMMA OnlyTarget ==
    ASSUME Inv, NEW w \in Workers, NEW row, SetRef(w, row), NEW m \in Maps, NEW i \in Ids
    PROVE  \/ refs'[m][i] = refs[m][i]
           \/ refs'[m][i] = row /\ task[w].ref # 0 /\ refs[m][i] = Target(w) /\ Target(w) \in Referral
<1> PICK n \in Maps, j \in 0 .. MaxReferrals : n = task[w].map /\ j = task[w].ref
    BY TaskType DEF Inv
<1>1. refs' = [refs EXCEPT ![n] = [refs[n] EXCEPT ![j] = row]]
    BY DEF SetRef
<1>2. refs \in [Maps -> [Ids -> Referral]] /\ 0 \notin Ids
    BY DEF Inv, TypeOK, Ids
<1> QED
    BY <1>1, <1>2 DEF Target

LEMMA NotExpiredByWrite ==
    ASSUME Inv, NEW w \in Workers, NEW row, SetRef(w, row), NEW m \in Maps, NEW i \in Ids,
           Target(w) \in Referral => (row.status # "Expired" \/ row.status = Target(w).status),
           refs[m][i].status # "Expired"
    PROVE  refs'[m][i].status # "Expired"
BY OnlyTarget

\* Only the expiry's claim makes a row expired.
LEMMA OnlyClaimExpires ==
    ASSUME Inv, [Next]_vars, NEW m \in Maps, NEW i \in Ids,
           refs[m][i].status # "Expired", refs'[m][i].status = "Expired"
    PROVE  \E w \in Workers : ClaimExpire(w)
<1>1. refs' # refs
    OBVIOUS
<1>2. PICK w \in Workers :
          \/ Supersede(w) \/ CreateReferral(w) \/ ClaimForward(w) \/ ClaimReturn(w) \/ ClaimExpire(w)
          \/ Select(w) \/ AnswerSelected(w) \/ Reject(w) \/ Reopen(w) \/ MarkShortlisted(w)
  <2>1. UNCHANGED refs \/ \E w \in Workers : Step(w)
      BY DEF Next, Start, Begin, ReferToQ3, Q2Forward, Q2SendBack, Q2Reject, Q3SetupRound, UndoDecision,
             ScheduleInterview, BookRound, DecideApplicant, Q3Forward, Q3Return, CompanyShortlist,
             CompanyReject, ScanStale, NextStale, Tick, Restart, vars
  <2> QED
      BY <1>1, <2>1 DEF Step, FindLatest, Transition, WriteReview, OpenRound, ReadHistory, Restore
<1>3. ASSUME Supersede(w) PROVE FALSE
  <2> DEFINE row == [Target(w) EXCEPT !.reReferred = TRUE]
  <2>1. SetRef(w, row)
      BY <1>1, <1>3 DEF Supersede
  <2>2. Target(w) \in Referral => row.status = Target(w).status
      BY DEF Referral
  <2> HIDE DEF row
  <2> QED
      BY <2>1, <2>2, NotExpiredByWrite
<1>4. ASSUME CreateReferral(w) PROVE FALSE
  <2>a. task[w].map \in Maps
      BY TaskType DEF Inv
  <2>b. nrefs[task[w].map] + 1 \in Nat
      BY <2>a, ReferralAssumption DEF Inv, TypeOK
  <2> PICK n \in Maps, j \in Nat : n = task[w].map /\ j = nrefs[n] + 1
      BY <2>a, <2>b
  <2>1. refs' = [refs EXCEPT ![n] = [refs[n] EXCEPT ![j] = [NoReferral EXCEPT !.status = "Referred"]]]
      BY <1>4 DEF CreateReferral
  <2>2. refs \in [Maps -> [Ids -> Referral]]
      BY DEF Inv, TypeOK
  <2> DEFINE row == [NoReferral EXCEPT !.status = "Referred"]
  <2>3. row.status = "Referred"
      BY DEF NoReferral
  <2> HIDE DEF row
  <2>4. refs'[m][i] = refs[m][i] \/ refs'[m][i] = row
      BY <2>1, <2>2 DEF row
  <2> QED
      BY <2>3, <2>4
<1>5. ASSUME ClaimForward(w) PROVE FALSE
  <2> DEFINE row == [Target(w) EXCEPT !.status = "SentToCompany", !.sentAt = now, !.expiresAt = now + Window]
  <2>1. SetRef(w, row)
      BY <1>1, <1>5 DEF ClaimForward, Claim
  <2>2. Target(w) \in Referral => row.status # "Expired"
      BY DEF Referral
  <2> HIDE DEF row
  <2> QED
      BY <2>1, <2>2, NotExpiredByWrite
<1>6. ASSUME ClaimReturn(w) PROVE FALSE
  <2> DEFINE row == [Target(w) EXCEPT !.status = "Returned", !.returnedByQ3 = TRUE]
  <2>1. SetRef(w, row)
      BY <1>1, <1>6 DEF ClaimReturn, Claim
  <2>2. Target(w) \in Referral => row.status # "Expired"
      BY DEF Referral
  <2> HIDE DEF row
  <2> QED
      BY <2>1, <2>2, NotExpiredByWrite
<1>7. ASSUME Select(w) PROVE FALSE
  <2> DEFINE row == [Target(w) EXCEPT !.answer = "Selected", !.status = "SentToCompany", !.expiresAt = Never]
  <2>1. SetRef(w, row)
      BY <1>1, <1>7 DEF Select, Overwrite
  <2>2. Target(w) \in Referral => row.status # "Expired"
      BY DEF Referral
  <2> HIDE DEF row
  <2> QED
      BY <2>1, <2>2, NotExpiredByWrite
<1>8. ASSUME AnswerSelected(w) PROVE FALSE
  <2> DEFINE row == [Target(w) EXCEPT !.answer = "Selected", !.expiresAt = Never]
  <2>1. SetRef(w, row)
      BY <1>1, <1>8 DEF AnswerSelected, Overwrite
  <2>2. Target(w) \in Referral => row.status = Target(w).status
      BY DEF Referral
  <2> HIDE DEF row
  <2> QED
      BY <2>1, <2>2, NotExpiredByWrite
<1>9. ASSUME Reject(w) PROVE FALSE
  <2> DEFINE row == [Target(w) EXCEPT !.answer = "Rejected", !.status = "Returned", !.expiresAt = Never]
  <2>1. SetRef(w, row)
      BY <1>1, <1>9 DEF Reject, Overwrite
  <2>2. Target(w) \in Referral => row.status # "Expired"
      BY DEF Referral
  <2> HIDE DEF row
  <2> QED
      BY <2>1, <2>2, NotExpiredByWrite
<1>10. ASSUME Reopen(w) PROVE FALSE
  <2> DEFINE row == [Target(w) EXCEPT !.status = "SentToCompany", !.answer = "Pending",
                         !.expiresAt = IF Target(w).sentAt = Never THEN now + Window
                                                                   ELSE Target(w).sentAt + Window]
  <2>1. SetRef(w, row)
      BY <1>1, <1>10 DEF Reopen, Overwrite
  <2>2. Target(w) \in Referral => row.status # "Expired"
      BY DEF Referral
  <2> HIDE DEF row
  <2> QED
      BY <2>1, <2>2, NotExpiredByWrite
<1>11. ASSUME MarkShortlisted(w) PROVE FALSE
  <2> PICK n \in Maps : n = task[w].map
      BY TaskType DEF Inv
  <2>1. refs' = [refs EXCEPT ![n] = [j \in Ids |-> Stamped(refs[n][j])]]
      BY <1>11 DEF MarkShortlisted
  <2>2. refs \in [Maps -> [Ids -> Referral]]
      BY DEF Inv, TypeOK
  <2> DEFINE rows == [j \in Ids |-> Stamped(refs[n][j])]
  <2>3. rows[i] = Stamped(refs[n][i])
      OBVIOUS
  <2> HIDE DEF rows
  <2>4. refs'[m] = refs[m] \/ (n = m /\ refs'[m] = rows)
      BY <2>1, <2>2 DEF rows
  <2>5. refs[m][i] \in Referral
      BY <2>2
  <2>6. Stamped(refs[m][i]).status = refs[m][i].status
      BY <2>5 DEF Stamped, Referral
  <2> QED
      BY <2>3, <2>4, <2>6
<1> QED
    BY <1>2, <1>3, <1>4, <1>5, <1>6, <1>7, <1>8, <1>9, <1>10, <1>11

\* A CV the company has answered, or that was shortlisted for it, is never taken back by
\* the job: the claim looks at the row again, in the statement that writes it.
THEOREM AnsweredKept == Spec => AnsweredIsNotExpired
<1> DEFINE Kept == \A m \in Maps, i \in Ids :
               (refs[m][i].status # "Expired" /\ refs'[m][i].status = "Expired") => Unanswered(refs[m][i])
<1>1. Inv /\ [Next]_vars => [Kept]_vars
  <2> SUFFICES ASSUME Inv, [Next]_vars, NEW m \in Maps, NEW i \in Ids,
                      refs[m][i].status # "Expired", refs'[m][i].status = "Expired"
               PROVE  Unanswered(refs[m][i])
      OBVIOUS
  <2>1. PICK w \in Workers : ClaimExpire(w)
      BY OnlyClaimExpires
  <2>2. Unanswered(Target(w)) /\ SetRef(w, [Target(w) EXCEPT !.status = "Expired"])
      BY <2>1 DEF ClaimExpire, Claim
  <2> DEFINE row == [Target(w) EXCEPT !.status = "Expired"]
  <2>3. SetRef(w, row)
      BY <2>2
  <2> HIDE DEF row
  <2>4. refs[m][i] = Target(w)
      BY <2>3, OnlyTarget
  <2> QED
      BY <2>2, <2>4
<1> QED
    BY <1>1, InvAlways, PTL DEF Spec, AnsweredIsNotExpired

-----------------------------------------------------------------------------
(***************************************************************************)
(* One handler at a time. Between two statements of a handler the columns  *)
(* do not agree with each other, so the invariant speaks of an application *)
(* together with the statements that the one running handler still owes it.*)
(***************************************************************************)

\* What may follow a statement.
After ==
    [find |-> {<<"supersede", "create", "REFERRED_TO_Q3">>,
               <<"supersede", "create", "REFERRED_TO_Q3", "Forwarded">>},
     supersede |-> {<<"create", "REFERRED_TO_Q3">>, <<"create", "REFERRED_TO_Q3", "Forwarded">>},
     create |-> {<<"REFERRED_TO_Q3">>, <<"REFERRED_TO_Q3", "Forwarded">>},
     REFERRED_TO_Q3 |-> {<<>>, <<"Forwarded">>},
     Forwarded |-> {<<>>},
     NEED_MORE_INFO |-> {<<"SentBackToQ1">>},
     SentBackToQ1 |-> {<<>>},
     REJECTED |-> {<<>>, <<"RejectedByQ2">>, <<"reject">>},
     RejectedByQ2 |-> {<<>>},
     claimForward |-> {<<"SENT_TO_COMPANY">>},
     SENT_TO_COMPANY |-> {<<>>},
     claimReturn |-> {<<"New", "MAPPED">>},
     New |-> {<<>>, <<"MAPPED">>},
     MAPPED |-> {<<>>},
     round |-> {<<"markShortlisted", "SHORTLISTED">>, <<"INTERVIEW_R1">>, <<"INTERVIEW_R1", "markShortlisted">>},
     markShortlisted |-> {<<>>, <<"SHORTLISTED">>, <<"round", "INTERVIEW_R1">>},
     SHORTLISTED |-> {<<>>, <<"answer", "markShortlisted">>},
     SELECTED |-> {<<>>, <<"answer", "markShortlisted">>},
     select |-> {<<"markShortlisted", "round", "INTERVIEW_R1">>},
     answer |-> {<<"markShortlisted">>, <<"markShortlisted", "round", "INTERVIEW_R1">>},
     INTERVIEW_R1 |-> {<<>>, <<"markShortlisted">>},
     reject |-> {<<>>, <<"REJECTED">>},
     history |-> {<<"restore", "reopen">>},
     restore |-> {<<>>, <<"reopen">>},
     reopen |-> {<<>>},
     claimExpire |-> {<<"CV_EXPIRED", "New">>},
     CV_EXPIRED |-> {<<"New">>}]
ListOK(l) == l = <<>> \/ (Head(l) \in DOMAIN After /\ Tail(l) \in After[Head(l)])
Starts(l, S) == l # <<>> /\ Head(l) \in S

\* The columns of one application, and its newest referral.
App(m) == [status |-> mapStatus[m], trail |-> trail[m], review |-> review[m], rows |-> refs[m], n |-> nrefs[m]]
Top(a) == a.rows[a.n]
Out == {"Referred", "SentToCompany"}
Awaiting(a) == a.n > 0 /\ Top(a).status = "SentToCompany" /\ Top(a).answer = "Pending"
CameBack(a) == a.n > 0 /\ (Top(a).status = "Expired" \/ (Top(a).status = "Returned" /\ Top(a).returnedByQ3))
\* A log that ends with "sent to company" has a newest referral that is there or was answered.
Logged(a) == a.n > 0 /\ (Top(a).status = "SentToCompany" \/ Top(a).answer # "Pending")

\* Only the newest referral is out, and whoever inserts or reopens one keeps it so.
OpenOK(a, l, i) ==
    /\ ListOK(l)
    /\ \A j \in Ids : a.rows[j].status \in Out => j = a.n
    /\ Starts(l, {"select", "history", "restore", "reopen"}) => i \in {0, a.n}
    /\ Starts(l, {"supersede", "create"}) => (a.n = 0 \/ Top(a).status \notin Out)
    /\ Starts(l, {"claimForward", "claimReturn", "claimExpire"}) => i \in Ids

\* The rest of a handler still writes a status: nothing on its way can drop that write.
OwesStatus(l) ==
    \/ Starts(l, MapStatus \union {"supersede", "create", "select", "round", "history", "restore", "reopen"})
    \/ Starts(l, {"reject", "answer", "markShortlisted"}) /\ Tail(l) \notin {<<>>, <<"markShortlisted">>}

\* Status, log and review row tell the newest referral, but for what l still writes; and
\* what it will write is right.
CalmOK(a, l, i, to) ==
    /\ a.status = "SENT_TO_COMPANY" => (Awaiting(a) \/ OwesStatus(l))
    /\ a.trail = "SENT_TO_COMPANY" => (Logged(a) \/ Starts(l, {"REFERRED_TO_Q3", "CV_EXPIRED"}))
    /\ a.review = "Forwarded" => (~CameBack(a) \/ Starts(l, {"CV_EXPIRED", "New"}))
    /\ Starts(l, {"SENT_TO_COMPANY"}) => Awaiting(a)
    /\ Starts(l, {"reject", "answer", "markShortlisted"}) => (OwesStatus(l) \/ a.status # "SENT_TO_COMPANY")
    /\ Starts(l, {"history"}) => (i # 0 \/ a.n = 0 \/ Top(a).answer = "Pending")
    /\ Starts(l, {"restore"}) =>
           to = a.trail /\ (to = "SENT_TO_COMPANY" => (Awaiting(a) \/ Tail(l) = <<"reopen">>))
    /\ Starts(l, {"restore"}) => (Tail(l) = <<"reopen">> => (i # 0 /\ a.trail = "SENT_TO_COMPANY"))
    /\ Starts(l, {"reopen"}) => i # 0
    /\ Starts(l, {"REFERRED_TO_Q3", "Forwarded"}) => ~CameBack(a)

ListOn(w, m) == IF task[w].map = m THEN task[w].todo ELSE <<>>
Agree(w) ==
    \A m \in Maps :
        /\ OpenOK(App(m), ListOn(w, m), task[w].ref)
        /\ crashes = 0 => CalmOK(App(m), ListOn(w, m), task[w].ref, task[w].to)
Alone(w) == \A v \in Workers : v # w => ~Busy(v)
SerialInv == \E w \in Workers : Alone(w) /\ Agree(w)

LEMMA AfterIs ==
    /\ DOMAIN After = {"find",
          "supersede",
          "create",
          "REFERRED_TO_Q3",
          "Forwarded",
          "NEED_MORE_INFO",
          "SentBackToQ1",
          "REJECTED",
          "RejectedByQ2",
          "claimForward",
          "SENT_TO_COMPANY",
          "claimReturn",
          "New",
          "MAPPED",
          "round",
          "markShortlisted",
          "SHORTLISTED",
          "SELECTED",
          "select",
          "answer",
          "INTERVIEW_R1",
          "reject",
          "history",
          "restore",
          "reopen",
          "claimExpire",
          "CV_EXPIRED"}
    /\ After["find"] = {<<"supersede", "create", "REFERRED_TO_Q3">>, <<"supersede", "create", "REFERRED_TO_Q3", "Forwarded">>}
    /\ After["supersede"] = {<<"create", "REFERRED_TO_Q3">>, <<"create", "REFERRED_TO_Q3", "Forwarded">>}
    /\ After["create"] = {<<"REFERRED_TO_Q3">>, <<"REFERRED_TO_Q3", "Forwarded">>}
    /\ After["REFERRED_TO_Q3"] = {<<>>, <<"Forwarded">>}
    /\ After["Forwarded"] = {<<>>}
    /\ After["NEED_MORE_INFO"] = {<<"SentBackToQ1">>}
    /\ After["SentBackToQ1"] = {<<>>}
    /\ After["REJECTED"] = {<<>>, <<"RejectedByQ2">>, <<"reject">>}
    /\ After["RejectedByQ2"] = {<<>>}
    /\ After["claimForward"] = {<<"SENT_TO_COMPANY">>}
    /\ After["SENT_TO_COMPANY"] = {<<>>}
    /\ After["claimReturn"] = {<<"New", "MAPPED">>}
    /\ After["New"] = {<<>>, <<"MAPPED">>}
    /\ After["MAPPED"] = {<<>>}
    /\ After["round"] = {<<"markShortlisted", "SHORTLISTED">>, <<"INTERVIEW_R1">>, <<"INTERVIEW_R1", "markShortlisted">>}
    /\ After["markShortlisted"] = {<<>>, <<"SHORTLISTED">>, <<"round", "INTERVIEW_R1">>}
    /\ After["SHORTLISTED"] = {<<>>, <<"answer", "markShortlisted">>}
    /\ After["SELECTED"] = {<<>>, <<"answer", "markShortlisted">>}
    /\ After["select"] = {<<"markShortlisted", "round", "INTERVIEW_R1">>}
    /\ After["answer"] = {<<"markShortlisted">>, <<"markShortlisted", "round", "INTERVIEW_R1">>}
    /\ After["INTERVIEW_R1"] = {<<>>, <<"markShortlisted">>}
    /\ After["reject"] = {<<>>, <<"REJECTED">>}
    /\ After["history"] = {<<"restore", "reopen">>}
    /\ After["restore"] = {<<>>, <<"reopen">>}
    /\ After["reopen"] = {<<>>}
    /\ After["claimExpire"] = {<<"CV_EXPIRED", "New">>}
    /\ After["CV_EXPIRED"] = {<<"New">>}
BY DEF After

\* The lists of statements, taken apart.
LEMMA Lists ==
    /\ <<"CV_EXPIRED", "New">> # <<>> /\ Head(<<"CV_EXPIRED", "New">>) = "CV_EXPIRED" /\ Tail(<<"CV_EXPIRED", "New">>) = <<"New">>
    /\ <<"Forwarded">> # <<>> /\ Head(<<"Forwarded">>) = "Forwarded" /\ Tail(<<"Forwarded">>) = <<>>
    /\ <<"INTERVIEW_R1">> # <<>> /\ Head(<<"INTERVIEW_R1">>) = "INTERVIEW_R1" /\ Tail(<<"INTERVIEW_R1">>) = <<>>
    /\ <<"INTERVIEW_R1", "markShortlisted">> # <<>> /\ Head(<<"INTERVIEW_R1", "markShortlisted">>) = "INTERVIEW_R1" /\ Tail(<<"INTERVIEW_R1", "markShortlisted">>) = <<"markShortlisted">>
    /\ <<"MAPPED">> # <<>> /\ Head(<<"MAPPED">>) = "MAPPED" /\ Tail(<<"MAPPED">>) = <<>>
    /\ <<"NEED_MORE_INFO", "SentBackToQ1">> # <<>> /\ Head(<<"NEED_MORE_INFO", "SentBackToQ1">>) = "NEED_MORE_INFO" /\ Tail(<<"NEED_MORE_INFO", "SentBackToQ1">>) = <<"SentBackToQ1">>
    /\ <<"New">> # <<>> /\ Head(<<"New">>) = "New" /\ Tail(<<"New">>) = <<>>
    /\ <<"New", "MAPPED">> # <<>> /\ Head(<<"New", "MAPPED">>) = "New" /\ Tail(<<"New", "MAPPED">>) = <<"MAPPED">>
    /\ <<"REFERRED_TO_Q3">> # <<>> /\ Head(<<"REFERRED_TO_Q3">>) = "REFERRED_TO_Q3" /\ Tail(<<"REFERRED_TO_Q3">>) = <<>>
    /\ <<"REFERRED_TO_Q3", "Forwarded">> # <<>> /\ Head(<<"REFERRED_TO_Q3", "Forwarded">>) = "REFERRED_TO_Q3" /\ Tail(<<"REFERRED_TO_Q3", "Forwarded">>) = <<"Forwarded">>
    /\ <<"REJECTED">> # <<>> /\ Head(<<"REJECTED">>) = "REJECTED" /\ Tail(<<"REJECTED">>) = <<>>
    /\ <<"REJECTED", "RejectedByQ2">> # <<>> /\ Head(<<"REJECTED", "RejectedByQ2">>) = "REJECTED" /\ Tail(<<"REJECTED", "RejectedByQ2">>) = <<"RejectedByQ2">>
    /\ <<"REJECTED", "reject">> # <<>> /\ Head(<<"REJECTED", "reject">>) = "REJECTED" /\ Tail(<<"REJECTED", "reject">>) = <<"reject">>
    /\ <<"RejectedByQ2">> # <<>> /\ Head(<<"RejectedByQ2">>) = "RejectedByQ2" /\ Tail(<<"RejectedByQ2">>) = <<>>
    /\ <<"SELECTED">> # <<>> /\ Head(<<"SELECTED">>) = "SELECTED" /\ Tail(<<"SELECTED">>) = <<>>
    /\ <<"SELECTED", "answer", "markShortlisted">> # <<>> /\ Head(<<"SELECTED", "answer", "markShortlisted">>) = "SELECTED" /\ Tail(<<"SELECTED", "answer", "markShortlisted">>) = <<"answer", "markShortlisted">>
    /\ <<"SENT_TO_COMPANY">> # <<>> /\ Head(<<"SENT_TO_COMPANY">>) = "SENT_TO_COMPANY" /\ Tail(<<"SENT_TO_COMPANY">>) = <<>>
    /\ <<"SHORTLISTED">> # <<>> /\ Head(<<"SHORTLISTED">>) = "SHORTLISTED" /\ Tail(<<"SHORTLISTED">>) = <<>>
    /\ <<"SHORTLISTED", "answer", "markShortlisted">> # <<>> /\ Head(<<"SHORTLISTED", "answer", "markShortlisted">>) = "SHORTLISTED" /\ Tail(<<"SHORTLISTED", "answer", "markShortlisted">>) = <<"answer", "markShortlisted">>
    /\ <<"SentBackToQ1">> # <<>> /\ Head(<<"SentBackToQ1">>) = "SentBackToQ1" /\ Tail(<<"SentBackToQ1">>) = <<>>
    /\ <<"answer", "markShortlisted">> # <<>> /\ Head(<<"answer", "markShortlisted">>) = "answer" /\ Tail(<<"answer", "markShortlisted">>) = <<"markShortlisted">>
    /\ <<"answer", "markShortlisted", "round", "INTERVIEW_R1">> # <<>> /\ Head(<<"answer", "markShortlisted", "round", "INTERVIEW_R1">>) = "answer" /\ Tail(<<"answer", "markShortlisted", "round", "INTERVIEW_R1">>) = <<"markShortlisted", "round", "INTERVIEW_R1">>
    /\ <<"claimExpire", "CV_EXPIRED", "New">> # <<>> /\ Head(<<"claimExpire", "CV_EXPIRED", "New">>) = "claimExpire" /\ Tail(<<"claimExpire", "CV_EXPIRED", "New">>) = <<"CV_EXPIRED", "New">>
    /\ <<"claimForward", "SENT_TO_COMPANY">> # <<>> /\ Head(<<"claimForward", "SENT_TO_COMPANY">>) = "claimForward" /\ Tail(<<"claimForward", "SENT_TO_COMPANY">>) = <<"SENT_TO_COMPANY">>
    /\ <<"claimReturn", "New", "MAPPED">> # <<>> /\ Head(<<"claimReturn", "New", "MAPPED">>) = "claimReturn" /\ Tail(<<"claimReturn", "New", "MAPPED">>) = <<"New", "MAPPED">>
    /\ <<"create", "REFERRED_TO_Q3">> # <<>> /\ Head(<<"create", "REFERRED_TO_Q3">>) = "create" /\ Tail(<<"create", "REFERRED_TO_Q3">>) = <<"REFERRED_TO_Q3">>
    /\ <<"create", "REFERRED_TO_Q3", "Forwarded">> # <<>> /\ Head(<<"create", "REFERRED_TO_Q3", "Forwarded">>) = "create" /\ Tail(<<"create", "REFERRED_TO_Q3", "Forwarded">>) = <<"REFERRED_TO_Q3", "Forwarded">>
    /\ <<"find", "supersede", "create", "REFERRED_TO_Q3">> # <<>> /\ Head(<<"find", "supersede", "create", "REFERRED_TO_Q3">>) = "find" /\ Tail(<<"find", "supersede", "create", "REFERRED_TO_Q3">>) = <<"supersede", "create", "REFERRED_TO_Q3">>
    /\ <<"find", "supersede", "create", "REFERRED_TO_Q3", "Forwarded">> # <<>> /\ Head(<<"find", "supersede", "create", "REFERRED_TO_Q3", "Forwarded">>) = "find" /\ Tail(<<"find", "supersede", "create", "REFERRED_TO_Q3", "Forwarded">>) = <<"supersede", "create", "REFERRED_TO_Q3", "Forwarded">>
    /\ <<"history", "restore", "reopen">> # <<>> /\ Head(<<"history", "restore", "reopen">>) = "history" /\ Tail(<<"history", "restore", "reopen">>) = <<"restore", "reopen">>
    /\ <<"markShortlisted">> # <<>> /\ Head(<<"markShortlisted">>) = "markShortlisted" /\ Tail(<<"markShortlisted">>) = <<>>
    /\ <<"markShortlisted", "SHORTLISTED">> # <<>> /\ Head(<<"markShortlisted", "SHORTLISTED">>) = "markShortlisted" /\ Tail(<<"markShortlisted", "SHORTLISTED">>) = <<"SHORTLISTED">>
    /\ <<"markShortlisted", "round", "INTERVIEW_R1">> # <<>> /\ Head(<<"markShortlisted", "round", "INTERVIEW_R1">>) = "markShortlisted" /\ Tail(<<"markShortlisted", "round", "INTERVIEW_R1">>) = <<"round", "INTERVIEW_R1">>
    /\ <<"reject">> # <<>> /\ Head(<<"reject">>) = "reject" /\ Tail(<<"reject">>) = <<>>
    /\ <<"reject", "REJECTED">> # <<>> /\ Head(<<"reject", "REJECTED">>) = "reject" /\ Tail(<<"reject", "REJECTED">>) = <<"REJECTED">>
    /\ <<"reopen">> # <<>> /\ Head(<<"reopen">>) = "reopen" /\ Tail(<<"reopen">>) = <<>>
    /\ <<"restore">> # <<>> /\ Head(<<"restore">>) = "restore" /\ Tail(<<"restore">>) = <<>>
    /\ <<"restore", "reopen">> # <<>> /\ Head(<<"restore", "reopen">>) = "restore" /\ Tail(<<"restore", "reopen">>) = <<"reopen">>
    /\ <<"round", "INTERVIEW_R1">> # <<>> /\ Head(<<"round", "INTERVIEW_R1">>) = "round" /\ Tail(<<"round", "INTERVIEW_R1">>) = <<"INTERVIEW_R1">>
    /\ <<"round", "INTERVIEW_R1", "markShortlisted">> # <<>> /\ Head(<<"round", "INTERVIEW_R1", "markShortlisted">>) = "round" /\ Tail(<<"round", "INTERVIEW_R1", "markShortlisted">>) = <<"INTERVIEW_R1", "markShortlisted">>
    /\ <<"round", "markShortlisted", "SHORTLISTED">> # <<>> /\ Head(<<"round", "markShortlisted", "SHORTLISTED">>) = "round" /\ Tail(<<"round", "markShortlisted", "SHORTLISTED">>) = <<"markShortlisted", "SHORTLISTED">>
    /\ <<"select", "markShortlisted", "round", "INTERVIEW_R1">> # <<>> /\ Head(<<"select", "markShortlisted", "round", "INTERVIEW_R1">>) = "select" /\ Tail(<<"select", "markShortlisted", "round", "INTERVIEW_R1">>) = <<"markShortlisted", "round", "INTERVIEW_R1">>
    /\ <<"supersede", "create", "REFERRED_TO_Q3">> # <<>> /\ Head(<<"supersede", "create", "REFERRED_TO_Q3">>) = "supersede" /\ Tail(<<"supersede", "create", "REFERRED_TO_Q3">>) = <<"create", "REFERRED_TO_Q3">>
    /\ <<"supersede", "create", "REFERRED_TO_Q3", "Forwarded">> # <<>> /\ Head(<<"supersede", "create", "REFERRED_TO_Q3", "Forwarded">>) = "supersede" /\ Tail(<<"supersede", "create", "REFERRED_TO_Q3", "Forwarded">>) = <<"create", "REFERRED_TO_Q3", "Forwarded">>
<1>1. <<"CV_EXPIRED", "New">> # <<>> /\ Head(<<"CV_EXPIRED", "New">>) = "CV_EXPIRED" /\ Tail(<<"CV_EXPIRED", "New">>) = <<"New">>
    OBVIOUS
<1>2. <<"Forwarded">> # <<>> /\ Head(<<"Forwarded">>) = "Forwarded" /\ Tail(<<"Forwarded">>) = <<>>
    OBVIOUS
<1>3. <<"INTERVIEW_R1">> # <<>> /\ Head(<<"INTERVIEW_R1">>) = "INTERVIEW_R1" /\ Tail(<<"INTERVIEW_R1">>) = <<>>
    OBVIOUS
<1>4. <<"INTERVIEW_R1", "markShortlisted">> # <<>> /\ Head(<<"INTERVIEW_R1", "markShortlisted">>) = "INTERVIEW_R1" /\ Tail(<<"INTERVIEW_R1", "markShortlisted">>) = <<"markShortlisted">>
    OBVIOUS
<1>5. <<"MAPPED">> # <<>> /\ Head(<<"MAPPED">>) = "MAPPED" /\ Tail(<<"MAPPED">>) = <<>>
    OBVIOUS
<1>6. <<"NEED_MORE_INFO", "SentBackToQ1">> # <<>> /\ Head(<<"NEED_MORE_INFO", "SentBackToQ1">>) = "NEED_MORE_INFO" /\ Tail(<<"NEED_MORE_INFO", "SentBackToQ1">>) = <<"SentBackToQ1">>
    OBVIOUS
<1>7. <<"New">> # <<>> /\ Head(<<"New">>) = "New" /\ Tail(<<"New">>) = <<>>
    OBVIOUS
<1>8. <<"New", "MAPPED">> # <<>> /\ Head(<<"New", "MAPPED">>) = "New" /\ Tail(<<"New", "MAPPED">>) = <<"MAPPED">>
    OBVIOUS
<1>9. <<"REFERRED_TO_Q3">> # <<>> /\ Head(<<"REFERRED_TO_Q3">>) = "REFERRED_TO_Q3" /\ Tail(<<"REFERRED_TO_Q3">>) = <<>>
    OBVIOUS
<1>10. <<"REFERRED_TO_Q3", "Forwarded">> # <<>> /\ Head(<<"REFERRED_TO_Q3", "Forwarded">>) = "REFERRED_TO_Q3" /\ Tail(<<"REFERRED_TO_Q3", "Forwarded">>) = <<"Forwarded">>
    OBVIOUS
<1>11. <<"REJECTED">> # <<>> /\ Head(<<"REJECTED">>) = "REJECTED" /\ Tail(<<"REJECTED">>) = <<>>
    OBVIOUS
<1>12. <<"REJECTED", "RejectedByQ2">> # <<>> /\ Head(<<"REJECTED", "RejectedByQ2">>) = "REJECTED" /\ Tail(<<"REJECTED", "RejectedByQ2">>) = <<"RejectedByQ2">>
    OBVIOUS
<1>13. <<"REJECTED", "reject">> # <<>> /\ Head(<<"REJECTED", "reject">>) = "REJECTED" /\ Tail(<<"REJECTED", "reject">>) = <<"reject">>
    OBVIOUS
<1>14. <<"RejectedByQ2">> # <<>> /\ Head(<<"RejectedByQ2">>) = "RejectedByQ2" /\ Tail(<<"RejectedByQ2">>) = <<>>
    OBVIOUS
<1>15. <<"SELECTED">> # <<>> /\ Head(<<"SELECTED">>) = "SELECTED" /\ Tail(<<"SELECTED">>) = <<>>
    OBVIOUS
<1>16. <<"SELECTED", "answer", "markShortlisted">> # <<>> /\ Head(<<"SELECTED", "answer", "markShortlisted">>) = "SELECTED" /\ Tail(<<"SELECTED", "answer", "markShortlisted">>) = <<"answer", "markShortlisted">>
    OBVIOUS
<1>17. <<"SENT_TO_COMPANY">> # <<>> /\ Head(<<"SENT_TO_COMPANY">>) = "SENT_TO_COMPANY" /\ Tail(<<"SENT_TO_COMPANY">>) = <<>>
    OBVIOUS
<1>18. <<"SHORTLISTED">> # <<>> /\ Head(<<"SHORTLISTED">>) = "SHORTLISTED" /\ Tail(<<"SHORTLISTED">>) = <<>>
    OBVIOUS
<1>19. <<"SHORTLISTED", "answer", "markShortlisted">> # <<>> /\ Head(<<"SHORTLISTED", "answer", "markShortlisted">>) = "SHORTLISTED" /\ Tail(<<"SHORTLISTED", "answer", "markShortlisted">>) = <<"answer", "markShortlisted">>
    OBVIOUS
<1>20. <<"SentBackToQ1">> # <<>> /\ Head(<<"SentBackToQ1">>) = "SentBackToQ1" /\ Tail(<<"SentBackToQ1">>) = <<>>
    OBVIOUS
<1>21. <<"answer", "markShortlisted">> # <<>> /\ Head(<<"answer", "markShortlisted">>) = "answer" /\ Tail(<<"answer", "markShortlisted">>) = <<"markShortlisted">>
    OBVIOUS
<1>22. <<"answer", "markShortlisted", "round", "INTERVIEW_R1">> # <<>> /\ Head(<<"answer", "markShortlisted", "round", "INTERVIEW_R1">>) = "answer" /\ Tail(<<"answer", "markShortlisted", "round", "INTERVIEW_R1">>) = <<"markShortlisted", "round", "INTERVIEW_R1">>
    OBVIOUS
<1>23. <<"claimExpire", "CV_EXPIRED", "New">> # <<>> /\ Head(<<"claimExpire", "CV_EXPIRED", "New">>) = "claimExpire" /\ Tail(<<"claimExpire", "CV_EXPIRED", "New">>) = <<"CV_EXPIRED", "New">>
    OBVIOUS
<1>24. <<"claimForward", "SENT_TO_COMPANY">> # <<>> /\ Head(<<"claimForward", "SENT_TO_COMPANY">>) = "claimForward" /\ Tail(<<"claimForward", "SENT_TO_COMPANY">>) = <<"SENT_TO_COMPANY">>
    OBVIOUS
<1>25. <<"claimReturn", "New", "MAPPED">> # <<>> /\ Head(<<"claimReturn", "New", "MAPPED">>) = "claimReturn" /\ Tail(<<"claimReturn", "New", "MAPPED">>) = <<"New", "MAPPED">>
    OBVIOUS
<1>26. <<"create", "REFERRED_TO_Q3">> # <<>> /\ Head(<<"create", "REFERRED_TO_Q3">>) = "create" /\ Tail(<<"create", "REFERRED_TO_Q3">>) = <<"REFERRED_TO_Q3">>
    OBVIOUS
<1>27. <<"create", "REFERRED_TO_Q3", "Forwarded">> # <<>> /\ Head(<<"create", "REFERRED_TO_Q3", "Forwarded">>) = "create" /\ Tail(<<"create", "REFERRED_TO_Q3", "Forwarded">>) = <<"REFERRED_TO_Q3", "Forwarded">>
    OBVIOUS
<1>28. <<"find", "supersede", "create", "REFERRED_TO_Q3">> # <<>> /\ Head(<<"find", "supersede", "create", "REFERRED_TO_Q3">>) = "find" /\ Tail(<<"find", "supersede", "create", "REFERRED_TO_Q3">>) = <<"supersede", "create", "REFERRED_TO_Q3">>
    OBVIOUS
<1>29. <<"find", "supersede", "create", "REFERRED_TO_Q3", "Forwarded">> # <<>> /\ Head(<<"find", "supersede", "create", "REFERRED_TO_Q3", "Forwarded">>) = "find" /\ Tail(<<"find", "supersede", "create", "REFERRED_TO_Q3", "Forwarded">>) = <<"supersede", "create", "REFERRED_TO_Q3", "Forwarded">>
    OBVIOUS
<1>30. <<"history", "restore", "reopen">> # <<>> /\ Head(<<"history", "restore", "reopen">>) = "history" /\ Tail(<<"history", "restore", "reopen">>) = <<"restore", "reopen">>
    OBVIOUS
<1>31. <<"markShortlisted">> # <<>> /\ Head(<<"markShortlisted">>) = "markShortlisted" /\ Tail(<<"markShortlisted">>) = <<>>
    OBVIOUS
<1>32. <<"markShortlisted", "SHORTLISTED">> # <<>> /\ Head(<<"markShortlisted", "SHORTLISTED">>) = "markShortlisted" /\ Tail(<<"markShortlisted", "SHORTLISTED">>) = <<"SHORTLISTED">>
    OBVIOUS
<1>33. <<"markShortlisted", "round", "INTERVIEW_R1">> # <<>> /\ Head(<<"markShortlisted", "round", "INTERVIEW_R1">>) = "markShortlisted" /\ Tail(<<"markShortlisted", "round", "INTERVIEW_R1">>) = <<"round", "INTERVIEW_R1">>
    OBVIOUS
<1>34. <<"reject">> # <<>> /\ Head(<<"reject">>) = "reject" /\ Tail(<<"reject">>) = <<>>
    OBVIOUS
<1>35. <<"reject", "REJECTED">> # <<>> /\ Head(<<"reject", "REJECTED">>) = "reject" /\ Tail(<<"reject", "REJECTED">>) = <<"REJECTED">>
    OBVIOUS
<1>36. <<"reopen">> # <<>> /\ Head(<<"reopen">>) = "reopen" /\ Tail(<<"reopen">>) = <<>>
    OBVIOUS
<1>37. <<"restore">> # <<>> /\ Head(<<"restore">>) = "restore" /\ Tail(<<"restore">>) = <<>>
    OBVIOUS
<1>38. <<"restore", "reopen">> # <<>> /\ Head(<<"restore", "reopen">>) = "restore" /\ Tail(<<"restore", "reopen">>) = <<"reopen">>
    OBVIOUS
<1>39. <<"round", "INTERVIEW_R1">> # <<>> /\ Head(<<"round", "INTERVIEW_R1">>) = "round" /\ Tail(<<"round", "INTERVIEW_R1">>) = <<"INTERVIEW_R1">>
    OBVIOUS
<1>40. <<"round", "INTERVIEW_R1", "markShortlisted">> # <<>> /\ Head(<<"round", "INTERVIEW_R1", "markShortlisted">>) = "round" /\ Tail(<<"round", "INTERVIEW_R1", "markShortlisted">>) = <<"INTERVIEW_R1", "markShortlisted">>
    OBVIOUS
<1>41. <<"round", "markShortlisted", "SHORTLISTED">> # <<>> /\ Head(<<"round", "markShortlisted", "SHORTLISTED">>) = "round" /\ Tail(<<"round", "markShortlisted", "SHORTLISTED">>) = <<"markShortlisted", "SHORTLISTED">>
    OBVIOUS
<1>42. <<"select", "markShortlisted", "round", "INTERVIEW_R1">> # <<>> /\ Head(<<"select", "markShortlisted", "round", "INTERVIEW_R1">>) = "select" /\ Tail(<<"select", "markShortlisted", "round", "INTERVIEW_R1">>) = <<"markShortlisted", "round", "INTERVIEW_R1">>
    OBVIOUS
<1>43. <<"supersede", "create", "REFERRED_TO_Q3">> # <<>> /\ Head(<<"supersede", "create", "REFERRED_TO_Q3">>) = "supersede" /\ Tail(<<"supersede", "create", "REFERRED_TO_Q3">>) = <<"create", "REFERRED_TO_Q3">>
    OBVIOUS
<1>44. <<"supersede", "create", "REFERRED_TO_Q3", "Forwarded">> # <<>> /\ Head(<<"supersede", "create", "REFERRED_TO_Q3", "Forwarded">>) = "supersede" /\ Tail(<<"supersede", "create", "REFERRED_TO_Q3", "Forwarded">>) = <<"create", "REFERRED_TO_Q3", "Forwarded">>
    OBVIOUS
<1> QED
    BY <1>1, <1>2, <1>3, <1>4, <1>5, <1>6, <1>7, <1>8, <1>9, <1>10, <1>11, <1>12, <1>13, <1>14, <1>15, <1>16, <1>17, <1>18, <1>19, <1>20, <1>21, <1>22, <1>23, <1>24, <1>25, <1>26, <1>27, <1>28, <1>29, <1>30, <1>31, <1>32, <1>33, <1>34, <1>35, <1>36, <1>37, <1>38, <1>39, <1>40, <1>41, <1>42, <1>43, <1>44

LEMMA ListsOK ==
    /\ ListOK(<<>>)
    /\ ListOK(<<"CV_EXPIRED", "New">>)
    /\ ListOK(<<"Forwarded">>)
    /\ ListOK(<<"INTERVIEW_R1">>)
    /\ ListOK(<<"INTERVIEW_R1", "markShortlisted">>)
    /\ ListOK(<<"MAPPED">>)
    /\ ListOK(<<"NEED_MORE_INFO", "SentBackToQ1">>)
    /\ ListOK(<<"New">>)
    /\ ListOK(<<"New", "MAPPED">>)
    /\ ListOK(<<"REFERRED_TO_Q3">>)
    /\ ListOK(<<"REFERRED_TO_Q3", "Forwarded">>)
    /\ ListOK(<<"REJECTED">>)
    /\ ListOK(<<"REJECTED", "RejectedByQ2">>)
    /\ ListOK(<<"REJECTED", "reject">>)
    /\ ListOK(<<"RejectedByQ2">>)
    /\ ListOK(<<"SELECTED">>)
    /\ ListOK(<<"SELECTED", "answer", "markShortlisted">>)
    /\ ListOK(<<"SENT_TO_COMPANY">>)
    /\ ListOK(<<"SHORTLISTED">>)
    /\ ListOK(<<"SHORTLISTED", "answer", "markShortlisted">>)
    /\ ListOK(<<"SentBackToQ1">>)
    /\ ListOK(<<"answer", "markShortlisted">>)
    /\ ListOK(<<"answer", "markShortlisted", "round", "INTERVIEW_R1">>)
    /\ ListOK(<<"claimExpire", "CV_EXPIRED", "New">>)
    /\ ListOK(<<"claimForward", "SENT_TO_COMPANY">>)
    /\ ListOK(<<"claimReturn", "New", "MAPPED">>)
    /\ ListOK(<<"create", "REFERRED_TO_Q3">>)
    /\ ListOK(<<"create", "REFERRED_TO_Q3", "Forwarded">>)
    /\ ListOK(<<"find", "supersede", "create", "REFERRED_TO_Q3">>)
    /\ ListOK(<<"find", "supersede", "create", "REFERRED_TO_Q3", "Forwarded">>)
    /\ ListOK(<<"history", "restore", "reopen">>)
    /\ ListOK(<<"markShortlisted">>)
    /\ ListOK(<<"markShortlisted", "SHORTLISTED">>)
    /\ ListOK(<<"markShortlisted", "round", "INTERVIEW_R1">>)
    /\ ListOK(<<"reject">>)
    /\ ListOK(<<"reject", "REJECTED">>)
    /\ ListOK(<<"reopen">>)
    /\ ListOK(<<"restore">>)
    /\ ListOK(<<"restore", "reopen">>)
    /\ ListOK(<<"round", "INTERVIEW_R1">>)
    /\ ListOK(<<"round", "INTERVIEW_R1", "markShortlisted">>)
    /\ ListOK(<<"round", "markShortlisted", "SHORTLISTED">>)
    /\ ListOK(<<"select", "markShortlisted", "round", "INTERVIEW_R1">>)
    /\ ListOK(<<"supersede", "create", "REFERRED_TO_Q3">>)
    /\ ListOK(<<"supersede", "create", "REFERRED_TO_Q3", "Forwarded">>)
BY AfterIs, Lists DEF ListOK

\* A handler goes from one list to the next.
LEMMA TailOK ==
    ASSUME NEW l, ListOK(l), l # <<>>
    PROVE  ListOK(Tail(l))
<1>1. \A t \in After["find"] : ListOK(t)
    BY AfterIs, ListsOK
<1>2. \A t \in After["supersede"] : ListOK(t)
    BY AfterIs, ListsOK
<1>3. \A t \in After["create"] : ListOK(t)
    BY AfterIs, ListsOK
<1>4. \A t \in After["REFERRED_TO_Q3"] : ListOK(t)
    BY AfterIs, ListsOK
<1>5. \A t \in After["Forwarded"] : ListOK(t)
    BY AfterIs, ListsOK
<1>6. \A t \in After["NEED_MORE_INFO"] : ListOK(t)
    BY AfterIs, ListsOK
<1>7. \A t \in After["SentBackToQ1"] : ListOK(t)
    BY AfterIs, ListsOK
<1>8. \A t \in After["REJECTED"] : ListOK(t)
    BY AfterIs, ListsOK
<1>9. \A t \in After["RejectedByQ2"] : ListOK(t)
    BY AfterIs, ListsOK
<1>10. \A t \in After["claimForward"] : ListOK(t)
    BY AfterIs, ListsOK
<1>11. \A t \in After["SENT_TO_COMPANY"] : ListOK(t)
    BY AfterIs, ListsOK
<1>12. \A t \in After["claimReturn"] : ListOK(t)
    BY AfterIs, ListsOK
<1>13. \A t \in After["New"] : ListOK(t)
    BY AfterIs, ListsOK
<1>14. \A t \in After["MAPPED"] : ListOK(t)
    BY AfterIs, ListsOK
<1>15. \A t \in After["round"] : ListOK(t)
    BY AfterIs, ListsOK
<1>16. \A t \in After["markShortlisted"] : ListOK(t)
    BY AfterIs, ListsOK
<1>17. \A t \in After["SHORTLISTED"] : ListOK(t)
    BY AfterIs, ListsOK
<1>18. \A t \in After["SELECTED"] : ListOK(t)
    BY AfterIs, ListsOK
<1>19. \A t \in After["select"] : ListOK(t)
    BY AfterIs, ListsOK
<1>20. \A t \in After["answer"] : ListOK(t)
    BY AfterIs, ListsOK
<1>21. \A t \in After["INTERVIEW_R1"] : ListOK(t)
    BY AfterIs, ListsOK
<1>22. \A t \in After["reject"] : ListOK(t)
    BY AfterIs, ListsOK
<1>23. \A t \in After["history"] : ListOK(t)
    BY AfterIs, ListsOK
<1>24. \A t \in After["restore"] : ListOK(t)
    BY AfterIs, ListsOK
<1>25. \A t \in After["reopen"] : ListOK(t)
    BY AfterIs, ListsOK
<1>26. \A t \in After["claimExpire"] : ListOK(t)
    BY AfterIs, ListsOK
<1>27. \A t \in After["CV_EXPIRED"] : ListOK(t)
    BY AfterIs, ListsOK
<1>50. \A s \in DOMAIN After : \A t \in After[s] : ListOK(t)
  <2> QED
      BY <1>1, <1>2, <1>3, <1>4, <1>5, <1>6, <1>7, <1>8, <1>9, <1>10, <1>11, <1>12, <1>13, <1>14, <1>15, <1>16, <1>17, <1>18, <1>19, <1>20, <1>21, <1>22, <1>23, <1>24, <1>25, <1>26, <1>27, AfterIs
<1> QED
    BY <1>50 DEF ListOK

-----------------------------------------------------------------------------
\* What Inv says of the columns of one application.
Typed(a) ==
    /\ a.rows \in [Ids -> Referral] /\ a.n \in 0 .. MaxReferrals
    /\ a.trail \notin Marks
    /\ \A j \in Ids :
           /\ a.rows[j].status = "Referred" => a.rows[j].answer = "Pending"
           /\ j > a.n => a.rows[j].status = "None"

LEMMA AppTyped ==
    ASSUME Inv, NEW m \in Maps
    PROVE  Typed(App(m))
BY DEF Inv, TypeOK, RowsAgree, RowAgrees, NewRows, App, Typed

LEMMA TopIsRow ==
    ASSUME NEW a, Typed(a)
    PROVE  a.n # 0 => (a.n \in Ids /\ a.n > 0 /\ Top(a) = a.rows[a.n] /\ Top(a) \in Referral)
BY ReferralAssumption DEF Typed, Ids, Top

LEMMA NothingStarts == \A S : ~Starts(<<>>, S)
BY DEF Starts

LEMMA NothingOwed == ~OwesStatus(<<>>)
BY NothingStarts DEF OwesStatus

\* A handler that stops before it has changed anything leaves the columns agreeing.
LEMMA Stopping ==
    ASSUME NEW a, NEW l, NEW i, NEW to, OpenOK(a, l, i), NEW i2, NEW to2,
           ~OwesStatus(l), ~Starts(l, {"REFERRED_TO_Q3", "CV_EXPIRED", "New"})
    PROVE  OpenOK(a, <<>>, i2) /\ (CalmOK(a, l, i, to) => CalmOK(a, <<>>, i2, to2))
<1>1. ~Starts(l, {"REFERRED_TO_Q3", "CV_EXPIRED"}) /\ ~Starts(l, {"CV_EXPIRED", "New"})
    BY DEF Starts
<1> QED
    BY <1>1, ListsOK, NothingStarts, NothingOwed DEF OpenOK, CalmOK

LEMMA Stopped ==
    ASSUME NEW a, NEW i, NEW to, NEW i2, NEW to2
    PROVE  /\ OpenOK(a, <<>>, i) => OpenOK(a, <<>>, i2)
           /\ CalmOK(a, <<>>, i, to) => CalmOK(a, <<>>, i2, to2)
BY NothingStarts, NothingOwed DEF OpenOK, CalmOK

\* Statements that answer, stamp or do not touch the referral.
SameRow(row, old) ==
    row.status = old.status /\ row.answer = old.answer /\ row.returnedByQ3 = old.returnedByQ3
AnsweredRow(row, old, j, n) ==
    /\ row.answer # "Pending" /\ row.returnedByQ3 = old.returnedByQ3
    /\ \/ row.status = old.status
       \/ row.status = "SentToCompany" /\ j = n
       \/ row.status = "Returned" /\ ~old.returnedByQ3

Answers == {"select", "answer", "reject", "markShortlisted", "round"}
LEMMA AnswerTails ==
    ASSUME NEW l, ListOK(l), Starts(l, Answers)
    PROVE  /\ Tail(l) # <<>> => Head(Tail(l)) \in {"markShortlisted", "REJECTED", "SHORTLISTED", "round", "INTERVIEW_R1"}
           /\ OwesStatus(l) => OwesStatus(Tail(l))
           /\ (Starts(l, {"reject", "answer", "markShortlisted"}) /\ ~OwesStatus(l)) =>
                  Tail(l) \in {<<>>, <<"markShortlisted">>}
           /\ ~Starts(l, {"reject", "answer", "markShortlisted"}) => OwesStatus(l)
<1>1. Head(l) \in Answers /\ Tail(l) \in After[Head(l)]
    BY DEF ListOK, Starts
<1>2. /\ "SHORTLISTED" \in MapStatus /\ "INTERVIEW_R1" \in MapStatus /\ "REJECTED" \in MapStatus
      /\ Answers \cap MapStatus = {}
    BY DEF MapStatus, Answers
<1>3. CASE Head(l) \in {"select", "round"}
  <2>1. Tail(l) # <<>> /\ Head(Tail(l)) \in {"markShortlisted", "INTERVIEW_R1"}
    <3>1. CASE Head(l) = "select"
      <4>1. Tail(l) = <<"markShortlisted", "round", "INTERVIEW_R1">>
          BY <1>1, <3>1, AfterIs
      <4> QED
          BY <4>1, Lists
    <3>2. CASE Head(l) = "round"
      <4>1. Tail(l) \in After["round"]
          BY <1>1, <3>2
      <4>2. \/ Tail(l) = <<"markShortlisted", "SHORTLISTED">>
            \/ Tail(l) = <<"INTERVIEW_R1">>
            \/ Tail(l) = <<"INTERVIEW_R1", "markShortlisted">>
          BY <4>1, AfterIs
      <4> QED
        <5>1. CASE Tail(l) = <<"markShortlisted", "SHORTLISTED">>
            BY <5>1, Lists
        <5>2. CASE Tail(l) = <<"INTERVIEW_R1">>
            BY <5>2, Lists
        <5>3. CASE Tail(l) = <<"INTERVIEW_R1", "markShortlisted">>
            BY <5>3, Lists
        <5> QED
            BY <4>2, <5>1, <5>2, <5>3
    <3> QED
        BY <1>3, <3>1, <3>2
  <2>2. OwesStatus(Tail(l))
    <3>1. CASE Head(Tail(l)) = "INTERVIEW_R1"
        BY <1>2, <2>1, <3>1 DEF OwesStatus, Starts
    <3>2. CASE Head(Tail(l)) = "markShortlisted"
      <4>1. Tail(Tail(l)) \in {<<"round", "INTERVIEW_R1">>, <<"SHORTLISTED">>}
        <5>1. Tail(l) \in After["select"] \union After["round"]
            BY <1>1, <1>3
        <5>2. Tail(l) \in {<<"markShortlisted", "round", "INTERVIEW_R1">>, <<"markShortlisted", "SHORTLISTED">>,
                            <<"INTERVIEW_R1">>, <<"INTERVIEW_R1", "markShortlisted">>}
            BY <5>1, AfterIs
        <5> QED
            BY <3>2, <5>2, Lists
      <4>2. Tail(Tail(l)) \notin {<<>>, <<"markShortlisted">>}
          BY <4>1, Lists
      <4> QED
          BY <2>1, <3>2, <4>2 DEF OwesStatus, Starts
    <3> QED
        BY <2>1, <3>1, <3>2
  <2>3. OwesStatus(l) /\ ~Starts(l, {"reject", "answer", "markShortlisted"})
      BY <1>3 DEF OwesStatus, Starts
  <2> QED
      BY <2>1, <2>2, <2>3
<1>4. CASE Head(l) \in {"answer", "reject", "markShortlisted"}
  <2>1. Tail(l) \in {<<"markShortlisted">>, <<"markShortlisted", "round", "INTERVIEW_R1">>, <<>>, <<"REJECTED">>,
                      <<"SHORTLISTED">>, <<"round", "INTERVIEW_R1">>}
    <3>1. Head(l) = "answer" \/ Head(l) = "reject" \/ Head(l) = "markShortlisted"
        BY <1>4
    <3>2. Tail(l) \in After["answer"] \/ Tail(l) \in After["reject"] \/ Tail(l) \in After["markShortlisted"]
        BY <1>1, <3>1
    <3>3. CASE Tail(l) \in After["answer"]
        BY <3>3, AfterIs
    <3>4. CASE Tail(l) \in After["reject"]
        BY <3>4, AfterIs
    <3>5. CASE Tail(l) \in After["markShortlisted"]
        BY <3>5, AfterIs
    <3> QED
        BY <3>2, <3>3, <3>4, <3>5
  <2>2. Tail(l) # <<>> => Head(Tail(l)) \in {"markShortlisted", "REJECTED", "SHORTLISTED", "round"}
    <3>1. CASE Tail(l) = <<"markShortlisted">>
        BY <3>1, Lists
    <3>2. CASE Tail(l) = <<"markShortlisted", "round", "INTERVIEW_R1">>
        BY <3>2, Lists
    <3>3. CASE Tail(l) = <<>>
        BY <3>3, Lists
    <3>4. CASE Tail(l) = <<"REJECTED">>
        BY <3>4, Lists
    <3>5. CASE Tail(l) = <<"SHORTLISTED">>
        BY <3>5, Lists
    <3>6. CASE Tail(l) = <<"round", "INTERVIEW_R1">>
        BY <3>6, Lists
    <3> QED
        BY <2>1, <3>1, <3>2, <3>3, <3>4, <3>5, <3>6
  <2>3. OwesStatus(l) <=> Tail(l) \notin {<<>>, <<"markShortlisted">>}
      BY <1>2, <1>4 DEF OwesStatus, Starts
  <2>4. ASSUME Tail(l) \notin {<<>>, <<"markShortlisted">>} PROVE OwesStatus(Tail(l))
    <3>1. CASE Tail(l) = <<"markShortlisted", "round", "INTERVIEW_R1">>
      <4>1. /\ Tail(l) # <<>> /\ Head(Tail(l)) = "markShortlisted"
            /\ Tail(Tail(l)) = <<"round", "INTERVIEW_R1">>
          BY <3>1, Lists
      <4>2. Tail(Tail(l)) \notin {<<>>, <<"markShortlisted">>}
          BY <4>1, Lists
      <4> QED
          BY <4>1, <4>2 DEF OwesStatus, Starts
    <3>2. CASE Tail(l) \in {<<"REJECTED">>, <<"SHORTLISTED">>, <<"round", "INTERVIEW_R1">>}
      <4>1. Tail(l) = <<"REJECTED">> \/ Tail(l) = <<"SHORTLISTED">> \/ Tail(l) = <<"round", "INTERVIEW_R1">>
          BY <3>2
      <4>2. Tail(l) # <<>> /\ Head(Tail(l)) \in {"REJECTED", "SHORTLISTED", "round"}
        <5>1. CASE Tail(l) = <<"REJECTED">>
            BY <5>1, Lists
        <5>2. CASE Tail(l) = <<"SHORTLISTED">>
            BY <5>2, Lists
        <5>3. CASE Tail(l) = <<"round", "INTERVIEW_R1">>
            BY <5>3, Lists
        <5> QED
            BY <4>1, <5>1, <5>2, <5>3
      <4> QED
          BY <1>2, <4>2 DEF OwesStatus, Starts
    <3> QED
        BY <2>1, <2>4, <3>1, <3>2
  <2> QED
      BY <1>4, <2>2, <2>3, <2>4 DEF Starts
<1> QED
    BY <1>1, <1>3, <1>4 DEF Answers

LEMMA AnswerAgrees ==
    ASSUME NEW a, Typed(a), NEW l, NEW i, NEW to, OpenOK(a, l, i), Starts(l, Answers),
           NEW a2, a2.n = a.n, a2.status = a.status, a2.trail = a.trail, a2.review = a.review,
           \A j \in Ids : SameRow(a2.rows[j], a.rows[j]) \/ AnsweredRow(a2.rows[j], a.rows[j], j, a.n)
    PROVE  OpenOK(a2, Tail(l), i) /\ (CalmOK(a, l, i, to) => CalmOK(a2, Tail(l), i, to))
<1>1. ListOK(l) /\ l # <<>> /\ ListOK(Tail(l))
    BY TailOK DEF OpenOK, Starts
<1>2. \A S : Starts(Tail(l), S) =>
          \E s \in S : s \in {"markShortlisted", "REJECTED", "SHORTLISTED", "round", "INTERVIEW_R1"}
    BY <1>1, AnswerTails DEF Starts
<1>3. /\ ~Starts(Tail(l), {"select", "history", "restore", "reopen"})
      /\ ~Starts(Tail(l), {"supersede", "create"})
      /\ ~Starts(Tail(l), {"claimForward", "claimReturn", "claimExpire"})
      /\ ~Starts(Tail(l), {"SENT_TO_COMPANY"}) /\ ~Starts(Tail(l), {"history"})
      /\ ~Starts(Tail(l), {"restore"}) /\ ~Starts(Tail(l), {"reopen"})
      /\ ~Starts(Tail(l), {"REFERRED_TO_Q3", "Forwarded"})
    BY <1>2
<1>4. OpenOK(a2, Tail(l), i)
    BY <1>1, <1>3 DEF OpenOK, SameRow, AnsweredRow, Out
<1>5. ASSUME CalmOK(a, l, i, to) PROVE CalmOK(a2, Tail(l), i, to)
  <2>1. Logged(a) => Logged(a2)
      BY TopIsRow DEF Logged, Top, SameRow, AnsweredRow, Typed
  <2>2. CameBack(a2) => CameBack(a)
      BY TopIsRow DEF CameBack, Top, SameRow, AnsweredRow, Typed
  <2>3. ~Starts(l, {"REFERRED_TO_Q3", "CV_EXPIRED"}) /\ ~Starts(l, {"CV_EXPIRED", "New"})
      BY DEF Starts, Answers
  <2>4. a.status = "SENT_TO_COMPANY" => OwesStatus(l)
      BY <1>1, <1>5, AnswerTails DEF CalmOK
  <2>5. a.status = "SENT_TO_COMPANY" => OwesStatus(Tail(l))
      BY <1>1, <2>4, AnswerTails
  <2> QED
      BY <1>3, <1>5, <2>1, <2>2, <2>3, <2>5 DEF CalmOK
<1> QED
    BY <1>4, <1>5

\* The lists that handlers begin with, on the referral they are about.
Beginnings == {"find", "NEED_MORE_INFO", "REJECTED", "SHORTLISTED", "SELECTED", "claimForward", "claimReturn",
               "claimExpire", "round", "select", "reject", "history", "answer", "markShortlisted"}
LEMMA BeginAgrees ==
    ASSUME NEW a, Typed(a), NEW j, NEW to, OpenOK(a, <<>>, j), NEW l, NEW i, NEW to2,
           ListOK(l), Starts(l, Beginnings),
           Starts(l, {"claimForward", "claimReturn", "claimExpire"}) => i \in Ids,
           Starts(l, {"select", "history"}) => i \in {0, a.n},
           Starts(l, {"history"}) => (i # 0 \/ a.n = 0 \/ Top(a).answer = "Pending"),
           Starts(l, {"reject", "answer", "markShortlisted"}) => OwesStatus(l)
    PROVE  OpenOK(a, l, i) /\ (CalmOK(a, <<>>, j, to) => CalmOK(a, l, i, to2))
<1>1. OpenOK(a, l, i)
    BY DEF OpenOK, Starts, Beginnings
<1>2. /\ ~Starts(l, {"restore"}) /\ ~Starts(l, {"reopen"}) /\ ~Starts(l, {"REFERRED_TO_Q3", "Forwarded"})
      /\ ~Starts(l, {"SENT_TO_COMPANY"})
    BY DEF Starts, Beginnings
<1> QED
    BY <1>1, <1>2, NothingStarts, NothingOwed DEF CalmOK

\* What follows a status, and what follows a decision of Q2.
LEMMA StatusTails ==
    ASSUME NEW l, ListOK(l), Starts(l, MapStatus \union ReviewStatus)
    PROVE  /\ Tail(l) # <<>> => Head(Tail(l)) \in {"Forwarded", "SentBackToQ1", "RejectedByQ2", "reject", "answer",
                                                   "markShortlisted", "New", "MAPPED"}
           /\ Starts(l, {"SENT_TO_COMPANY"}) => Tail(l) = <<>>
           /\ Starts(l, {"CV_EXPIRED"}) => Starts(Tail(l), {"New"})
           /\ Starts(l, ReviewStatus) => ~Starts(Tail(l), {"reject", "answer", "markShortlisted", "Forwarded"})
           /\ Starts(Tail(l), {"Forwarded"}) => Starts(l, {"REFERRED_TO_Q3"})
<1>1. Head(l) \in MapStatus \union ReviewStatus /\ l # <<>> /\ Head(l) \in DOMAIN After /\ Tail(l) \in After[Head(l)]
    BY DEF ListOK, Starts
<1>2. CASE Head(l) = "REFERRED_TO_Q3"
  <2>1. Tail(l) = <<>> \/ Tail(l) = <<"Forwarded">>
      BY <1>1, <1>2, AfterIs
  <2>2. Tail(l) = <<>> \/ (Tail(l) # <<>> /\ Head(Tail(l)) = "Forwarded")
      BY <2>1, Lists
  <2> QED
      BY <1>2, <2>2 DEF Starts, ReviewStatus
<1>3. CASE Head(l) = "REJECTED"
  <2>1. Tail(l) = <<>> \/ Tail(l) = <<"RejectedByQ2">> \/ Tail(l) = <<"reject">>
      BY <1>1, <1>3, AfterIs
  <2>2. Tail(l) = <<>> \/ (Tail(l) # <<>> /\ Head(Tail(l)) \in {"RejectedByQ2", "reject"})
    <3>1. CASE Tail(l) = <<"RejectedByQ2">>
        BY <3>1, Lists
    <3>2. CASE Tail(l) = <<"reject">>
        BY <3>2, Lists
    <3> QED
        BY <2>1, <3>1, <3>2
  <2> QED
      BY <1>3, <2>2 DEF Starts, ReviewStatus
<1>4. CASE Head(l) \in {"SHORTLISTED", "SELECTED"}
  <2>1. Tail(l) = <<>> \/ Tail(l) = <<"answer", "markShortlisted">>
      BY <1>1, <1>4, AfterIs
  <2>2. Tail(l) = <<>> \/ (Tail(l) # <<>> /\ Head(Tail(l)) = "answer")
      BY <2>1, Lists
  <2> QED
      BY <1>4, <2>2 DEF Starts, ReviewStatus
<1>5. CASE Head(l) = "INTERVIEW_R1"
  <2>1. Tail(l) = <<>> \/ Tail(l) = <<"markShortlisted">>
      BY <1>1, <1>5, AfterIs
  <2>2. Tail(l) = <<>> \/ (Tail(l) # <<>> /\ Head(Tail(l)) = "markShortlisted")
      BY <2>1, Lists
  <2> QED
      BY <1>5, <2>2 DEF Starts, ReviewStatus
<1>6. CASE Head(l) = "CV_EXPIRED"
  <2>1. Tail(l) = <<"New">>
      BY <1>1, <1>6, AfterIs
  <2>2. (Tail(l) # <<>> /\ Head(Tail(l)) = "New")
      BY <2>1, Lists
  <2> QED
      BY <1>6, <2>2 DEF Starts, ReviewStatus
<1>7. CASE Head(l) = "NEED_MORE_INFO"
  <2>1. Tail(l) = <<"SentBackToQ1">>
      BY <1>1, <1>7, AfterIs
  <2>2. (Tail(l) # <<>> /\ Head(Tail(l)) = "SentBackToQ1")
      BY <2>1, Lists
  <2> QED
      BY <1>7, <2>2 DEF Starts, ReviewStatus
<1>8. CASE Head(l) = "New"
  <2>1. Tail(l) = <<>> \/ Tail(l) = <<"MAPPED">>
      BY <1>1, <1>8, AfterIs
  <2>2. Tail(l) = <<>> \/ (Tail(l) # <<>> /\ Head(Tail(l)) = "MAPPED")
      BY <2>1, Lists
  <2> QED
      BY <1>8, <2>2 DEF Starts, ReviewStatus
<1>9. CASE Head(l) \in {"SENT_TO_COMPANY", "MAPPED", "Forwarded", "SentBackToQ1", "RejectedByQ2"}
  <2>1. Tail(l) = <<>>
      BY <1>1, <1>9, AfterIs
  <2> QED
      BY <1>9, <2>1 DEF Starts
<1> QED
    BY <1>1, <1>2, <1>3, <1>4, <1>5, <1>6, <1>7, <1>8, <1>9 DEF MapStatus, ReviewStatus

LEMMA StatusTailsStart ==
    ASSUME NEW l, ListOK(l), Starts(l, MapStatus \union ReviewStatus)
    PROVE  /\ ~Starts(Tail(l), {"select", "history", "restore", "reopen"})
           /\ ~Starts(Tail(l), {"supersede", "create"})
           /\ ~Starts(Tail(l), {"claimForward", "claimReturn", "claimExpire"})
           /\ ~Starts(Tail(l), {"SENT_TO_COMPANY"}) /\ ~Starts(Tail(l), {"history"})
           /\ ~Starts(Tail(l), {"restore"}) /\ ~Starts(Tail(l), {"reopen"})
           /\ ~Starts(Tail(l), {"REFERRED_TO_Q3", "CV_EXPIRED"})
           /\ Starts(Tail(l), {"REFERRED_TO_Q3", "Forwarded"}) => Starts(Tail(l), {"Forwarded"})
BY StatusTails DEF Starts

\* A status written: with its log row, the mark of a decision excepted.
LEMMA StatusAgrees ==
    ASSUME NEW a, Typed(a), NEW l, NEW i, NEW to, OpenOK(a, l, i), NEW s, Starts(l, {s}), s \in MapStatus,
           NEW a2, a2.status = s, a2.trail = IF s \in Marks THEN a.trail ELSE s,
           a2.review = a.review, a2.rows = a.rows, a2.n = a.n
    PROVE  OpenOK(a2, Tail(l), i) /\ (CalmOK(a, l, i, to) => CalmOK(a2, Tail(l), i, to))
<1>1. Starts(l, MapStatus \union ReviewStatus) /\ Head(l) = s /\ ListOK(l) /\ ListOK(Tail(l))
    BY TailOK DEF Starts, OpenOK
<1>2. OpenOK(a2, Tail(l), i)
    BY <1>1, StatusTailsStart DEF OpenOK, Top
<1>3. ASSUME CalmOK(a, l, i, to) PROVE CalmOK(a2, Tail(l), i, to)
  <2>1. (Awaiting(a2) <=> Awaiting(a)) /\ (Logged(a2) <=> Logged(a)) /\ (CameBack(a2) <=> CameBack(a))
      BY DEF Awaiting, Logged, CameBack, Top
  <2>2. s = "SENT_TO_COMPANY" => (Awaiting(a) /\ Tail(l) = <<>>)
      BY <1>1, <1>3, StatusTails DEF CalmOK, Starts
  <2>3. a2.trail = "SENT_TO_COMPANY" => Logged(a)
    <3>1. CASE s \in Marks
      <4>1. ~Starts(l, {"REFERRED_TO_Q3", "CV_EXPIRED"})
          BY <1>1, <3>1 DEF Starts, Marks
      <4> QED
          BY <1>3, <3>1, <4>1 DEF CalmOK
    <3>2. CASE s \notin Marks
        BY <2>2, <3>2 DEF Awaiting, Logged
    <3> QED
        BY <3>1, <3>2
  <2>4. a2.review = "Forwarded" => (~CameBack(a) \/ Starts(Tail(l), {"CV_EXPIRED", "New"}))
    <3>1. CASE s = "CV_EXPIRED"
      <4>1. Starts(Tail(l), {"New"})
          BY <1>1, <3>1, StatusTails DEF Starts
      <4> QED
          BY <4>1 DEF Starts
    <3>2. CASE s # "CV_EXPIRED"
      <4>1. ~Starts(l, {"CV_EXPIRED", "New"})
          BY <1>1, <3>2 DEF Starts, MapStatus
      <4> QED
          BY <1>3, <4>1 DEF CalmOK
    <3> QED
        BY <3>1, <3>2
  <2>5. Starts(Tail(l), {"Forwarded"}) => ~CameBack(a)
    <3>1. Starts(l, {"REFERRED_TO_Q3"}) => Starts(l, {"REFERRED_TO_Q3", "Forwarded"})
        BY DEF Starts
    <3> QED
        BY <1>1, <1>3, <3>1, StatusTails DEF CalmOK
  <2>6. Starts(Tail(l), {"reject", "answer", "markShortlisted"}) => a2.status # "SENT_TO_COMPANY"
      BY <2>2, NothingStarts
  <2> QED
      BY <1>1, <2>1, <2>2, <2>3, <2>4, <2>5, <2>6, StatusTailsStart DEF CalmOK
<1> QED
    BY <1>2, <1>3

\* Q2's row written.
LEMMA ReviewAgrees ==
    ASSUME NEW a, Typed(a), NEW l, NEW i, NEW to, OpenOK(a, l, i), NEW s, Starts(l, {s}), s \in ReviewStatus,
           NEW a2, a2.review = s, a2.status = a.status, a2.trail = a.trail, a2.rows = a.rows, a2.n = a.n
    PROVE  OpenOK(a2, Tail(l), i) /\ (CalmOK(a, l, i, to) => CalmOK(a2, Tail(l), i, to))
<1>1. Starts(l, MapStatus \union ReviewStatus) /\ Head(l) = s /\ ListOK(l) /\ ListOK(Tail(l)) /\ Starts(l, ReviewStatus)
    BY TailOK DEF Starts, OpenOK
<1>2. OpenOK(a2, Tail(l), i)
    BY <1>1, StatusTailsStart DEF OpenOK, Top
<1>3. ASSUME CalmOK(a, l, i, to) PROVE CalmOK(a2, Tail(l), i, to)
  <2>1. (Awaiting(a2) <=> Awaiting(a)) /\ (Logged(a2) <=> Logged(a)) /\ (CameBack(a2) <=> CameBack(a))
      BY DEF Awaiting, Logged, CameBack, Top
  <2>2. ~OwesStatus(l) /\ ~Starts(l, {"REFERRED_TO_Q3", "CV_EXPIRED"})
      BY <1>1 DEF OwesStatus, Starts, ReviewStatus, MapStatus
  <2>3. s = "Forwarded" => ~CameBack(a)
      BY <1>1, <1>3 DEF CalmOK, Starts
  <2>4. ~Starts(Tail(l), {"reject", "answer", "markShortlisted"}) /\ ~Starts(Tail(l), {"Forwarded"})
      BY <1>1, StatusTails DEF Starts
  <2> QED
      BY <1>1, <1>3, <2>1, <2>2, <2>3, <2>4, StatusTailsStart DEF CalmOK
<1> QED
    BY <1>2, <1>3

\* Undo: what was logged is restored, and the referral reopened if it was with the company.
LEMMA HistoryAgrees ==
    ASSUME NEW a, Typed(a), NEW l, NEW i, NEW to, OpenOK(a, l, i), Starts(l, {"history"}),
           NEW l2, l2 = IF a.trail = "SENT_TO_COMPANY" /\ i # 0 THEN <<"restore", "reopen">> ELSE <<"restore">>
    PROVE  OpenOK(a, l2, i) /\ (CalmOK(a, l, i, to) => CalmOK(a, l2, i, a.trail))
<1>1. l2 = <<"restore", "reopen">> \/ l2 = <<"restore">>
    OBVIOUS
<1>2. ListOK(l2) /\ l2 # <<>> /\ Head(l2) = "restore" /\ (l2 = <<"restore">> => Tail(l2) = <<>>)
          /\ (l2 = <<"restore", "reopen">> => Tail(l2) = <<"reopen">>)
  <2>1. CASE l2 = <<"restore", "reopen">>
    <3>1. l2 # <<>> /\ Head(l2) = "restore" /\ Tail(l2) = <<"reopen">>
        BY <2>1, Lists
    <3>2. l2 # <<"restore">>
        BY <3>1, Lists
    <3>3. ListOK(l2)
        BY <2>1, ListsOK
    <3> QED
        BY <3>1, <3>2, <3>3
  <2>2. CASE l2 = <<"restore">>
      BY <2>2, Lists, ListsOK
  <2> QED
      BY <1>1, <2>1, <2>2
<1>3. <<"reopen">> # <<>>
    OBVIOUS
<1> HIDE <1>1
<1>4. OpenOK(a, l2, i)
    BY <1>2 DEF OpenOK, Starts
<1>5. ASSUME CalmOK(a, l, i, to) PROVE CalmOK(a, l2, i, a.trail)
  <2>1. a.trail = "SENT_TO_COMPANY" => Logged(a)
      BY <1>5 DEF CalmOK, Starts
  <2>2. (a.trail = "SENT_TO_COMPANY" /\ i = 0) => Awaiting(a)
      BY <1>5, <2>1 DEF CalmOK, Starts, Logged, Awaiting
  <2>3. OwesStatus(l2)
      BY <1>2 DEF OwesStatus, Starts
  <2>4. a.review = "Forwarded" => ~CameBack(a)
      BY <1>5 DEF CalmOK, Starts
  <2>5. (a.trail = "SENT_TO_COMPANY" /\ i # 0) <=> Tail(l2) = <<"reopen">>
      BY <1>2, <1>3
  <2> QED
      BY <1>2, <2>1, <2>2, <2>3, <2>4, <2>5 DEF CalmOK, Starts
<1> QED
    BY <1>4, <1>5

LEMMA RestoreAgrees ==
    ASSUME NEW a, Typed(a), NEW l, NEW i, NEW to, OpenOK(a, l, i), Starts(l, {"restore"}),
           NEW a2, a2.status = to, a2.trail = IF to \in Marks THEN a.trail ELSE to,
           a2.review = a.review, a2.rows = a.rows, a2.n = a.n
    PROVE  OpenOK(a2, Tail(l), i) /\ (CalmOK(a, l, i, to) => CalmOK(a2, Tail(l), i, to))
<1>1. ListOK(Tail(l)) /\ (Tail(l) = <<>> \/ Tail(l) = <<"reopen">>)
    BY TailOK, AfterIs DEF OpenOK, Starts, ListOK
<1>2. Tail(l) # <<>> => (Head(Tail(l)) = "reopen" /\ Tail(l) = <<"reopen">>)
    BY <1>1, Lists
<1>3. OpenOK(a2, Tail(l), i)
    BY <1>1, <1>2 DEF OpenOK, Starts, Top
<1>4. ASSUME CalmOK(a, l, i, to) PROVE CalmOK(a2, Tail(l), i, to)
  <2>1. (Awaiting(a2) <=> Awaiting(a)) /\ (Logged(a2) <=> Logged(a)) /\ (CameBack(a2) <=> CameBack(a))
      BY DEF Awaiting, Logged, CameBack, Top
  <2>2. to = a.trail /\ a2.trail = a.trail
      BY <1>4 DEF CalmOK, Typed
  <2>3. /\ a.trail = "SENT_TO_COMPANY" => Logged(a)
        /\ a.review = "Forwarded" => ~CameBack(a)
      BY <1>4 DEF CalmOK, Starts
  <2>4. to = "SENT_TO_COMPANY" => (Awaiting(a) \/ OwesStatus(Tail(l)))
    <3>1. Tail(l) = <<"reopen">> => OwesStatus(Tail(l))
      <4>1. <<"reopen">> # <<>> /\ Head(<<"reopen">>) = "reopen"
          OBVIOUS
      <4> QED
          BY <4>1 DEF OwesStatus, Starts
    <3> QED
        BY <1>4, <3>1 DEF CalmOK
  <2>5. Starts(Tail(l), {"reopen"}) => i # 0
      BY <1>2, <1>4 DEF CalmOK, Starts
  <2> QED
      BY <1>2, <2>1, <2>2, <2>3, <2>4, <2>5 DEF CalmOK, Starts
<1> QED
    BY <1>3, <1>4

LEMMA ReopenAgrees ==
    ASSUME NEW a, Typed(a), NEW l, NEW i, NEW to, OpenOK(a, l, i), Starts(l, {"reopen"}),
           NEW a2, a2.status = a.status, a2.trail = a.trail, a2.review = a.review, a2.n = a.n,
           \A j \in Ids : IF j = i THEN a2.rows[j].status = "SentToCompany" /\ a2.rows[j].answer = "Pending"
                                   ELSE a2.rows[j] = a.rows[j]
    PROVE  OpenOK(a2, Tail(l), i) /\ (CalmOK(a, l, i, to) => CalmOK(a2, Tail(l), i, to))
<1>0. Tail(l) \in After["reopen"]
    BY DEF OpenOK, Starts, ListOK
<1>1. Tail(l) = <<>>
    BY <1>0, AfterIs
<1>2. i = 0 \/ i = a.n
    BY DEF OpenOK, Starts
<1>3. a.n # 0 => a.n \in Ids
    BY TopIsRow
<1>4. OpenOK(a2, Tail(l), i)
  <2>1. \A j \in Ids : a2.rows[j].status \in Out => j = a2.n
    <3> SUFFICES ASSUME NEW j \in Ids, a2.rows[j].status \in Out PROVE j = a2.n
        OBVIOUS
    <3>1. CASE j = i
        BY <1>2, <3>1 DEF Ids
    <3>2. CASE j # i
        BY <3>2 DEF OpenOK
    <3> QED
        BY <3>1, <3>2
  <2> QED
      BY <1>1, <2>1, ListsOK, NothingStarts DEF OpenOK
<1>5. ASSUME CalmOK(a, l, i, to) PROVE CalmOK(a2, Tail(l), i, to)
  <2>1. i # 0
      BY <1>5 DEF CalmOK, Starts
  <2>2. i = a.n /\ a.n > 0 /\ i \in Ids
      BY <1>2, <2>1, TopIsRow
  <2>3. Awaiting(a2) /\ Logged(a2) /\ ~CameBack(a2)
      BY <2>2 DEF Awaiting, Logged, CameBack, Top
  <2> QED
      BY <1>1, <2>3, NothingStarts DEF CalmOK
<1> QED
    BY <1>4, <1>5

\* referToQ3: a search that goes on found no referral, or one that came back.
LEMMA FindAgrees ==
    ASSUME NEW a, Typed(a), NEW l, NEW i, NEW to, OpenOK(a, l, i), Starts(l, {"find"}),
           NEW l2, NEW i2,
           \/ a.n = 0 /\ l2 = Tail(Tail(l))
           \/ a.n > 0 /\ Top(a).status \in {"Returned", "Expired"} /\ l2 = Tail(l)
           \/ a.n > 0 /\ Top(a).status \notin {"Returned", "Expired"} /\ l2 = Tail(Tail(Tail(Tail(l))))
    PROVE  OpenOK(a, l2, i2) /\ (CalmOK(a, l, i, to) => CalmOK(a, l2, i2, to))
<1>1. ListOK(l) /\ Tail(l) \in After["find"]
    BY DEF OpenOK, Starts, ListOK
<1>2. \/ Tail(l) = <<"supersede", "create", "REFERRED_TO_Q3">>
      \/ Tail(l) = <<"supersede", "create", "REFERRED_TO_Q3", "Forwarded">>
    BY <1>1, AfterIs
<1>3. ListOK(l2) /\ (l2 = <<>> \/ Starts(l2, {"supersede", "create"}) \/
                     (Starts(l2, {"Forwarded"}) /\ a.n > 0 /\ Top(a).status \notin {"Returned", "Expired"}))
          /\ (Starts(l2, {"supersede", "create"}) => (a.n = 0 \/ Top(a).status \in {"Returned", "Expired"}))
  <2>1. CASE Tail(l) = <<"supersede", "create", "REFERRED_TO_Q3">>
    <3>0. /\ Tail(<<"supersede", "create", "REFERRED_TO_Q3">>) = <<"create", "REFERRED_TO_Q3">>
          /\ Tail(<<"create", "REFERRED_TO_Q3">>) = <<"REFERRED_TO_Q3">>
          /\ Tail(<<"REFERRED_TO_Q3">>) = <<>>
        OBVIOUS
    <3>1. Tail(Tail(l)) = <<"create", "REFERRED_TO_Q3">> /\ Tail(Tail(Tail(Tail(l)))) = <<>>
        BY <2>1, <3>0
    <3>2. \/ a.n = 0 /\ l2 = <<"create", "REFERRED_TO_Q3">>
          \/ a.n > 0 /\ Top(a).status \in {"Returned", "Expired"} /\ l2 = <<"supersede", "create", "REFERRED_TO_Q3">>
          \/ l2 = <<>>
        BY <2>1, <3>1
    <3>3. CASE l2 = <<"create", "REFERRED_TO_Q3">> /\ a.n = 0
        BY <3>3, Lists, ListsOK DEF Starts
    <3>4. CASE /\ a.n > 0 /\ Top(a).status \in {"Returned", "Expired"}
               /\ l2 = <<"supersede", "create", "REFERRED_TO_Q3">>
        BY <3>4, Lists, ListsOK DEF Starts
    <3>5. CASE l2 = <<>>
        BY <3>5, ListsOK DEF Starts
    <3> QED
        BY <3>2, <3>3, <3>4, <3>5
  <2>2. CASE Tail(l) = <<"supersede", "create", "REFERRED_TO_Q3", "Forwarded">>
    <3>0. /\ Tail(<<"supersede", "create", "REFERRED_TO_Q3", "Forwarded">>) =
                 <<"create", "REFERRED_TO_Q3", "Forwarded">>
          /\ Tail(<<"create", "REFERRED_TO_Q3", "Forwarded">>) = <<"REFERRED_TO_Q3", "Forwarded">>
          /\ Tail(<<"REFERRED_TO_Q3", "Forwarded">>) = <<"Forwarded">>
        OBVIOUS
    <3>1. Tail(Tail(l)) = <<"create", "REFERRED_TO_Q3", "Forwarded">> /\ Tail(Tail(Tail(Tail(l)))) = <<"Forwarded">>
        BY <2>2, <3>0
    <3>2. \/ a.n = 0 /\ l2 = <<"create", "REFERRED_TO_Q3", "Forwarded">>
          \/ /\ a.n > 0 /\ Top(a).status \in {"Returned", "Expired"}
             /\ l2 = <<"supersede", "create", "REFERRED_TO_Q3", "Forwarded">>
          \/ a.n > 0 /\ Top(a).status \notin {"Returned", "Expired"} /\ l2 = <<"Forwarded">>
        BY <2>2, <3>1
    <3>3. CASE l2 = <<"create", "REFERRED_TO_Q3", "Forwarded">> /\ a.n = 0
        BY <3>3, Lists, ListsOK DEF Starts
    <3>4. CASE /\ a.n > 0 /\ Top(a).status \in {"Returned", "Expired"}
               /\ l2 = <<"supersede", "create", "REFERRED_TO_Q3", "Forwarded">>
        BY <3>4, Lists, ListsOK DEF Starts
    <3>5. CASE a.n > 0 /\ Top(a).status \notin {"Returned", "Expired"} /\ l2 = <<"Forwarded">>
        BY <3>5, Lists, ListsOK DEF Starts
    <3> QED
        BY <3>2, <3>3, <3>4, <3>5
  <2> QED
      BY <1>2, <2>1, <2>2
<1>4. OpenOK(a, l2, i2)
    BY <1>3 DEF OpenOK, Starts, Out
<1>5. ASSUME CalmOK(a, l, i, to) PROVE CalmOK(a, l2, i2, to)
  <2>1. ~OwesStatus(l)
      BY DEF OwesStatus, Starts, MapStatus
  <2>2. Starts(l2, {"REFERRED_TO_Q3", "Forwarded"}) => ~CameBack(a)
      BY <1>3 DEF Starts, CameBack
  <2>3. /\ ~Starts(l2, {"SENT_TO_COMPANY"}) /\ ~Starts(l2, {"history"}) /\ ~Starts(l2, {"restore"})
        /\ ~Starts(l2, {"reopen"}) /\ ~Starts(l2, {"reject", "answer", "markShortlisted"})
      BY <1>3 DEF Starts
  <2>4. ~Starts(l, {"REFERRED_TO_Q3", "CV_EXPIRED"}) /\ ~Starts(l, {"CV_EXPIRED", "New"})
      BY DEF Starts
  <2> QED
      BY <1>5, <2>1, <2>2, <2>3, <2>4 DEF CalmOK
<1> QED
    BY <1>4, <1>5

\* The referral that came back is superseded: no column of its state changes.
LEMMA SupersedeAgrees ==
    ASSUME NEW a, Typed(a), NEW l, NEW i, NEW to, OpenOK(a, l, i), Starts(l, {"supersede"}),
           NEW a2, a2.status = a.status, a2.trail = a.trail, a2.review = a.review, a2.n = a.n,
           \A j \in Ids : SameRow(a2.rows[j], a.rows[j])
    PROVE  OpenOK(a2, Tail(l), i) /\ (CalmOK(a, l, i, to) => CalmOK(a2, Tail(l), i, to))
<1>1. ListOK(l) /\ ListOK(Tail(l)) /\ Tail(l) \in After["supersede"]
    BY TailOK DEF OpenOK, Starts, ListOK
<1>2. Tail(l) = <<"create", "REFERRED_TO_Q3">> \/ Tail(l) = <<"create", "REFERRED_TO_Q3", "Forwarded">>
    BY <1>1, AfterIs
<1>3. Tail(l) # <<>> /\ Head(Tail(l)) = "create"
  <2>1. /\ <<"create", "REFERRED_TO_Q3">> # <<>> /\ Head(<<"create", "REFERRED_TO_Q3">>) = "create"
        /\ <<"create", "REFERRED_TO_Q3", "Forwarded">> # <<>> /\ Head(<<"create", "REFERRED_TO_Q3", "Forwarded">>) = "create"
      BY Lists
  <2> QED
      BY <1>2, <2>1
<1>4. a.n # 0 => SameRow(Top(a2), Top(a))
    BY TopIsRow DEF Top
<1>5. a.n = 0 \/ Top(a).status \notin Out
    BY DEF OpenOK, Starts
<1>6. OpenOK(a2, Tail(l), i)
    BY <1>1, <1>3, <1>4, <1>5 DEF OpenOK, Starts, SameRow
<1>7. ASSUME CalmOK(a, l, i, to) PROVE CalmOK(a2, Tail(l), i, to)
  <2>1. OwesStatus(Tail(l))
      BY <1>3 DEF OwesStatus, Starts
  <2>2. (Logged(a2) <=> Logged(a)) /\ (CameBack(a2) <=> CameBack(a))
      BY <1>4 DEF Logged, CameBack, SameRow
  <2>3. ~Starts(l, {"REFERRED_TO_Q3", "CV_EXPIRED"}) /\ ~Starts(l, {"CV_EXPIRED", "New"})
      BY DEF Starts
  <2>4. /\ ~Starts(Tail(l), {"SENT_TO_COMPANY"}) /\ ~Starts(Tail(l), {"history"}) /\ ~Starts(Tail(l), {"restore"})
        /\ ~Starts(Tail(l), {"reopen"}) /\ ~Starts(Tail(l), {"reject", "answer", "markShortlisted"})
        /\ ~Starts(Tail(l), {"REFERRED_TO_Q3", "Forwarded"})
      BY <1>3 DEF Starts
  <2> QED
      BY <1>7, <2>1, <2>2, <2>3, <2>4 DEF CalmOK
<1> QED
    BY <1>6, <1>7

\* A new referral: nothing else is out, and its status is written next.
LEMMA CreateAgrees ==
    ASSUME NEW a, Typed(a), NEW l, NEW i, NEW to, OpenOK(a, l, i), Starts(l, {"create"}),
           NEW a2, a2.status = a.status, a2.trail = a.trail, a2.review = a.review,
           a2.n = a.n + 1, a.n < MaxReferrals,
           a2.rows[a2.n].status = "Referred",
           \A j \in Ids : j # a2.n => a2.rows[j] = a.rows[j]
    PROVE  OpenOK(a2, Tail(l), i) /\ (CalmOK(a, l, i, to) => CalmOK(a2, Tail(l), i, to))
<1>1. ListOK(l) /\ ListOK(Tail(l)) /\ Tail(l) \in After["create"]
    BY TailOK DEF OpenOK, Starts, ListOK
<1>2. Tail(l) = <<"REFERRED_TO_Q3">> \/ Tail(l) = <<"REFERRED_TO_Q3", "Forwarded">>
    BY <1>1, AfterIs
<1>3. Tail(l) # <<>> /\ Head(Tail(l)) = "REFERRED_TO_Q3"
  <2>1. /\ <<"REFERRED_TO_Q3">> # <<>> /\ Head(<<"REFERRED_TO_Q3">>) = "REFERRED_TO_Q3"
        /\ <<"REFERRED_TO_Q3", "Forwarded">> # <<>> /\ Head(<<"REFERRED_TO_Q3", "Forwarded">>) = "REFERRED_TO_Q3"
      BY Lists
  <2> QED
      BY <1>2, <2>1
<1>4. a.n = 0 \/ Top(a).status \notin Out
    BY DEF OpenOK, Starts
<1>5. \A j \in Ids : a2.rows[j].status \in Out => j = a2.n
  <2> SUFFICES ASSUME NEW j \in Ids, a2.rows[j].status \in Out, j # a2.n PROVE FALSE
      OBVIOUS
  <2>1. a.rows[j].status \in Out /\ j = a.n
      BY DEF OpenOK
  <2> QED
      BY <1>4, <2>1 DEF Top, Ids
<1>6. OpenOK(a2, Tail(l), i)
    BY <1>1, <1>3, <1>5 DEF OpenOK, Starts
<1>7. ASSUME CalmOK(a, l, i, to) PROVE CalmOK(a2, Tail(l), i, to)
  <2>1. OwesStatus(Tail(l))
      BY <1>3 DEF OwesStatus, Starts, MapStatus
  <2>2. ~CameBack(a2)
      BY DEF CameBack, Top
  <2>3. Starts(Tail(l), {"REFERRED_TO_Q3", "CV_EXPIRED"})
      BY <1>3 DEF Starts
  <2>4. /\ ~Starts(Tail(l), {"SENT_TO_COMPANY"}) /\ ~Starts(Tail(l), {"history"}) /\ ~Starts(Tail(l), {"restore"})
        /\ ~Starts(Tail(l), {"reopen"}) /\ ~Starts(Tail(l), {"reject", "answer", "markShortlisted"})
      BY <1>3 DEF Starts
  <2> QED
      BY <1>7, <2>1, <2>2, <2>3, <2>4 DEF CalmOK
<1> QED
    BY <1>6, <1>7

\* Q3's claims find the newest referral still with Q3.
LEMMA Q3ClaimAgrees ==
    ASSUME NEW a, Typed(a), NEW l, NEW i, NEW to, OpenOK(a, l, i), Starts(l, {"claimForward", "claimReturn"}),
           a.rows[i].status = "Referred",
           NEW a2, a2.status = a.status, a2.trail = a.trail, a2.review = a.review, a2.n = a.n,
           a2.rows[i].answer = a.rows[i].answer,
           Starts(l, {"claimForward"}) => a2.rows[i].status = "SentToCompany",
           Starts(l, {"claimReturn"}) => a2.rows[i].status = "Returned",
           \A j \in Ids : j # i => a2.rows[j] = a.rows[j]
    PROVE  OpenOK(a2, Tail(l), i) /\ (CalmOK(a, l, i, to) => CalmOK(a2, Tail(l), i, to))
<1>1. ListOK(l) /\ ListOK(Tail(l)) /\ Tail(l) \in After[Head(l)]
    BY TailOK DEF OpenOK, Starts, ListOK
<1>2. i \in Ids /\ i = a.n /\ a.rows[i].answer = "Pending" /\ a.n > 0 /\ Top(a) = a.rows[i] /\ Top(a2) = a2.rows[i]
    BY DEF OpenOK, Starts, Out, Typed, Ids, Top
<1>3. ~Logged(a) /\ ~Awaiting(a)
    BY <1>2 DEF Logged, Awaiting
<1>4. /\ Starts(l, {"claimForward"}) => (Tail(l) # <<>> /\ Head(Tail(l)) = "SENT_TO_COMPANY")
      /\ Starts(l, {"claimReturn"}) => (Tail(l) # <<>> /\ Head(Tail(l)) = "New")
  <2>1. CASE Head(l) = "claimForward"
    <3>1. Tail(l) = <<"SENT_TO_COMPANY">>
        BY <1>1, <2>1, AfterIs
    <3>2. Tail(l) # <<>> /\ Head(Tail(l)) = "SENT_TO_COMPANY"
        BY <3>1, Lists
    <3> QED
        BY <2>1, <3>2 DEF Starts
  <2>2. CASE Head(l) = "claimReturn"
    <3>1. Tail(l) = <<"New", "MAPPED">>
        BY <1>1, <2>2, AfterIs
    <3>2. Tail(l) # <<>> /\ Head(Tail(l)) = "New"
        BY <3>1, Lists
    <3> QED
        BY <2>2, <3>2 DEF Starts
  <2> QED
      BY <2>1, <2>2 DEF Starts
<1>5. Tail(l) # <<>> /\ Head(Tail(l)) \in {"SENT_TO_COMPANY", "New"}
    BY <1>4 DEF Starts
<1>6. OpenOK(a2, Tail(l), i)
  <2>1. \A j \in Ids : a2.rows[j].status \in Out => j = a2.n
      BY <1>2 DEF OpenOK
  <2> QED
      BY <1>1, <1>5, <2>1 DEF OpenOK, Starts
<1>7. ASSUME CalmOK(a, l, i, to) PROVE CalmOK(a2, Tail(l), i, to)
  <2>1. a.status # "SENT_TO_COMPANY" /\ a.trail # "SENT_TO_COMPANY"
      BY <1>3, <1>7 DEF CalmOK, OwesStatus, Starts, MapStatus
  <2>2. CASE Starts(l, {"claimForward"})
    <3>1. Awaiting(a2) /\ ~CameBack(a2)
        BY <1>2, <2>2 DEF Awaiting, CameBack
    <3> QED
        BY <1>4, <2>1, <2>2, <3>1 DEF CalmOK, Starts
  <2>3. CASE Starts(l, {"claimReturn"})
      BY <1>4, <2>1, <2>3 DEF CalmOK, Starts
  <2> QED
      BY <2>2, <2>3 DEF Starts
<1> QED
    BY <1>6, <1>7

\* The job's claim: the status and Q2's row follow.
LEMMA ExpireAgrees ==
    ASSUME NEW a, Typed(a), NEW l, NEW i, NEW to, OpenOK(a, l, i), Starts(l, {"claimExpire"}),
           NEW a2, a2.status = a.status, a2.trail = a.trail, a2.review = a.review, a2.n = a.n,
           a2.rows[i].status = "Expired",
           \A j \in Ids : j # i => a2.rows[j] = a.rows[j]
    PROVE  OpenOK(a2, Tail(l), i) /\ (CalmOK(a, l, i, to) => CalmOK(a2, Tail(l), i, to))
<1>1. ListOK(l) /\ ListOK(Tail(l)) /\ Tail(l) \in After["claimExpire"]
    BY TailOK DEF OpenOK, Starts, ListOK
<1>2. Tail(l) = <<"CV_EXPIRED", "New">>
    BY <1>1, AfterIs
<1>3. Tail(l) # <<>> /\ Head(Tail(l)) = "CV_EXPIRED"
    BY <1>2, Lists
<1>4. OpenOK(a2, Tail(l), i)
  <2>1. \A j \in Ids : a2.rows[j].status \in Out => j = a2.n
      BY DEF OpenOK, Out
  <2> QED
      BY <1>1, <1>3, <2>1 DEF OpenOK, Starts
<1>5. CalmOK(a2, Tail(l), i, to)
  <2>1. OwesStatus(Tail(l))
      BY <1>3 DEF OwesStatus, Starts, MapStatus
  <2> QED
      BY <1>3, <2>1 DEF CalmOK, Starts
<1> QED
    BY <1>4, <1>5

-----------------------------------------------------------------------------
\* The statement that runs belongs to the one handler that does.
LEMMA Running ==
    ASSUME SerialInv, NEW w \in Workers, Busy(w)
    PROVE  Alone(w) /\ Agree(w)
BY DEF SerialInv, Alone

\* The columns other applications have are not touched by a step on m.
OthersKept(m) == \A n \in Maps : n # m => App(n)' = App(n)

LEMMA AloneStep ==
    ASSUME Inv, NEW w \in Workers, Alone(w), Agree(w), NEW x, task' = [task EXCEPT ![w] = x],
           NEW m \in Maps, x.map = m, task[w].map = m, UNCHANGED <<stale, crashes>>, OthersKept(m),
           NEW a2, a2 = App(m)', OpenOK(a2, x.todo, x.ref),
           CalmOK(App(m), task[w].todo, task[w].ref, task[w].to) => CalmOK(a2, x.todo, x.ref, x.to)
    PROVE  SerialInv'
<1>1. task'[w] = x /\ \A v \in Workers : v # w => task'[v] = task[v]
    BY DEF Inv, TypeOK
<1>2. Alone(w)'
    BY <1>1 DEF Alone, Busy
<1>3. Agree(w)'
  <2> SUFFICES ASSUME NEW n \in Maps
               PROVE  /\ OpenOK(App(n)', ListOn(w, n)', x.ref)
                      /\ crashes = 0 => CalmOK(App(n)', ListOn(w, n)', x.ref, x.to)
      BY <1>1 DEF Agree
  <2>0. /\ OpenOK(App(n), ListOn(w, n), task[w].ref)
        /\ crashes = 0 => CalmOK(App(n), ListOn(w, n), task[w].ref, task[w].to)
      BY DEF Agree
  <2>1. CASE n = m
    <3>1. ListOn(w, n) = task[w].todo /\ ListOn(w, n)' = x.todo
        BY <1>1, <2>1 DEF ListOn
    <3> QED
        BY <2>0, <2>1, <3>1
  <2>2. CASE n # m
    <3>1. ListOn(w, n) = <<>> /\ ListOn(w, n)' = <<>> /\ App(n)' = App(n)
        BY <1>1, <2>2 DEF ListOn, OthersKept
    <3> QED
        BY <2>0, <3>1, Stopped
  <2> QED
      BY <2>1, <2>2
<1> QED
    BY <1>2, <1>3 DEF SerialInv

LEMMA AloneContinue ==
    ASSUME Inv, NEW w \in Workers, Alone(w), Agree(w), Continue(w),
           NEW m \in Maps, task[w].map = m, UNCHANGED <<stale, crashes>>, OthersKept(m),
           NEW a2, a2 = App(m)', OpenOK(a2, Tail(task[w].todo), task[w].ref),
           CalmOK(App(m), task[w].todo, task[w].ref, task[w].to) =>
               CalmOK(a2, Tail(task[w].todo), task[w].ref, task[w].to)
    PROVE  SerialInv'
<1> DEFINE l == Tail(task[w].todo)
           x == IF l = <<>> THEN Idle(m) ELSE [task[w] EXCEPT !.todo = l]
<1>1. task' = [task EXCEPT ![w] = x]
    BY DEF Continue, Goto
<1>2. task[w] \in Task
    BY DEF Inv, TypeOK
<1>3. CASE l = <<>>
  <2>1. x.todo = l /\ x.map = m
      BY <1>3 DEF Idle
  <2> HIDE DEF x, l
  <2>2. OpenOK(a2, x.todo, x.ref)
    <3>1. OpenOK(a2, <<>>, task[w].ref)
        BY <1>3 DEF l
    <3>2. OpenOK(a2, <<>>, x.ref)
        BY <3>1, Stopped
    <3> QED
        BY <1>3, <2>1, <3>2
  <2>3. CalmOK(a2, l, task[w].ref, task[w].to) => CalmOK(a2, x.todo, x.ref, x.to)
    <3>1. CalmOK(a2, <<>>, task[w].ref, task[w].to) => CalmOK(a2, <<>>, x.ref, x.to)
        BY Stopped
    <3> QED
        BY <1>3, <2>1, <3>1
  <2> QED
      BY <1>1, <2>1, <2>2, <2>3, AloneStep DEF l
<1>4. CASE l # <<>>
  <2> HIDE DEF l
  <2>1. x.todo = l /\ x.map = m /\ x.ref = task[w].ref /\ x.to = task[w].to
      BY <1>2, <1>4 DEF Task
  <2> HIDE DEF x
  <2> QED
      BY <1>1, <2>1, AloneStep DEF l
<1> QED
    BY <1>3, <1>4

\* A claim that matches no row: the handler stops.
LEMMA AloneStops ==
    ASSUME Inv, NEW w \in Workers, Alone(w), Agree(w), Goto(w, <<>>),
           Starts(task[w].todo, {"claimForward", "claimReturn", "claimExpire"}),
           UNCHANGED <<mapStatus, trail, review, refs, nrefs, stale, crashes>>
    PROVE  SerialInv'
<1> PICK m \in Maps : m = task[w].map
    BY TaskType DEF Inv
<1>1. task' = [task EXCEPT ![w] = Idle(m)]
    BY DEF Goto
<1>2. App(m)' = App(m) /\ OthersKept(m)
    BY DEF App, OthersKept
<1>3. OpenOK(App(m), task[w].todo, task[w].ref)
    BY DEF Agree, ListOn
<1>4. /\ ~OwesStatus(task[w].todo)
      /\ ~Starts(task[w].todo, {"REFERRED_TO_Q3", "CV_EXPIRED", "New"})
    BY DEF OwesStatus, Starts, MapStatus
<1> DEFINE x == Idle(m)
<1>5. x.map = m /\ x.todo = <<>>
    BY DEF Idle
<1> HIDE DEF x
<1>5a. /\ OpenOK(App(m), <<>>, x.ref)
       /\ CalmOK(App(m), task[w].todo, task[w].ref, task[w].to) => CalmOK(App(m), <<>>, x.ref, x.to)
    BY <1>3, <1>4, Stopping
<1>6. /\ OpenOK(App(m), x.todo, x.ref)
      /\ CalmOK(App(m), task[w].todo, task[w].ref, task[w].to) => CalmOK(App(m), x.todo, x.ref, x.to)
    BY <1>5, <1>5a
<1> QED
    BY <1>1, <1>2, <1>5, <1>6, AloneStep DEF x

\* A handler begins where nothing runs; the job's next row begins within the job.
LEMMA AloneBegins ==
    ASSUME Inv, NEW w \in Workers, Alone(w), Agree(w), task[w].todo = <<>>, NEW x, task' = [task EXCEPT ![w] = x],
           NEW m \in Maps, x.map = m, stale' \subseteq stale,
           UNCHANGED <<mapStatus, trail, review, refs, nrefs, crashes>>,
           OpenOK(App(m), x.todo, x.ref),
           CalmOK(App(m), <<>>, task[w].ref, task[w].to) => CalmOK(App(m), x.todo, x.ref, x.to)
    PROVE  SerialInv'
<1>1. task'[w] = x /\ \A v \in Workers : v # w => task'[v] = task[v]
    BY DEF Inv, TypeOK
<1>2. Alone(w)'
    BY <1>1 DEF Alone, Busy
<1>3. Agree(w)'
  <2> SUFFICES ASSUME NEW n \in Maps
               PROVE  /\ OpenOK(App(n)', ListOn(w, n)', x.ref)
                      /\ crashes = 0 => CalmOK(App(n)', ListOn(w, n)', x.ref, x.to)
      BY <1>1 DEF Agree
  <2>0. /\ OpenOK(App(n), <<>>, task[w].ref)
        /\ crashes = 0 => CalmOK(App(n), <<>>, task[w].ref, task[w].to)
        /\ App(n)' = App(n)
      BY DEF Agree, ListOn, App
  <2>1. CASE n = m
    <3>1. ListOn(w, n)' = x.todo
        BY <1>1, <2>1 DEF ListOn
    <3> QED
        BY <2>0, <2>1, <3>1
  <2>2. CASE n # m
    <3>1. ListOn(w, n)' = <<>>
        BY <1>1, <2>2 DEF ListOn
    <3> QED
        BY <2>0, <3>1, Stopped
  <2> QED
      BY <2>1, <2>2
<1> QED
    BY <1>2, <1>3 DEF SerialInv

\* A write by key of the target row, seen from its application.
LEMMA RowSeen ==
    ASSUME Inv, NEW w \in Workers, NEW row, SetRef(w, row), UNCHANGED <<mapStatus, trail, review, nrefs>>,
           NEW m \in Maps, m = task[w].map
    PROVE  /\ OthersKept(m)
           /\ App(m)'.status = App(m).status /\ App(m)'.trail = App(m).trail
           /\ App(m)'.review = App(m).review /\ App(m)'.n = App(m).n
           /\ task[w].ref \in Ids => (App(m)'.rows[task[w].ref] = row /\ App(m).rows[task[w].ref] = Target(w))
           /\ \A j \in Ids : j # task[w].ref => App(m)'.rows[j] = App(m).rows[j]
<1> PICK i : i = task[w].ref
    OBVIOUS
<1>1. refs' = [refs EXCEPT ![m] = [refs[m] EXCEPT ![i] = row]]
    BY DEF SetRef
<1>2. refs \in [Maps -> [Ids -> Referral]]
    BY DEF Inv, TypeOK
<1>3. /\ i \in Ids => refs'[m][i] = row
      /\ \A j \in Ids : j # i => refs'[m][j] = refs[m][j]
      /\ \A n \in Maps : n # m => refs'[n] = refs[n]
    BY <1>1, <1>2
<1> QED
    BY <1>3 DEF App, OthersKept, Target

-----------------------------------------------------------------------------
\* The statements, one after another.
LEMMA HeadStarts ==
    ASSUME Inv, SerialInv, NEW w \in Workers, NEW s, At(w, s)
    PROVE  /\ Alone(w) /\ Agree(w) /\ task[w].todo # <<>>
           /\ Starts(task[w].todo, {s})
           /\ \A S : s \in S => Starts(task[w].todo, S)
           /\ task[w].map \in Maps /\ Typed(App(task[w].map))
           /\ OpenOK(App(task[w].map), task[w].todo, task[w].ref)
<1>1. task[w].todo # <<>> /\ Head(task[w].todo) = s
    BY DEF At
<1>2. Alone(w) /\ Agree(w)
    BY <1>1, Running DEF Busy
<1>3. task[w].map \in Maps
    BY TaskType DEF Inv
<1> QED
    BY <1>1, <1>2, <1>3, AppTyped DEF Starts, Agree, ListOn

\* Handlers that write a status, a decision of Q2 or a round.
LEMMA SerialTransition ==
    ASSUME Inv, SerialInv, NEW w \in Workers, Transition(w)
    PROVE  SerialInv'
<1> PICK s \in MapStatus : At(w, s) /\ MoveTo(task[w].map, s)
    BY DEF Transition
<1> PICK m \in Maps : m = task[w].map
    BY TaskType DEF Inv
<1> PICK a2 : a2 = App(m)'
    OBVIOUS
<1>1. OthersKept(m) /\ a2.status = s /\ a2.trail = (IF s \in Marks THEN App(m).trail ELSE s)
          /\ a2.review = App(m).review /\ a2.rows = App(m).rows /\ a2.n = App(m).n
    BY DEF Transition, MoveTo, App, OthersKept, Inv, TypeOK
<1>2. /\ OpenOK(a2, Tail(task[w].todo), task[w].ref)
      /\ CalmOK(App(m), task[w].todo, task[w].ref, task[w].to) =>
             CalmOK(a2, Tail(task[w].todo), task[w].ref, task[w].to)
    BY <1>1, HeadStarts, StatusAgrees
<1> QED
    BY <1>1, <1>2, HeadStarts, AloneContinue DEF Transition

LEMMA SerialRestore ==
    ASSUME Inv, SerialInv, NEW w \in Workers, Restore(w)
    PROVE  SerialInv'
<1> PICK s \in MapStatus : s = task[w].to
    BY TaskType DEF Inv
<1> PICK m \in Maps : m = task[w].map
    BY TaskType DEF Inv
<1> PICK a2 : a2 = App(m)'
    OBVIOUS
<1>0. At(w, "restore")
    BY DEF Restore
<1>1. OthersKept(m) /\ a2.status = s /\ a2.trail = (IF s \in Marks THEN App(m).trail ELSE s)
          /\ a2.review = App(m).review /\ a2.rows = App(m).rows /\ a2.n = App(m).n
    BY DEF Restore, MoveTo, App, OthersKept, Inv, TypeOK
<1>2. /\ OpenOK(a2, Tail(task[w].todo), task[w].ref)
      /\ CalmOK(App(m), task[w].todo, task[w].ref, s) => CalmOK(a2, Tail(task[w].todo), task[w].ref, s)
    BY <1>0, <1>1, HeadStarts, RestoreAgrees
<1> QED
    BY <1>0, <1>1, <1>2, HeadStarts, AloneContinue DEF Restore

LEMMA SerialReview ==
    ASSUME Inv, SerialInv, NEW w \in Workers, WriteReview(w)
    PROVE  SerialInv'
<1> PICK s \in ReviewStatus : At(w, s) /\ review' = [review EXCEPT ![task[w].map] = s]
    BY DEF WriteReview
<1> PICK m \in Maps : m = task[w].map
    BY TaskType DEF Inv
<1> PICK a2 : a2 = App(m)'
    OBVIOUS
<1>1. OthersKept(m) /\ a2.review = s /\ a2.status = App(m).status /\ a2.trail = App(m).trail
          /\ a2.rows = App(m).rows /\ a2.n = App(m).n
    BY DEF WriteReview, App, OthersKept, Inv, TypeOK
<1>2. /\ OpenOK(a2, Tail(task[w].todo), task[w].ref)
      /\ CalmOK(App(m), task[w].todo, task[w].ref, task[w].to) =>
             CalmOK(a2, Tail(task[w].todo), task[w].ref, task[w].to)
    BY <1>1, HeadStarts, ReviewAgrees
<1> QED
    BY <1>1, <1>2, HeadStarts, AloneContinue DEF WriteReview

LEMMA SerialRound ==
    ASSUME Inv, SerialInv, NEW w \in Workers, OpenRound(w)
    PROVE  SerialInv'
<1> PICK m \in Maps : m = task[w].map
    BY TaskType DEF Inv
<1>0. At(w, "round")
    BY DEF OpenRound
<1>1. OthersKept(m) /\ App(m)' = App(m)
    BY DEF OpenRound, App, OthersKept
<1>2. /\ OpenOK(App(m), Tail(task[w].todo), task[w].ref)
      /\ CalmOK(App(m), task[w].todo, task[w].ref, task[w].to) =>
             CalmOK(App(m), Tail(task[w].todo), task[w].ref, task[w].to)
  <2>1. Starts(task[w].todo, Answers)
      BY <1>0, HeadStarts DEF Answers
  <2>2. \A j \in Ids : SameRow(App(m).rows[j], App(m).rows[j])
      BY DEF SameRow
  <2> QED
      BY <1>0, <2>1, <2>2, HeadStarts, AnswerAgrees
<1> QED
    BY <1>0, <1>1, <1>2, HeadStarts, AloneContinue DEF OpenRound

\* Undo reads the log.
LEMMA SerialHistory ==
    ASSUME Inv, SerialInv, NEW w \in Workers, ReadHistory(w)
    PROVE  SerialInv'
<1> PICK m \in Maps, i \in 0 .. MaxReferrals : m = task[w].map /\ i = task[w].ref
    BY TaskType DEF Inv
<1>0. At(w, "history")
    BY DEF ReadHistory
<1>1. OthersKept(m) /\ App(m)' = App(m) /\ App(m).trail = trail[m]
    BY DEF ReadHistory, App, OthersKept
<1> PICK l2 : l2 = IF trail[m] = "SENT_TO_COMPANY" /\ i # 0 THEN <<"restore", "reopen">> ELSE <<"restore">>
    OBVIOUS
<1>2. /\ OpenOK(App(m), l2, i)
      /\ CalmOK(App(m), task[w].todo, i, task[w].to) => CalmOK(App(m), l2, i, trail[m])
  <2>1. l2 = IF App(m).trail = "SENT_TO_COMPANY" /\ i # 0 THEN <<"restore", "reopen">> ELSE <<"restore">>
      BY <1>1
  <2>2. Typed(App(m)) /\ OpenOK(App(m), task[w].todo, i) /\ Starts(task[w].todo, {"history"})
      BY <1>0, HeadStarts
  <2>3. /\ OpenOK(App(m), l2, i)
        /\ CalmOK(App(m), task[w].todo, i, task[w].to) => CalmOK(App(m), l2, i, App(m).trail)
      BY <2>1, <2>2, HistoryAgrees
  <2> QED
      BY <1>1, <2>3
<1> DEFINE x == [task[w] EXCEPT !.to = trail[m], !.todo = l2]
<1>3. task[w] \in Task
    BY DEF Inv, TypeOK
<1>4. task' = [task EXCEPT ![w] = x]
    BY <1>3 DEF ReadHistory, Inv, TypeOK, Task
<1>5. x.todo = l2 /\ x.to = trail[m] /\ x.map = m /\ x.ref = i
    BY <1>3 DEF Task
<1> HIDE DEF x
<1>6. Alone(w) /\ Agree(w) /\ UNCHANGED <<stale, crashes>>
    BY <1>0, HeadStarts DEF ReadHistory
<1>7. /\ OpenOK(App(m), x.todo, x.ref)
      /\ CalmOK(App(m), task[w].todo, task[w].ref, task[w].to) => CalmOK(App(m), x.todo, x.ref, x.to)
    BY <1>2, <1>5
<1> QED
    BY <1>1, <1>4, <1>5, <1>6, <1>7, AloneStep

\* Answers, the shortlist stamp among them.
LEMMA SerialAnswer ==
    ASSUME Inv, SerialInv, NEW w \in Workers, NEW s \in {"select", "answer", "reject"}, NEW row, Overwrite(w, s, row),
           NEW m \in Maps, m = task[w].map,
           task[w].ref \in Ids => AnsweredRow(row, Target(w), task[w].ref, nrefs[m])
    PROVE  SerialInv'
<1> PICK a2 : a2 = App(m)'
    OBVIOUS
<1>1. SetRef(w, row) /\ At(w, s) /\ Continue(w) /\ UNCHANGED <<mapStatus, trail, review, nrefs, stale, crashes>>
    BY DEF Overwrite
<1>2. /\ OthersKept(m)
      /\ a2.status = App(m).status /\ a2.trail = App(m).trail /\ a2.review = App(m).review /\ a2.n = App(m).n
      /\ task[w].ref \in Ids => (a2.rows[task[w].ref] = row /\ App(m).rows[task[w].ref] = Target(w))
      /\ \A j \in Ids : j # task[w].ref => a2.rows[j] = App(m).rows[j]
    BY <1>1, RowSeen
<1>3. \A j \in Ids : SameRow(a2.rows[j], App(m).rows[j]) \/ AnsweredRow(a2.rows[j], App(m).rows[j], j, App(m).n)
  <2> SUFFICES ASSUME NEW j \in Ids
               PROVE  SameRow(a2.rows[j], App(m).rows[j]) \/ AnsweredRow(a2.rows[j], App(m).rows[j], j, App(m).n)
      OBVIOUS
  <2>1. CASE j = task[w].ref
      BY <1>2, <2>1 DEF App
  <2>2. CASE j # task[w].ref
      BY <1>2, <2>2 DEF SameRow
  <2> QED
      BY <2>1, <2>2
<1>4. /\ OpenOK(a2, Tail(task[w].todo), task[w].ref)
      /\ CalmOK(App(m), task[w].todo, task[w].ref, task[w].to) =>
             CalmOK(a2, Tail(task[w].todo), task[w].ref, task[w].to)
  <2>0. s \in Answers
      BY DEF Answers
  <2>1. Starts(task[w].todo, Answers)
      BY <1>1, <2>0, HeadStarts
  <2> QED
      BY <1>1, <1>2, <1>3, <2>1, HeadStarts, AnswerAgrees
<1> QED
    BY <1>1, <1>2, <1>4, HeadStarts, AloneContinue

LEMMA SerialAnswers ==
    ASSUME Inv, SerialInv, NEW w \in Workers, Select(w) \/ AnswerSelected(w) \/ Reject(w)
    PROVE  SerialInv'
<1> PICK m \in Maps : m = task[w].map
    BY TaskType DEF Inv
<1>0. task[w].ref \in Ids => Target(w) \in Referral
    BY TargetAgrees DEF Ids
<1>1. CASE Select(w)
  <2> DEFINE row == [Target(w) EXCEPT !.answer = "Selected", !.status = "SentToCompany", !.expiresAt = Never]
  <2>1. Overwrite(w, "select", row)
      BY <1>1 DEF Select
  <2>2. task[w].ref \in Ids => task[w].ref = nrefs[m]
    <3>1. At(w, "select")
        BY <2>1 DEF Overwrite
    <3>2. task[w].ref \in {0, App(m).n}
      <4>1. Starts(task[w].todo, {"select", "history", "restore", "reopen"})
          BY <3>1 DEF At, Starts
      <4> QED
          BY <3>1, <4>1, HeadStarts DEF OpenOK
    <3> QED
        BY <3>2 DEF Ids, App
  <2>3. task[w].ref \in Ids => AnsweredRow(row, Target(w), task[w].ref, nrefs[m])
      BY <1>0, <2>2 DEF AnsweredRow, Referral
  <2> HIDE DEF row
  <2> QED
      BY <2>1, <2>3, SerialAnswer
<1>2. CASE AnswerSelected(w)
  <2> DEFINE row == [Target(w) EXCEPT !.answer = "Selected", !.expiresAt = Never]
  <2>1. Overwrite(w, "answer", row)
      BY <1>2 DEF AnswerSelected
  <2>2. task[w].ref \in Ids => AnsweredRow(row, Target(w), task[w].ref, nrefs[m])
      BY <1>0 DEF AnsweredRow, Referral
  <2> HIDE DEF row
  <2> QED
      BY <2>1, <2>2, SerialAnswer
<1>3. CASE Reject(w)
  <2> DEFINE row == [Target(w) EXCEPT !.answer = "Rejected", !.status = "Returned", !.expiresAt = Never]
  <2>1. Overwrite(w, "reject", row)
      BY <1>3 DEF Reject
  <2>2. task[w].ref \in Ids => ~Target(w).returnedByQ3
    <3> SUFFICES ASSUME task[w].ref \in Ids PROVE ~Target(w).returnedByQ3
        OBVIOUS
    <3>1. 1 \in 1 .. Len(task[w].todo) /\ task[w].todo[1] = "reject" /\ task[w].ref # 0
        BY <2>1, TaskType DEF Inv, Overwrite, At, Ids
    <3>2. Sent(task[w].map, task[w].ref)
        BY <3>1 DEF Inv, TasksAgree, TodoAgrees, Answering
    <3> QED
        BY <3>1, <3>2, TargetAgrees DEF RowAgrees
  <2>3. task[w].ref \in Ids => AnsweredRow(row, Target(w), task[w].ref, nrefs[m])
      BY <1>0, <2>2 DEF AnsweredRow, Referral
  <2> HIDE DEF row
  <2> QED
      BY <2>1, <2>3, SerialAnswer
<1> QED
    BY <1>1, <1>2, <1>3

LEMMA SerialMark ==
    ASSUME Inv, SerialInv, NEW w \in Workers, MarkShortlisted(w)
    PROVE  SerialInv'
<1> PICK m \in Maps : m = task[w].map
    BY TaskType DEF Inv
<1> PICK a2 : a2 = App(m)'
    OBVIOUS
<1>0. At(w, "markShortlisted") /\ Continue(w) /\ UNCHANGED <<stale, crashes>>
    BY DEF MarkShortlisted
<1>1. /\ OthersKept(m)
      /\ a2.status = App(m).status /\ a2.trail = App(m).trail /\ a2.review = App(m).review /\ a2.n = App(m).n
      /\ \A j \in Ids : a2.rows[j] = Stamped(App(m).rows[j])
    BY DEF MarkShortlisted, App, OthersKept, Inv, TypeOK
<1>2. \A j \in Ids : SameRow(a2.rows[j], App(m).rows[j]) \/ AnsweredRow(a2.rows[j], App(m).rows[j], j, App(m).n)
  <2> SUFFICES ASSUME NEW j \in Ids
               PROVE  SameRow(a2.rows[j], App(m).rows[j]) \/ AnsweredRow(a2.rows[j], App(m).rows[j], j, App(m).n)
      OBVIOUS
  <2>1. App(m).rows[j] \in Referral
      BY DEF App, Inv, TypeOK
  <2> QED
      BY <1>1, <2>1 DEF Stamped, SameRow, AnsweredRow, Referral
<1>3. Starts(task[w].todo, Answers)
  <2>1. "markShortlisted" \in Answers
      BY DEF Answers
  <2> QED
      BY <1>0, <2>1, HeadStarts
<1>4. /\ OpenOK(a2, Tail(task[w].todo), task[w].ref)
      /\ CalmOK(App(m), task[w].todo, task[w].ref, task[w].to) =>
             CalmOK(a2, Tail(task[w].todo), task[w].ref, task[w].to)
    BY <1>0, <1>1, <1>2, <1>3, HeadStarts, AnswerAgrees
<1> QED
    BY <1>0, <1>1, <1>4, HeadStarts, AloneContinue

\* referToQ3.
LEMMA SerialFind ==
    ASSUME Inv, SerialInv, NEW w \in Workers, FindLatest(w)
    PROVE  SerialInv'
<1> PICK m \in Maps : m = task[w].map
    BY TaskType DEF Inv
<1> DEFINE l == task[w].todo
           rest == Tail(l)
<1>0. At(w, "find") /\ UNCHANGED <<mapStatus, trail, review, refs, nrefs, stale, crashes>>
    BY DEF FindLatest
<1>1. OthersKept(m) /\ App(m)' = App(m)
    BY <1>0 DEF App, OthersKept
<1>2. /\ Alone(w) /\ Agree(w) /\ Typed(App(m)) /\ OpenOK(App(m), l, task[w].ref)
      /\ Starts(l, {"find"})
    BY <1>0, HeadStarts
<1>3. nrefs[m] \in Nat /\ App(m).n = nrefs[m] /\ Top(App(m)) = refs[m][nrefs[m]]
    BY DEF Inv, TypeOK, App, Top
<1>4. ASSUME NEW l2, Goto(w, l2),
             \/ nrefs[m] = 0 /\ l2 = Tail(rest)
             \/ /\ nrefs[m] > 0 /\ refs[m][nrefs[m]].status \notin {"Returned", "Expired"}
                /\ l2 = Tail(Tail(Tail(rest)))
      PROVE  SerialInv'
  <2> DEFINE x == IF l2 = <<>> THEN Idle(m) ELSE [task[w] EXCEPT !.todo = l2]
  <2>1. task' = [task EXCEPT ![w] = x]
      BY <1>4 DEF Goto
  <2>2. task[w] \in Task
      BY DEF Inv, TypeOK
  <2>3. x.todo = l2 /\ x.map = m /\ (l2 # <<>> => x.to = task[w].to)
    <3>1. CASE l2 = <<>>
        BY <3>1 DEF Idle
    <3>2. CASE l2 # <<>>
        BY <2>2, <3>2 DEF Task
    <3> QED
        BY <3>1, <3>2
  <2> HIDE DEF x
  <2>4. /\ OpenOK(App(m), l2, x.ref)
        /\ CalmOK(App(m), l, task[w].ref, task[w].to) => CalmOK(App(m), l2, x.ref, task[w].to)
      BY <1>2, <1>3, <1>4, FindAgrees
  <2>5. CalmOK(App(m), l, task[w].ref, task[w].to) => CalmOK(App(m), l2, x.ref, x.to)
    <3>1. CASE l2 = <<>>
      <4>1. CalmOK(App(m), <<>>, x.ref, task[w].to) => CalmOK(App(m), <<>>, x.ref, x.to)
          BY Stopped
      <4> QED
          BY <2>4, <3>1, <4>1
    <3>2. CASE l2 # <<>>
        BY <2>3, <2>4, <3>2
    <3> QED
        BY <3>1, <3>2
  <2> HIDE DEF l
  <2>6. /\ OpenOK(App(m), x.todo, x.ref)
        /\ CalmOK(App(m), l, task[w].ref, task[w].to) => CalmOK(App(m), x.todo, x.ref, x.to)
      BY <2>3, <2>4, <2>5
  <2> QED
      BY <1>0, <1>1, <1>2, <2>1, <2>3, <2>6, AloneStep DEF l
<1>5. ASSUME nrefs[m] > 0, refs[m][nrefs[m]].status \in {"Returned", "Expired"},
             task' = [task EXCEPT ![w].ref = nrefs[m], ![w].todo = rest]
      PROVE  SerialInv'
  <2> DEFINE x == [task[w] EXCEPT !.ref = nrefs[m], !.todo = rest]
  <2>1. task[w] \in Task
      BY DEF Inv, TypeOK
  <2>2. task' = [task EXCEPT ![w] = x]
      BY <1>5, <2>1 DEF Inv, TypeOK, Task
  <2> HIDE DEF rest
  <2>3. x.todo = rest /\ x.map = m /\ x.to = task[w].to
      BY <2>1 DEF Task
  <2> HIDE DEF x
  <2>4. /\ OpenOK(App(m), rest, x.ref)
        /\ CalmOK(App(m), l, task[w].ref, task[w].to) => CalmOK(App(m), rest, x.ref, task[w].to)
    <3>1. App(m).n > 0 /\ Top(App(m)).status \in {"Returned", "Expired"} /\ rest = Tail(l)
        BY <1>3, <1>5 DEF rest
    <3> HIDE DEF l
    <3> QED
        BY <1>2, <3>1, FindAgrees
  <2> HIDE DEF l
  <2>5. /\ OpenOK(App(m), x.todo, x.ref)
        /\ CalmOK(App(m), l, task[w].ref, task[w].to) => CalmOK(App(m), x.todo, x.ref, x.to)
      BY <2>3, <2>4
  <2> QED
      BY <1>0, <1>1, <1>2, <2>2, <2>3, <2>5, AloneStep DEF l
<1>6. CASE nrefs[m] = 0
    BY <1>4, <1>6 DEF FindLatest
<1>7. CASE nrefs[m] # 0 /\ (LatestIs(m, "Returned") \/ LatestIs(m, "Expired"))
    BY <1>5, <1>7 DEF FindLatest, LatestIs
<1>8. CASE nrefs[m] # 0 /\ ~(LatestIs(m, "Returned") \/ LatestIs(m, "Expired"))
  <2>1. nrefs[m] > 0 /\ refs[m][nrefs[m]].status \notin {"Returned", "Expired"}
      BY <1>3, <1>8 DEF LatestIs
  <2>2. Goto(w, Tail(Tail(Tail(rest))))
      BY <1>8 DEF FindLatest
  <2> QED
      BY <1>4, <2>1, <2>2
<1> QED
    BY <1>6, <1>7, <1>8

LEMMA SerialSupersede ==
    ASSUME Inv, SerialInv, NEW w \in Workers, Supersede(w)
    PROVE  SerialInv'
<1> PICK m \in Maps : m = task[w].map
    BY TaskType DEF Inv
<1> PICK a2 : a2 = App(m)'
    OBVIOUS
<1> DEFINE row == [Target(w) EXCEPT !.reReferred = TRUE]
<1>0. /\ At(w, "supersede") /\ SetRef(w, row) /\ Continue(w)
      /\ UNCHANGED <<mapStatus, trail, review, nrefs, stale, crashes>>
    BY DEF Supersede
<1>1. task[w].ref \in Ids => SameRow(row, Target(w))
    BY TargetAgrees DEF Ids, SameRow, Referral
<1> HIDE DEF row
<1>2. /\ OthersKept(m)
      /\ a2.status = App(m).status /\ a2.trail = App(m).trail /\ a2.review = App(m).review /\ a2.n = App(m).n
      /\ task[w].ref \in Ids => (a2.rows[task[w].ref] = row /\ App(m).rows[task[w].ref] = Target(w))
      /\ \A j \in Ids : j # task[w].ref => a2.rows[j] = App(m).rows[j]
    BY <1>0, RowSeen
<1>3. \A j \in Ids : SameRow(a2.rows[j], App(m).rows[j])
  <2> SUFFICES ASSUME NEW j \in Ids PROVE SameRow(a2.rows[j], App(m).rows[j])
      OBVIOUS
  <2>1. CASE j = task[w].ref
      BY <1>1, <1>2, <2>1
  <2>2. CASE j # task[w].ref
      BY <1>2, <2>2 DEF SameRow
  <2> QED
      BY <2>1, <2>2
<1>4. /\ OpenOK(a2, Tail(task[w].todo), task[w].ref)
      /\ CalmOK(App(m), task[w].todo, task[w].ref, task[w].to) =>
             CalmOK(a2, Tail(task[w].todo), task[w].ref, task[w].to)
    BY <1>0, <1>2, <1>3, HeadStarts, SupersedeAgrees
<1> QED
    BY <1>0, <1>2, <1>4, HeadStarts, AloneContinue

LEMMA SerialCreate ==
    ASSUME Inv, SerialInv, NEW w \in Workers, CreateReferral(w)
    PROVE  SerialInv'
<1> PICK m \in Maps : m = task[w].map
    BY TaskType DEF Inv
<1> PICK a2 : a2 = App(m)'
    OBVIOUS
<1> PICK row : row = [NoReferral EXCEPT !.status = "Referred"]
    OBVIOUS
<1>0. At(w, "create") /\ Continue(w) /\ UNCHANGED <<mapStatus, trail, review, stale, crashes>>
          /\ nrefs[m] < MaxReferrals
    BY DEF CreateReferral
<1>1. row.status = "Referred"
    BY DEF NoReferral
<1>2. nrefs[m] \in 0 .. MaxReferrals /\ nrefs[m] + 1 \in Ids
    BY <1>0, ReferralAssumption DEF Inv, TypeOK, Ids
<1>3. PICK k \in Ids : k = nrefs[m] + 1
    BY <1>2
<1>4. nrefs' = [nrefs EXCEPT ![m] = k] /\ refs' = [refs EXCEPT ![m] = [refs[m] EXCEPT ![k] = row]]
    BY <1>3 DEF CreateReferral
<1>5. /\ refs'[m][k] = row
      /\ \A j \in Ids : j # k => refs'[m][j] = refs[m][j]
      /\ nrefs'[m] = k
      /\ \A n \in Maps : n # m => (refs'[n] = refs[n] /\ nrefs'[n] = nrefs[n])
    BY <1>4 DEF Inv, TypeOK
<1>6. /\ OthersKept(m)
      /\ a2.status = App(m).status /\ a2.trail = App(m).trail /\ a2.review = App(m).review
      /\ a2.n = k /\ a2.rows[k].status = "Referred"
      /\ \A j \in Ids : j # k => a2.rows[j] = App(m).rows[j]
      /\ App(m).n = nrefs[m]
    BY <1>0, <1>1, <1>5 DEF App, OthersKept
<1>7. /\ OpenOK(a2, Tail(task[w].todo), task[w].ref)
      /\ CalmOK(App(m), task[w].todo, task[w].ref, task[w].to) =>
             CalmOK(a2, Tail(task[w].todo), task[w].ref, task[w].to)
  <2>1. App(m).n + 1 = a2.n /\ App(m).n < MaxReferrals /\ a2.rows[a2.n].status = "Referred"
            /\ \A j \in Ids : j # a2.n => a2.rows[j] = App(m).rows[j]
      BY <1>0, <1>3, <1>6
  <2>2. Typed(App(m)) /\ OpenOK(App(m), task[w].todo, task[w].ref) /\ Starts(task[w].todo, {"create"})
      BY <1>0, HeadStarts
  <2> QED
      BY <1>6, <2>1, <2>2, CreateAgrees
<1> QED
    BY <1>0, <1>6, <1>7, HeadStarts, AloneContinue

LEMMA SerialReopen ==
    ASSUME Inv, SerialInv, NEW w \in Workers, Reopen(w)
    PROVE  SerialInv'
<1> PICK m \in Maps : m = task[w].map
    BY TaskType DEF Inv
<1> PICK a2 : a2 = App(m)'
    OBVIOUS
<1> DEFINE row == [Target(w) EXCEPT !.status = "SentToCompany", !.answer = "Pending",
                       !.expiresAt = IF Target(w).sentAt = Never THEN now + Window
                                                                 ELSE Target(w).sentAt + Window]
<1>0. /\ At(w, "reopen") /\ SetRef(w, row) /\ Continue(w)
      /\ UNCHANGED <<mapStatus, trail, review, nrefs, stale, crashes>>
    BY DEF Reopen, Overwrite
<1>1. task[w].ref \in Ids => (row.status = "SentToCompany" /\ row.answer = "Pending")
    BY TargetAgrees DEF Ids, Referral
<1> HIDE DEF row
<1>2. /\ OthersKept(m)
      /\ a2.status = App(m).status /\ a2.trail = App(m).trail /\ a2.review = App(m).review /\ a2.n = App(m).n
      /\ task[w].ref \in Ids => (a2.rows[task[w].ref] = row /\ App(m).rows[task[w].ref] = Target(w))
      /\ \A j \in Ids : j # task[w].ref => a2.rows[j] = App(m).rows[j]
    BY <1>0, RowSeen
<1>3. /\ OpenOK(a2, Tail(task[w].todo), task[w].ref)
      /\ CalmOK(App(m), task[w].todo, task[w].ref, task[w].to) =>
             CalmOK(a2, Tail(task[w].todo), task[w].ref, task[w].to)
  <2>1. \A j \in Ids : IF j = task[w].ref THEN a2.rows[j].status = "SentToCompany" /\ a2.rows[j].answer = "Pending"
                                            ELSE a2.rows[j] = App(m).rows[j]
      BY <1>1, <1>2
  <2>2. Typed(App(m)) /\ OpenOK(App(m), task[w].todo, task[w].ref) /\ Starts(task[w].todo, {"reopen"})
      BY <1>0, HeadStarts
  <2> QED
      BY <1>2, <2>1, <2>2, ReopenAgrees
<1> QED
    BY <1>0, <1>2, <1>3, HeadStarts, AloneContinue

\* The conditional updates.
LEMMA SerialClaim ==
    ASSUME Inv, SerialInv, NEW w \in Workers, NEW s \in {"claimForward", "claimReturn", "claimExpire"}, At(w, s),
           NEW matched \in BOOLEAN, NEW row, Claim(w, matched, row),
           Target(w) \in Referral =>
               /\ s = "claimForward" => row.status = "SentToCompany" /\ row.answer = Target(w).answer
               /\ s = "claimReturn" => row.status = "Returned" /\ row.answer = Target(w).answer
               /\ s = "claimExpire" => row.status = "Expired",
           (matched /\ s # "claimExpire") => Target(w).status = "Referred"
    PROVE  SerialInv'
<1> PICK m \in Maps : m = task[w].map
    BY TaskType DEF Inv
<1>0. UNCHANGED <<mapStatus, trail, review, nrefs, stale, crashes>>
    BY DEF Claim
<1>1. /\ Alone(w) /\ Agree(w) /\ task[w].todo # <<>> /\ Starts(task[w].todo, {s})
      /\ Typed(App(m)) /\ OpenOK(App(m), task[w].todo, task[w].ref)
    BY HeadStarts
<1>2. Starts(task[w].todo, {"claimForward", "claimReturn", "claimExpire"})
    BY <1>1 DEF Starts
<1>3. task[w].ref \in Ids /\ Target(w) \in Referral
    BY <1>1, <1>2, TargetAgrees DEF OpenOK, Ids
<1>4. CASE ~matched
  <2>1. Goto(w, <<>>) /\ UNCHANGED refs
      BY <1>4 DEF Claim
  <2> QED
      BY <1>0, <1>1, <1>2, <2>1, AloneStops
<1>5. CASE matched
  <2> PICK a2 : a2 = App(m)'
      OBVIOUS
  <2>1. SetRef(w, row) /\ Continue(w)
      BY <1>5 DEF Claim
  <2>2. /\ OthersKept(m)
        /\ a2.status = App(m).status /\ a2.trail = App(m).trail /\ a2.review = App(m).review /\ a2.n = App(m).n
        /\ a2.rows[task[w].ref] = row /\ App(m).rows[task[w].ref] = Target(w)
        /\ \A j \in Ids : j # task[w].ref => a2.rows[j] = App(m).rows[j]
      BY <1>0, <1>3, <2>1, RowSeen
  <2>3. /\ OpenOK(a2, Tail(task[w].todo), task[w].ref)
        /\ CalmOK(App(m), task[w].todo, task[w].ref, task[w].to) =>
               CalmOK(a2, Tail(task[w].todo), task[w].ref, task[w].to)
    <3>1. CASE s = "claimExpire"
        BY <1>1, <1>3, <2>2, <3>1, ExpireAgrees
    <3>2. CASE s # "claimExpire"
      <4>1. Starts(task[w].todo, {"claimForward", "claimReturn"})
          BY <1>1, <3>2 DEF Starts
      <4>2. /\ Starts(task[w].todo, {"claimForward"}) => s = "claimForward"
            /\ Starts(task[w].todo, {"claimReturn"}) => s = "claimReturn"
          BY <1>1 DEF Starts
      <4>3. /\ App(m).rows[task[w].ref].status = "Referred"
            /\ a2.rows[task[w].ref].answer = App(m).rows[task[w].ref].answer
            /\ Starts(task[w].todo, {"claimForward"}) => a2.rows[task[w].ref].status = "SentToCompany"
            /\ Starts(task[w].todo, {"claimReturn"}) => a2.rows[task[w].ref].status = "Returned"
          BY <1>3, <1>5, <2>2, <3>2, <4>2
      <4> QED
          BY <1>1, <2>2, <4>1, <4>3, Q3ClaimAgrees
    <3> QED
        BY <3>1, <3>2
  <2> QED
      BY <1>0, <1>1, <2>1, <2>2, <2>3, AloneContinue
<1> QED
    BY <1>4, <1>5

LEMMA SerialClaims ==
    ASSUME Inv, SerialInv, NEW w \in Workers, ClaimForward(w) \/ ClaimReturn(w) \/ ClaimExpire(w)
    PROVE  SerialInv'
<1>1. CASE ClaimForward(w)
  <2> DEFINE row == [Target(w) EXCEPT !.status = "SentToCompany", !.sentAt = now, !.expiresAt = now + Window]
             matched == Target(w).status = "Referred"
  <2>1. At(w, "claimForward") /\ Claim(w, matched, row) /\ matched \in BOOLEAN
      BY <1>1 DEF ClaimForward
  <2>2. Target(w) \in Referral => row.status = "SentToCompany" /\ row.answer = Target(w).answer
      BY DEF Referral
  <2>3. matched => Target(w).status = "Referred"
      OBVIOUS
  <2> HIDE DEF row, matched
  <2> QED
      BY <2>1, <2>2, <2>3, SerialClaim
<1>2. CASE ClaimReturn(w)
  <2> DEFINE row == [Target(w) EXCEPT !.status = "Returned", !.returnedByQ3 = TRUE]
             matched == Target(w).status = "Referred"
  <2>1. At(w, "claimReturn") /\ Claim(w, matched, row) /\ matched \in BOOLEAN
      BY <1>2 DEF ClaimReturn
  <2>2. Target(w) \in Referral => row.status = "Returned" /\ row.answer = Target(w).answer
      BY DEF Referral
  <2>3. matched => Target(w).status = "Referred"
      OBVIOUS
  <2> HIDE DEF row, matched
  <2> QED
      BY <2>1, <2>2, <2>3, SerialClaim
<1>3. CASE ClaimExpire(w)
  <2> DEFINE row == [Target(w) EXCEPT !.status = "Expired"]
             matched == Unanswered(Target(w))
  <2>1. At(w, "claimExpire") /\ Claim(w, matched, row) /\ matched \in BOOLEAN
      BY <1>3 DEF ClaimExpire, Unanswered
  <2>2. Target(w) \in Referral => row.status = "Expired"
      BY DEF Referral
  <2> HIDE DEF row, matched
  <2> QED
      BY <2>1, <2>2, SerialClaim
<1> QED
    BY <1>1, <1>2, <1>3

LEMMA SerialStep ==
    ASSUME Inv, SerialInv, NEW w \in Workers, Step(w)
    PROVE  SerialInv'
BY SerialFind, SerialSupersede, SerialCreate, SerialTransition, SerialReview, SerialClaims, SerialAnswers,
   SerialReopen, SerialMark, SerialRound, SerialHistory, SerialRestore DEF Step

-----------------------------------------------------------------------------
\* Starting a handler, the job, the clock and restarts.
LEMMA NobodyRuns ==
    ASSUME SerialInv, \A v \in Workers : ~Busy(v), NEW w \in Workers
    PROVE  Alone(w) /\ Agree(w)
<1> PICK v \in Workers : Agree(v)
    BY DEF SerialInv
<1>1. task[v].todo = <<>> /\ task[w].todo = <<>>
    BY DEF Busy
<1>2. \A n \in Maps : ListOn(v, n) = <<>> /\ ListOn(w, n) = <<>>
    BY <1>1 DEF ListOn
<1>3. ASSUME NEW n \in Maps
      PROVE  /\ OpenOK(App(n), ListOn(w, n), task[w].ref)
             /\ crashes = 0 => CalmOK(App(n), ListOn(w, n), task[w].ref, task[w].to)
  <2>1. /\ OpenOK(App(n), <<>>, task[v].ref)
        /\ crashes = 0 => CalmOK(App(n), <<>>, task[v].ref, task[v].to)
      BY <1>2 DEF Agree
  <2> QED
      BY <1>2, <2>1, Stopped
<1> QED
    BY <1>3 DEF Alone, Agree

\* The referrals and answers that a handler's guard may read.
LEMMA WhatGuardsRead ==
    ASSUME Inv, SerialInv, \A v \in Workers : ~Busy(v), NEW m \in Maps
    PROVE  /\ \A j \in 1 .. nrefs[m] : j \in Ids /\ (refs[m][j].status \in Out => j = App(m).n)
           /\ nrefs[m] = App(m).n
           /\ nrefs[m] > 0 => Top(App(m)) = refs[m][nrefs[m]]
<1>1. Expiry \in Workers
    BY DEF Workers
<1>2. OpenOK(App(m), ListOn(Expiry, m), task[Expiry].ref)
    BY <1>1, NobodyRuns DEF Agree
<1> QED
    BY <1>2, ReferralAssumption DEF OpenOK, App, Top, Inv, TypeOK, Ids

LEMMA SerialBegin ==
    ASSUME Inv, SerialInv, Serial, NEW r \in Workers, NEW m \in Maps, NEW i, NEW l, Begin(r, m, i, l),
           ListOK(l), Starts(l, Beginnings),
           Starts(l, {"claimForward", "claimReturn", "claimExpire"}) => i \in Ids,
           Starts(l, {"select", "history"}) => i \in {0, App(m).n},
           Starts(l, {"history"}) => (i # 0 \/ App(m).n = 0 \/ Top(App(m)).answer = "Pending"),
           Starts(l, {"reject", "answer", "markShortlisted"}) => OwesStatus(l)
    PROVE  SerialInv'
<1>1. \A v \in Workers : ~Busy(v)
    BY DEF Begin
<1>2. Alone(r) /\ Agree(r) /\ task[r].todo = <<>>
    BY <1>1, NobodyRuns DEF Busy
<1> DEFINE x == [map |-> m, ref |-> i, to |-> "MAPPED", todo |-> l]
<1>3. task' = [task EXCEPT ![r] = x]
    BY DEF Begin
<1>4. x.map = m /\ x.ref = i /\ x.todo = l
    OBVIOUS
<1> HIDE DEF x
<1>5. OpenOK(App(m), <<>>, task[r].ref)
    BY <1>2 DEF Agree, ListOn
<1>6. /\ OpenOK(App(m), l, i)
      /\ CalmOK(App(m), <<>>, task[r].ref, task[r].to) => CalmOK(App(m), l, i, x.to)
    BY <1>5, AppTyped, BeginAgrees
<1>7. UNCHANGED <<mapStatus, trail, review, refs, nrefs, crashes, stale>>
    BY DEF Begin
<1> QED
    BY <1>2, <1>3, <1>4, <1>6, <1>7, AloneBegins

\* Handlers that look at no referral before they begin.
LEMMA SerialPlain ==
    ASSUME Inv, SerialInv, Serial, NEW r \in Workers, NEW m \in Maps, NEW i, NEW l, Begin(r, m, i, l), ListOK(l),
           Starts(l, {"find", "NEED_MORE_INFO", "REJECTED", "SHORTLISTED", "SELECTED", "round"})
    PROVE  SerialInv'
<1>1. Starts(l, Beginnings)
    BY DEF Starts, Beginnings
<1>2. /\ ~Starts(l, {"claimForward", "claimReturn", "claimExpire"}) /\ ~Starts(l, {"select", "history"})
      /\ ~Starts(l, {"history"}) /\ ~Starts(l, {"reject", "answer", "markShortlisted"})
    BY DEF Starts
<1> QED
    BY <1>1, <1>2, SerialBegin

LEMMA SerialStart ==
    ASSUME Inv, SerialInv, Serial, NEW r \in Requests, Start(r)
    PROVE  SerialInv'
<1> PICK m \in Maps :
        \/ ReferToQ3(r, m) \/ Q2Forward(r, m) \/ Q2SendBack(r, m) \/ Q2Reject(r, m)
        \/ Q3SetupRound(r, m) \/ UndoDecision(r, m) \/ ScheduleInterview(r, m) \/ BookRound(r, m)
        \/ \E s \in Decisions : DecideApplicant(r, m, s)
        \/ \E i \in 1 .. nrefs[m] :
               \/ Q3Forward(r, m, i) \/ Q3Return(r, m, i)
               \/ CompanyShortlist(r, m, i) \/ CompanyReject(r, m, i)
    BY DEF Start
<1> r \in Workers
    BY DEF Workers
<1>0. \A i, l : Begin(r, m, i, l) => \A v \in Workers : ~Busy(v)
    BY DEF Begin
<1>1. CASE ReferToQ3(r, m)
  <2> PICK l : l = <<"find", "supersede", "create", "REFERRED_TO_Q3">>
      OBVIOUS
  <2>1. ListOK(l) /\ Begin(r, m, 0, l)
      BY <1>1, ListsOK DEF ReferToQ3
  <2>2. l # <<>> /\ Head(l) = "find"
      BY Lists
  <2> QED
      BY <2>1, <2>2, SerialPlain DEF Starts
<1>2. CASE Q2Forward(r, m)
  <2> PICK l : l = <<"find", "supersede", "create", "REFERRED_TO_Q3", "Forwarded">>
      OBVIOUS
  <2>1. ListOK(l) /\ Begin(r, m, 0, l)
      BY <1>2, ListsOK DEF Q2Forward
  <2>2. l # <<>> /\ Head(l) = "find"
      BY Lists
  <2> QED
      BY <2>1, <2>2, SerialPlain DEF Starts
<1>3. CASE Q2SendBack(r, m)
  <2> PICK l : l = <<"NEED_MORE_INFO", "SentBackToQ1">>
      OBVIOUS
  <2>1. ListOK(l) /\ Begin(r, m, 0, l)
      BY <1>3, ListsOK DEF Q2SendBack
  <2>2. l # <<>> /\ Head(l) = "NEED_MORE_INFO"
      BY Lists
  <2> QED
      BY <2>1, <2>2, SerialPlain DEF Starts
<1>4. CASE Q2Reject(r, m)
  <2> PICK l : l = <<"REJECTED", "RejectedByQ2">>
      OBVIOUS
  <2>1. ListOK(l) /\ Begin(r, m, 0, l)
      BY <1>4, ListsOK DEF Q2Reject
  <2>2. l # <<>> /\ Head(l) = "REJECTED"
      BY Lists
  <2> QED
      BY <2>1, <2>2, SerialPlain DEF Starts
<1>5. CASE Q3SetupRound(r, m)
  <2> PICK l : l = <<"round", "markShortlisted", "SHORTLISTED">>
      OBVIOUS
  <2>1. ListOK(l) /\ Begin(r, m, 0, l)
      BY <1>5, ListsOK DEF Q3SetupRound
  <2>2. l # <<>> /\ Head(l) = "round"
      BY Lists
  <2> QED
      BY <2>1, <2>2, SerialPlain DEF Starts
<1>6. CASE BookRound(r, m)
  <2> PICK l : l = <<"round", "INTERVIEW_R1", "markShortlisted">>
      OBVIOUS
  <2>1. ListOK(l) /\ Begin(r, m, 0, l)
      BY <1>6, ListsOK DEF BookRound
  <2>2. l # <<>> /\ Head(l) = "round"
      BY Lists
  <2> QED
      BY <2>1, <2>2, SerialPlain DEF Starts
<1>7. CASE UndoDecision(r, m)
  <2> PICK l : l = <<"history", "restore", "reopen">>
      OBVIOUS
  <2> PICK i : i = IF nrefs[m] > 0 /\ refs[m][nrefs[m]].answer # "Pending" THEN nrefs[m] ELSE 0
      OBVIOUS
  <2>1. ListOK(l) /\ Begin(r, m, i, l)
      BY <1>7, ListsOK DEF UndoDecision
  <2>2. l # <<>> /\ Head(l) = "history"
      BY Lists
  <2>3. /\ nrefs[m] = App(m).n /\ nrefs[m] \in Nat
        /\ nrefs[m] > 0 => Top(App(m)) = refs[m][nrefs[m]]
      BY <1>0, <2>1, WhatGuardsRead DEF Inv, TypeOK
  <2>4. i \in {0, App(m).n} /\ (i # 0 \/ App(m).n = 0 \/ Top(App(m)).answer = "Pending")
      BY <2>3
  <2>5. /\ Starts(l, Beginnings) /\ ~Starts(l, {"claimForward", "claimReturn", "claimExpire"})
        /\ ~Starts(l, {"reject", "answer", "markShortlisted"})
      BY <2>2 DEF Starts, Beginnings
  <2> QED
      BY <2>1, <2>4, <2>5, SerialBegin
<1>8. CASE ScheduleInterview(r, m)
  <2>1. ASSUME NEW i, NEW l, Begin(r, m, i, l), ListOK(l), l # <<>>, Head(l) \in {"answer", "markShortlisted"},
               Tail(l) \notin {<<>>, <<"markShortlisted">>}
        PROVE  SerialInv'
    <3>1. /\ Starts(l, Beginnings) /\ ~Starts(l, {"claimForward", "claimReturn", "claimExpire"})
          /\ ~Starts(l, {"select", "history"}) /\ ~Starts(l, {"history"}) /\ OwesStatus(l)
        BY <2>1 DEF Starts, Beginnings, OwesStatus
    <3> QED
        BY <2>1, <3>1, SerialBegin
  <2>2. CASE AwaitsAnswer(m)
    <3> PICK l : l = <<"answer", "markShortlisted", "round", "INTERVIEW_R1">>
        OBVIOUS
    <3>1. ListOK(l) /\ Begin(r, m, nrefs[m], l)
        BY <1>8, <2>2, ListsOK DEF ScheduleInterview
    <3>2. l # <<>> /\ Head(l) = "answer" /\ Tail(l) = <<"markShortlisted", "round", "INTERVIEW_R1">>
        BY Lists
    <3>3. Tail(l) \notin {<<>>, <<"markShortlisted">>}
      <4>1. /\ Tail(Tail(l)) = <<"round", "INTERVIEW_R1">> /\ Tail(l) # <<>> /\ Tail(<<"markShortlisted">>) = <<>>
            /\ <<"round", "INTERVIEW_R1">> # <<>>
          BY <3>2, Lists
      <4> QED
          BY <4>1
    <3> QED
        BY <2>1, <3>1, <3>2, <3>3
  <2>3. CASE ~AwaitsAnswer(m)
    <3> PICK l : l = <<"markShortlisted", "round", "INTERVIEW_R1">>
        OBVIOUS
    <3>1. ListOK(l) /\ Begin(r, m, 0, l)
        BY <1>8, <2>3, ListsOK DEF ScheduleInterview
    <3>2. l # <<>> /\ Head(l) = "markShortlisted" /\ Tail(l) = <<"round", "INTERVIEW_R1">>
        BY Lists
    <3>3. Tail(l) \notin {<<>>, <<"markShortlisted">>}
      <4>1. Tail(l) # <<>> /\ Head(Tail(l)) = "round" /\ Head(<<"markShortlisted">>) = "markShortlisted"
          BY <3>2, Lists
      <4> QED
          BY <4>1
    <3> QED
        BY <2>1, <3>1, <3>2, <3>3
  <2> QED
      BY <2>2, <2>3
<1>9. ASSUME NEW s \in Decisions, DecideApplicant(r, m, s) PROVE SerialInv'
  <2>0. s = "SHORTLISTED" \/ s = "SELECTED" \/ s = "REJECTED"
      BY ReferralAssumption
  <2>1. ASSUME NEW i, NEW l, Begin(r, m, i, l), ListOK(l), l # <<>>, Head(l) \in {"SHORTLISTED", "SELECTED", "REJECTED"}
        PROVE  SerialInv'
      BY <2>1, SerialPlain DEF Starts
  <2>2. CASE ~AwaitsAnswer(m)
    <3>1. <<s>> # <<>> /\ Head(<<s>>) = s
        OBVIOUS
    <3>2. ListOK(<<s>>)
        BY <2>0, ListsOK
    <3>3. Begin(r, m, 0, <<s>>)
        BY <1>9, <2>2 DEF DecideApplicant
    <3> QED
        BY <2>0, <2>1, <3>1, <3>2, <3>3
  <2>3. CASE AwaitsAnswer(m) /\ s = "REJECTED"
    <3> PICK l : l = <<"REJECTED", "reject">>
        OBVIOUS
    <3>1. ListOK(l) /\ Begin(r, m, nrefs[m], l)
        BY <1>9, <2>3, ListsOK DEF DecideApplicant
    <3>2. l # <<>> /\ Head(l) = "REJECTED"
        BY Lists
    <3> QED
        BY <2>1, <3>1, <3>2
  <2>4. CASE AwaitsAnswer(m) /\ s \in {"SHORTLISTED", "SELECTED"}
    <3> PICK l : l = <<s, "answer", "markShortlisted">>
        OBVIOUS
    <3>1. Begin(r, m, nrefs[m], l)
        BY <1>9, <2>4 DEF DecideApplicant
    <3>2. l # <<>> /\ Head(l) = s
        OBVIOUS
    <3>3. ListOK(l)
      <4>1. l = <<"SHORTLISTED", "answer", "markShortlisted">> \/ l = <<"SELECTED", "answer", "markShortlisted">>
          BY <2>4
      <4>2. CASE l = <<"SHORTLISTED", "answer", "markShortlisted">>
          BY <4>2, ListsOK
      <4>3. CASE l = <<"SELECTED", "answer", "markShortlisted">>
          BY <4>3, ListsOK
      <4> QED
          BY <4>1, <4>2, <4>3
    <3> QED
        BY <2>1, <2>4, <3>1, <3>2, <3>3
  <2> QED
      BY <2>0, <2>2, <2>3, <2>4
<1>10. ASSUME NEW i \in 1 .. nrefs[m], Q3Forward(r, m, i) \/ Q3Return(r, m, i) PROVE SerialInv'
  <2>1. ASSUME NEW l, Begin(r, m, i, l), ListOK(l), l # <<>>, Head(l) \in {"claimForward", "claimReturn"}
        PROVE  SerialInv'
    <3>1. i \in Ids
        BY <1>0, <2>1, WhatGuardsRead
    <3>2. /\ Starts(l, Beginnings) /\ ~Starts(l, {"select", "history"}) /\ ~Starts(l, {"history"})
          /\ ~Starts(l, {"reject", "answer", "markShortlisted"})
        BY <2>1 DEF Starts, Beginnings
    <3> QED
        BY <2>1, <3>1, <3>2, SerialBegin
  <2>2. CASE Q3Forward(r, m, i)
    <3> PICK l : l = <<"claimForward", "SENT_TO_COMPANY">>
        OBVIOUS
    <3>1. ListOK(l) /\ Begin(r, m, i, l)
        BY <2>2, ListsOK DEF Q3Forward
    <3>2. l # <<>> /\ Head(l) = "claimForward"
        BY Lists
    <3> QED
        BY <2>1, <3>1, <3>2
  <2>3. CASE Q3Return(r, m, i)
    <3> PICK l : l = <<"claimReturn", "New", "MAPPED">>
        OBVIOUS
    <3>1. ListOK(l) /\ Begin(r, m, i, l)
        BY <2>3, ListsOK DEF Q3Return
    <3>2. l # <<>> /\ Head(l) = "claimReturn"
        BY Lists
    <3> QED
        BY <2>1, <3>1, <3>2
  <2> QED
      BY <1>10, <2>2, <2>3
<1>11. ASSUME NEW i \in 1 .. nrefs[m], CompanyShortlist(r, m, i) PROVE SerialInv'
  <2> PICK l : l = <<"select", "markShortlisted", "round", "INTERVIEW_R1">>
      OBVIOUS
  <2>1. ListOK(l) /\ Begin(r, m, i, l) /\ refs[m][i].status = "SentToCompany"
      BY <1>11, ListsOK DEF CompanyShortlist
  <2>2. l # <<>> /\ Head(l) = "select"
      BY Lists
  <2>3. i = App(m).n
      BY <1>0, <2>1, WhatGuardsRead DEF Out
  <2>4. /\ Starts(l, Beginnings) /\ ~Starts(l, {"claimForward", "claimReturn", "claimExpire"})
        /\ ~Starts(l, {"history"}) /\ ~Starts(l, {"reject", "answer", "markShortlisted"})
      BY <2>2 DEF Starts, Beginnings
  <2> QED
      BY <2>1, <2>3, <2>4, SerialBegin
<1>12. ASSUME NEW i \in 1 .. nrefs[m], CompanyReject(r, m, i) PROVE SerialInv'
  <2> PICK l : l = <<"reject", "REJECTED">>
      OBVIOUS
  <2>1. ListOK(l) /\ Begin(r, m, i, l)
      BY <1>12, ListsOK DEF CompanyReject
  <2>2. l # <<>> /\ Head(l) = "reject" /\ Tail(l) = <<"REJECTED">>
      BY Lists
  <2>3. Tail(l) \notin {<<>>, <<"markShortlisted">>}
    <3>1. Tail(l) # <<>> /\ Head(Tail(l)) = "REJECTED" /\ Head(<<"markShortlisted">>) = "markShortlisted"
        BY <2>2, Lists
    <3> QED
        BY <3>1
  <2>4. /\ Starts(l, Beginnings) /\ ~Starts(l, {"claimForward", "claimReturn", "claimExpire"})
        /\ ~Starts(l, {"select", "history"}) /\ ~Starts(l, {"history"}) /\ OwesStatus(l)
      BY <2>2, <2>3 DEF Starts, Beginnings, OwesStatus
  <2> QED
      BY <2>1, <2>4, SerialBegin
<1> QED
    BY <1>1, <1>2, <1>3, <1>4, <1>5, <1>6, <1>7, <1>8, <1>9, <1>10, <1>11, <1>12

LEMMA SerialExpiry ==
    ASSUME Inv, SerialInv, Serial, ScanStale \/ NextStale
    PROVE  SerialInv'
<1>0. Expiry \in Workers
    BY DEF Workers
<1>1. CASE ScanStale
  <2>1. \A v \in Workers : ~Busy(v)
      BY <1>1 DEF ScanStale, Workers
  <2>2. Agree(Expiry) /\ UNCHANGED <<mapStatus, trail, review, refs, nrefs, task, crashes>>
      BY <1>0, <1>1, <2>1, NobodyRuns DEF ScanStale
  <2>3. Agree(Expiry)'
      BY <2>2 DEF Agree, App, ListOn
  <2>4. Alone(Expiry)'
      BY <2>1, <2>2 DEF Alone, Busy
  <2> QED
      BY <1>0, <2>3, <2>4 DEF SerialInv
<1>2. CASE NextStale
  <2> PICK y \in stale :
          /\ stale' = stale \ {y}
          /\ task' = [task EXCEPT ![Expiry] =
                         [map |-> y[1], ref |-> y[2], to |-> "MAPPED",
                          todo |-> <<"claimExpire", "CV_EXPIRED", "New">>]]
      BY <1>2 DEF NextStale
  <2> PICK l : l = <<"claimExpire", "CV_EXPIRED", "New">>
      OBVIOUS
  <2>1. l # <<>> /\ Head(l) = "claimExpire"
      BY Lists
  <2>2. ListOK(l)
      BY ListsOK
  <2>3. y[1] \in Maps /\ y[2] \in Ids
      BY DEF Inv, TypeOK
  <2>4. Alone(Expiry) /\ Agree(Expiry) /\ task[Expiry].todo = <<>>
      BY <1>0, <1>2, Running DEF Busy, NextStale
  <2> DEFINE x == [map |-> y[1], ref |-> y[2], to |-> "MAPPED", todo |-> l]
  <2>5. task' = [task EXCEPT ![Expiry] = x] /\ x.map = y[1] /\ x.ref = y[2] /\ x.todo = l
      OBVIOUS
  <2> HIDE DEF x
  <2>6. OpenOK(App(y[1]), <<>>, task[Expiry].ref)
      BY <2>3, <2>4 DEF Agree, ListOn
  <2>7. /\ Starts(l, Beginnings) /\ ~Starts(l, {"select", "history"}) /\ ~Starts(l, {"history"})
        /\ ~Starts(l, {"reject", "answer", "markShortlisted"})
      BY <2>1 DEF Starts, Beginnings
  <2>8. /\ OpenOK(App(y[1]), x.todo, x.ref)
        /\ CalmOK(App(y[1]), <<>>, task[Expiry].ref, task[Expiry].to) => CalmOK(App(y[1]), x.todo, x.ref, x.to)
      BY <2>2, <2>3, <2>5, <2>6, <2>7, AppTyped, BeginAgrees
  <2>9. UNCHANGED <<mapStatus, trail, review, refs, nrefs, crashes>> /\ stale' \subseteq stale
      BY <1>2 DEF NextStale
  <2> QED
      BY <1>0, <2>3, <2>4, <2>5, <2>8, <2>9, AloneBegins
<1> QED
    BY <1>1, <1>2

\* A restart leaves nothing running; what its handlers still owed is lost with them.
LEMMA SerialRestart ==
    ASSUME Inv, SerialInv, Restart
    PROVE  SerialInv'
<1> PICK w \in Workers : Agree(w)
    BY DEF SerialInv
<1>1. \A v \in Workers : task'[v].todo = <<>>
    BY DEF Restart, Idle
<1>2. Alone(w)'
    BY <1>1 DEF Alone, Busy, Restart
<1>3. crashes' # 0
    BY DEF Restart, Inv, TypeOK
<1>4. ASSUME NEW n \in Maps PROVE OpenOK(App(n)', ListOn(w, n)', task'[w].ref)
  <2>1. OpenOK(App(n), ListOn(w, n), task[w].ref)
      BY DEF Agree
  <2>2. OpenOK(App(n), <<>>, task'[w].ref)
      BY <2>1, ListsOK, NothingStarts DEF OpenOK
  <2>3. App(n)' = App(n) /\ ListOn(w, n)' = <<>>
      BY <1>1 DEF Restart, App, ListOn
  <2> QED
      BY <2>2, <2>3
<1>5. Agree(w)'
    BY <1>3, <1>4 DEF Agree
<1> QED
    BY <1>2, <1>5 DEF SerialInv

LEMMA SerialInit ==
    ASSUME Init
    PROVE  SerialInv
<1> PICK m \in Maps : task = [w \in Workers |-> Idle(m)]
    BY DEF Init
<1>0. Expiry \in Workers
    BY DEF Workers
<1>1. \A w \in Workers : task[w].todo = <<>>
    BY DEF Idle
<1>2. Alone(Expiry)
    BY <1>1 DEF Alone, Busy, Init
<1>3. ASSUME NEW n \in Maps, NEW i, NEW to PROVE OpenOK(App(n), <<>>, i) /\ CalmOK(App(n), <<>>, i, to)
  <2> PICK a : a = App(n)
      OBVIOUS
  <2>1. /\ a.status = "MAPPED" /\ a.trail = "MAPPED" /\ a.review = "New" /\ a.n = 0
        /\ \A j \in Ids : a.rows[j].status = "None"
      BY DEF Init, App, NoReferral
  <2> QED
      BY <2>1, ListsOK, NothingStarts DEF OpenOK, CalmOK, Out
<1>4. Agree(Expiry)
    BY <1>0, <1>1, <1>3 DEF Agree, ListOn
<1> QED
    BY <1>0, <1>2, <1>4 DEF SerialInv

LEMMA SerialAlways ==
    ASSUME Serial
    PROVE  Spec => [](Inv /\ SerialInv)
<1>1. Inv /\ SerialInv /\ [Next]_vars => SerialInv'
  <2> SUFFICES ASSUME Inv, SerialInv, [Next]_vars PROVE SerialInv'
      OBVIOUS
  <2>1. CASE UNCHANGED vars \/ Tick
    <3>1. UNCHANGED <<mapStatus, trail, review, refs, nrefs, task, stale, crashes>>
        BY <2>1 DEF vars, Tick
    <3> QED
        BY <3>1 DEF SerialInv, Alone, Busy, Agree, App, ListOn
  <2>2. CASE Next /\ ~Tick
      BY <2>2, SerialStart, SerialStep, SerialExpiry, SerialRestart DEF Next
  <2> QED
      BY <2>1, <2>2
<1>2. Init => SerialInv
    BY SerialInit
<1> QED
    BY <1>1, <1>2, InvAlways, PTL DEF Spec

-----------------------------------------------------------------------------
\* With one handler at a time, no application has two referrals in flight, also when
\* handlers are cut short: an insert follows a search that found nothing out.
THEOREM OneReferralOut ==
    ASSUME Serial
    PROVE  Spec => []OneOpenReferral
<1>1. Inv /\ SerialInv => OneOpenReferral
  <2> SUFFICES ASSUME Inv, SerialInv, NEW m \in Maps
               PROVE  Cardinality({i \in Ids : refs[m][i].status \in {"Referred", "SentToCompany"}}) <= 1
      BY DEF OneOpenReferral
  <2> DEFINE S == {i \in Ids : refs[m][i].status \in {"Referred", "SentToCompany"}}
  <2>1. \A i \in S : i = nrefs[m]
      BY DEF SerialInv, Agree, OpenOK, App, Out
  <2>2. S \subseteq {nrefs[m]}
      BY <2>1
  <2>3. IsFiniteSet({nrefs[m]}) /\ Cardinality({nrefs[m]}) = 1
      BY FS_Singleton
  <2>4. Cardinality(S) <= Cardinality({nrefs[m]})
      BY <2>2, <2>3, FS_Subset
  <2> QED
      BY <2>3, <2>4
<1> QED
    BY <1>1, SerialAlways, PTL

\* Nothing runs, and no handler was ever cut short: the columns agree.
LEMMA QuietAgrees ==
    ASSUME SerialInv, Quiet, crashes = 0, NEW m \in Maps
    PROVE  \E i, to : CalmOK(App(m), <<>>, i, to)
<1> PICK w \in Workers : Agree(w)
    BY DEF SerialInv
<1>1. ListOn(w, m) = <<>>
    BY DEF Quiet, Busy, ListOn
<1> QED
    BY <1>1 DEF Agree

\* With one handler at a time and none cut short, a CV that came back from Q3 or expired is on
\* Q2's queue again whenever nothing runs: the last statement of a return is the queue's.
THEOREM ComesBackToQ2 ==
    ASSUME Serial
    PROVE  Spec => [](crashes = 0 => BackOnQ2Queue)
<1>1. Inv /\ SerialInv => (crashes = 0 => BackOnQ2Queue)
  <2> SUFFICES ASSUME Inv, SerialInv, crashes = 0, Quiet, NEW m \in Maps,
                      LatestIs(m, "Expired") \/ (LatestIs(m, "Returned") /\ refs[m][nrefs[m]].returnedByQ3)
               PROVE  review[m] # "Forwarded"
      BY DEF BackOnQ2Queue
  <2>1. CameBack(App(m)) /\ App(m).review = review[m]
      BY DEF CameBack, App, Top, LatestIs
  <2>2. PICK i, to : CalmOK(App(m), <<>>, i, to)
      BY QuietAgrees
  <2> QED
      BY <2>1, <2>2, NothingStarts DEF CalmOK
<1> QED
    BY <1>1, SerialAlways, PTL

\* With one handler at a time and none cut short, an application that reads "sent to company",
\* also after an undo, has its newest referral awaiting the company whenever nothing runs.
THEOREM InboxAgrees ==
    ASSUME Serial
    PROVE  Spec => [](crashes = 0 => CompanyInboxAgrees)
<1>1. Inv /\ SerialInv => (crashes = 0 => CompanyInboxAgrees)
  <2> SUFFICES ASSUME Inv, SerialInv, crashes = 0, Quiet, NEW m \in Maps, mapStatus[m] = "SENT_TO_COMPANY"
               PROVE  AwaitsAnswer(m)
      BY DEF CompanyInboxAgrees
  <2>1. App(m).status = "SENT_TO_COMPANY" /\ (Awaiting(App(m)) => AwaitsAnswer(m))
      BY DEF Awaiting, App, Top, AwaitsAnswer, LatestIs
  <2>2. PICK i, to : CalmOK(App(m), <<>>, i, to)
      BY QuietAgrees
  <2> QED
      BY <2>1, <2>2, NothingOwed DEF CalmOK
<1> QED
    BY <1>1, SerialAlways, PTL
=============================================================================
