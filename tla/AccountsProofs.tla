--------------------------- MODULE AccountsProofs ---------------------------
(***************************************************************************)
(* Theorems about Accounts.tla for any number of requests, tabs, forms,    *)
(* links, codes, accounts and tokens. One inductive invariant, Inv,        *)
(* carries the safety properties; OneBearer, stated on top of it, carries  *)
(* the refinement, and SerialInv what holds while requests do not overlap; *)
(* StorageInv adds what the browser keeps meanwhile.                       *)
(***************************************************************************)
EXTENDS Accounts, FiniteSetTheorems, TLAPS

\* What a handler has still to execute when it is about to execute the first of it.
Lists ==
    {<<"claimSend", "issue", "send">>, <<"ttl", "issue", "send">>, <<"issue", "send">>,
     <<"send">>, <<"release">>,
     <<"verifyCode", "recheck", "create", "issueTokens", "reply">>,
     <<"recheck", "create", "issueTokens", "reply">>, <<"create", "issueTokens", "reply">>,
     <<"claimSession", "active", "issueTokens", "reply">>, <<"active", "issueTokens", "reply">>,
     <<"issueTokens", "reply">>, <<"revoke", "reply">>, <<"reply">>,
     <<"forgot">>, <<"reset">>, <<"lock">>, <<"unlock">>}

Starts(t, S) == t.todo # <<>> /\ Head(t.todo) \in S
Holds(t, s) == \E k \in DOMAIN t.todo : t.todo[k] = s

\* What the task of a running handler may rely on, given the tokens issued, the accounts and
\* their revocations.
Agrees(t, n, accounts, revoked) ==
    /\ t.todo \in Lists \union {<<>>}
    /\ t.token <= n
    /\ Starts(t, {"verifyCode"}) => t.handle \in Handles
    /\ Starts(t, {"verifyCode", "recheck", "create"}) => t.kind = "verify" /\ t.since = 0
    /\ Starts(t, {"claimSession", "active"}) => t.kind \in Exchanges
    /\ Starts(t, {"claimSession", "active", "issueTokens"}) =>
           /\ t.user \in Users
           /\ t.since <= revoked[t.user]
           /\ t.kind \in Exchanges => t.token # 0
    /\ Starts(t, {"issueTokens"}) => (accounts[t.user] = "inactive" => t.since < revoked[t.user])
TasksAgree == \A r \in Requests : Agrees(task[r], ntokens, users, revs)

\* The bounds leave room for what running requests are still going to issue.
Bounded == ncodes + Coming("issue") <= MaxCodes /\ ntokens + Coming("issueTokens") <= MaxTokens

\* A code stands under one handle until it is matched, and every guess at it was counted.
OtpsAgree ==
    /\ \A h \in Handles :
           /\ otp[h].guesses <= otp[h].attempts /\ otp[h].attempts <= MaxAttempts
           /\ otp[h].code <= ncodes
           /\ otp[h].code # 0 => matched[otp[h].code] = 0
    /\ \A g, h \in Handles : otp[g].code = otp[h].code => g = h \/ otp[h].code = 0
    /\ \A c \in Codes : matched[c] <= 1 /\ (c > ncodes => matched[c] = 0)

\* Tokens are numbered as they are issued; a line of them begins with its first.
TokensAgree ==
    /\ \A k \in Tokens : k <= ntokens =>
           /\ tokens[k].user \in Users
           /\ tokens[k].line \in 1 .. k
           /\ tokens[tokens[k].line].line = tokens[k].line
           /\ tokens[k].after <= revs[tokens[k].user]
    /\ \A k \in Tokens : k > ntokens => tokens[k] = NoToken
    /\ stored <= ntokens
    /\ \A k \in sessions : k <= ntokens /\ tokens[k].after = revs[tokens[k].user]

Inv == TypeOK /\ TasksAgree /\ Bounded /\ OtpsAgree /\ TokensAgree

-----------------------------------------------------------------------------
(* Lists of statements.                                                    *)

LEMMA ConstantTypes ==
    /\ MaxCodes \in Nat /\ MaxUsers \in Nat /\ MaxTokens \in Nat /\ MaxAttempts \in Nat
    /\ MaxRevocations \in Nat /\ MaxOverlaps \in Nat
BY AccountsAssumption

\* The list behind each statement is the only one it begins.
LEMMA ListOf ==
    ASSUME NEW l \in Lists
    PROVE  /\ l # <<>>
           /\ Head(l) = "claimSend" => l = <<"claimSend", "issue", "send">>
           /\ Head(l) = "ttl" => l = <<"ttl", "issue", "send">>
           /\ Head(l) = "issue" => l = <<"issue", "send">>
           /\ Head(l) = "send" => l = <<"send">>
           /\ Head(l) = "release" => l = <<"release">>
           /\ Head(l) = "verifyCode" => l = <<"verifyCode", "recheck", "create", "issueTokens", "reply">>
           /\ Head(l) = "recheck" => l = <<"recheck", "create", "issueTokens", "reply">>
           /\ Head(l) = "create" => l = <<"create", "issueTokens", "reply">>
           /\ Head(l) = "claimSession" => l = <<"claimSession", "active", "issueTokens", "reply">>
           /\ Head(l) = "active" => l = <<"active", "issueTokens", "reply">>
           /\ Head(l) = "issueTokens" => l = <<"issueTokens", "reply">>
           /\ Head(l) = "revoke" => l = <<"revoke", "reply">>
           /\ Head(l) = "reply" => l = <<"reply">>
           /\ Head(l) = "forgot" => l = <<"forgot">>
           /\ Head(l) = "reset" => l = <<"reset">>
           /\ Head(l) = "lock" => l = <<"lock">>
           /\ Head(l) = "unlock" => l = <<"unlock">>
BY DEF Lists

LEMMA ListType == \A l \in Lists \union {<<>>} : l \in Seq(Statements)
<1>1. /\ <<>> \in Seq(Statements)
      /\ <<"claimSend", "issue", "send">> \in Seq(Statements)
      /\ <<"ttl", "issue", "send">> \in Seq(Statements)
      /\ <<"issue", "send">> \in Seq(Statements)
      /\ <<"send">> \in Seq(Statements) /\ <<"release">> \in Seq(Statements)
      /\ <<"verifyCode", "recheck", "create", "issueTokens", "reply">> \in Seq(Statements)
      /\ <<"recheck", "create", "issueTokens", "reply">> \in Seq(Statements)
      /\ <<"create", "issueTokens", "reply">> \in Seq(Statements)
      /\ <<"claimSession", "active", "issueTokens", "reply">> \in Seq(Statements)
      /\ <<"active", "issueTokens", "reply">> \in Seq(Statements)
      /\ <<"issueTokens", "reply">> \in Seq(Statements)
      /\ <<"revoke", "reply">> \in Seq(Statements) /\ <<"reply">> \in Seq(Statements)
      /\ <<"forgot">> \in Seq(Statements) /\ <<"reset">> \in Seq(Statements)
      /\ <<"lock">> \in Seq(Statements) /\ <<"unlock">> \in Seq(Statements)
    BY DEF Statements
<1> QED
    BY <1>1 DEF Lists

\* A list holds the issue of a code, or of tokens, only as one of its later statements.
LEMMA ListHolds ==
    ASSUME NEW t, t.todo \in Lists \union {<<>>}
    PROVE  /\ Holds(t, "issue") <=> Starts(t, {"claimSend", "ttl", "issue"})
           /\ Holds(t, "issueTokens") <=>
                  Starts(t, {"verifyCode", "recheck", "create", "claimSession", "active", "issueTokens"})
BY DEF Lists, Holds, Starts
-----------------------------------------------------------------------------
(* Counting what is still to be issued.                                    *)

LEMMA DoingFinite == ASSUME NEW s PROVE IsFiniteSet(Doing(s)) /\ Coming(s) \in Nat
<1>1. Doing(s) \in SUBSET Requests
    BY DEF Doing
<1> QED
    BY <1>1, AccountsAssumption, FS_Subset, FS_CardinalityType DEF Coming

LEMMA DoingFewer ==
    ASSUME NEW s, Doing(s)' \subseteq Doing(s)
    PROVE  Coming(s)' \in Nat /\ Coming(s)' <= Coming(s)
<1>1. IsFiniteSet(Doing(s))
    BY DoingFinite
<1> QED
    BY <1>1, FS_Subset, FS_CardinalityType DEF Coming

LEMMA DoingOneLess ==
    ASSUME NEW s, NEW r \in Doing(s), Doing(s)' \subseteq Doing(s) \ {r}
    PROVE  Coming(s)' \in Nat /\ Coming(s)' + 1 <= Coming(s)
<1>1. IsFiniteSet(Doing(s)) /\ Coming(s) \in Nat
    BY DoingFinite
<1>2. IsFiniteSet(Doing(s) \ {r}) /\ Cardinality(Doing(s) \ {r}) = Coming(s) - 1
    BY <1>1, FS_RemoveElement DEF Coming
<1>3. IsFiniteSet(Doing(s)') /\ Coming(s)' <= Cardinality(Doing(s) \ {r})
    BY <1>2, FS_Subset DEF Coming
<1>4. Coming(s)' \in Nat
    BY <1>3, FS_CardinalityType DEF Coming
<1> QED
    BY <1>1, <1>2, <1>3, <1>4

LEMMA DoingOneMore ==
    ASSUME NEW s, NEW r, Doing(s)' \subseteq Doing(s) \union {r}
    PROVE  Coming(s)' \in Nat /\ Coming(s)' <= Coming(s) + 1
<1>1. IsFiniteSet(Doing(s)) /\ Coming(s) \in Nat
    BY DoingFinite
<1>2. IsFiniteSet(Doing(s) \union {r}) /\ Cardinality(Doing(s) \union {r}) <= Coming(s) + 1
    BY <1>1, FS_AddElement DEF Coming
<1>3. IsFiniteSet(Doing(s)') /\ Coming(s)' <= Cardinality(Doing(s) \union {r})
    BY <1>2, FS_Subset DEF Coming
<1>4. Coming(s)' \in Nat /\ Cardinality(Doing(s) \union {r}) \in Nat
    BY <1>2, <1>3, FS_CardinalityType DEF Coming
<1> QED
    BY <1>1, <1>2, <1>3, <1>4

-----------------------------------------------------------------------------
(* The initial states, and what the steps of handlers have in common.      *)

LEMMA RestingType == Resting \in Task /\ \A n \in Nat : \A a, v : Agrees(Resting, n, a, v)
<1>1. Resting.todo = <<>> /\ Resting.token = 0 /\ ~ \E S : Starts(Resting, S)
    BY DEF Resting, Starts
<1>2. <<>> \in Seq(Statements)
    OBVIOUS
<1>3. Resting \in Task
    BY <1>2, ConstantTypes DEF Resting, Task, Kinds
<1> QED
    BY <1>1, <1>3 DEF Agrees

LEMMA InitInv == Init => Inv
<1> SUFFICES ASSUME Init PROVE Inv
    OBVIOUS
<1> USE ConstantTypes
<1>1. NoOtp \in Otp /\ NoToken \in Token
    BY DEF NoOtp, Otp, NoToken, Token
<1>2. TypeOK
  <2>1. task \in [Requests -> Task]
      BY RestingType DEF Init
  <2>2. otp \in [Handles -> Otp] /\ tokens \in [Tokens -> Token]
      BY <1>1 DEF Init
  <2>3. /\ ncodes \in 0 .. MaxCodes /\ ntokens \in 0 .. MaxTokens /\ stored \in 0 .. MaxTokens
        /\ links \in [Links -> 0 .. MaxUsers]
      BY DEF Init
  <2>4. matched \in [Codes -> Nat] /\ users \in [Users -> {"none", "active", "inactive"}] /\ revs \in [Users -> Nat]
      BY DEF Init
  <2> QED
      BY <2>1, <2>2, <2>3, <2>4 DEF Init, TypeOK
<1>3. TasksAgree
    BY RestingType DEF Init, TasksAgree
<1>4. \A s : Doing(s) = {}
    BY DEF Init, Doing, Resting
<1>5. \A s : Coming(s) = 0
    BY <1>4, FS_EmptySet DEF Coming
<1>6. Bounded
    BY <1>5 DEF Bounded, Init
<1>7. OtpsAgree
    BY DEF Init, OtpsAgree, NoOtp
<1>8. TokensAgree
    BY DEF Init, TokensAgree, NoToken, Tokens
<1> QED
    BY <1>2, <1>3, <1>6, <1>7, <1>8 DEF Inv

\* Revocations are counted, and an account is deactivated only with one.
Grown(n, m, a, b, v, w) ==
    /\ n \in Nat /\ m \in Nat /\ n <= m
    /\ v \in [Users -> Nat] /\ w \in [Users -> Nat]
    /\ \A u \in Users : v[u] <= w[u] /\ (b[u] = "inactive" => a[u] = "inactive" \/ v[u] < w[u])
Growing == Grown(ntokens, ntokens', users, users', revs, revs')

LEMMA AgreesStable ==
    ASSUME NEW t \in Task, NEW n, NEW m, NEW a, NEW b, NEW v, NEW w,
           Grown(n, m, a, b, v, w), Agrees(t, n, a, v)
    PROVE  Agrees(t, m, b, w)
<1> USE ConstantTypes DEF Grown
<1>1. t.token \in Nat /\ t.since \in Nat
    BY DEF Task
<1>2. t.token <= m
    BY <1>1 DEF Agrees
<1>3. ASSUME Starts(t, {"claimSession", "active", "issueTokens"})
      PROVE  t.user \in Users /\ t.since <= w[t.user] /\ (t.kind \in Exchanges => t.token # 0)
    BY <1>1, <1>3 DEF Agrees
<1>4. ASSUME Starts(t, {"issueTokens"}), b[t.user] = "inactive"
      PROVE  t.since < w[t.user]
  <2>1. t.user \in Users /\ t.since <= v[t.user]
      BY <1>4 DEF Agrees, Starts
  <2> QED
      BY <1>1, <1>4, <2>1 DEF Agrees
<1> QED
    BY <1>2, <1>3, <1>4 DEF Agrees

\* The task of one request changes, those of the others go on as they were.
LEMMA OneTask ==
    ASSUME Inv, NEW r \in Requests, NEW t \in Task, task' = [task EXCEPT ![r] = t], Growing,
           Agrees(t, ntokens', users', revs')
    PROVE  task' \in [Requests -> Task] /\ TasksAgree'
<1>1. /\ task' \in [Requests -> Task]
      /\ task'[r] = t
      /\ \A q \in Requests : q # r => task'[q] = task[q]
    BY DEF Inv, TypeOK
<1>2. ASSUME NEW q \in Requests, q # r PROVE Agrees(task[q], ntokens', users', revs')
  <2>1. task[q] \in Task
      BY DEF Inv, TypeOK
  <2>2. Agrees(task[q], ntokens, users, revs)
      BY DEF Inv, TasksAgree
  <2> QED
      BY <2>1, <2>2, AgreesStable DEF Growing
<1> QED
    BY <1>1, <1>2 DEF TasksAgree

\* A task that holds no more statements than it did leaves the room that was left.
LEMMA KeepsBounded ==
    ASSUME Inv, NEW r \in Requests, NEW t \in Task, task' = [task EXCEPT ![r] = t],
           UNCHANGED <<ncodes, ntokens>>,
           Holds(t, "issue") => Holds(task[r], "issue"),
           Holds(t, "issueTokens") => Holds(task[r], "issueTokens")
    PROVE  Bounded'
<1>1. Doing("issue")' \subseteq Doing("issue") /\ Doing("issueTokens")' \subseteq Doing("issueTokens")
    BY DEF Inv, TypeOK, Doing, Holds
<1>2. \A s \in {"issue", "issueTokens"} : Coming(s) \in Nat /\ Coming(s)' \in Nat /\ Coming(s)' <= Coming(s)
    BY <1>1, DoingFinite, DoingFewer
<1> QED
    BY <1>2, ConstantTypes DEF Inv, TypeOK, Bounded

LEMMA KeepsOtps ==
    ASSUME Inv, UNCHANGED <<otp, ncodes, matched>>
    PROVE  OtpsAgree'
BY DEF Inv, OtpsAgree

LEMMA KeepsTokens ==
    ASSUME Inv, UNCHANGED <<tokens, ntokens, revs>>, sessions' \subseteq sessions, stored' \in {0, stored}
    PROVE  TokensAgree'
BY ConstantTypes DEF Inv, TypeOK, TokensAgree

LEMMA Unchanged ==
    ASSUME Inv, UNCHANGED <<ntokens, users, revs>>
    PROVE  Growing
BY ConstantTypes DEF Inv, TypeOK, Growing, Grown

-----------------------------------------------------------------------------
(* Starting a handler.                                                     *)

\* A handler that starts changes its own task, and asks for room for what it will issue.
LEMMA BeginKeepsInv ==
    ASSUME Inv, NEW r \in Requests, NEW t \in Task, Agrees(t, ntokens, users, revs), Begin(r, t),
           Holds(t, "issue") => CanIssueCode, Holds(t, "issueTokens") => CanIssueTokens
    PROVE  Inv'
<1>1. /\ task' = [task EXCEPT ![r] = t]
      /\ UNCHANGED <<redisVars, tokenVars, userVars, webVars>>
      /\ overlaps' \in Nat
    BY DEF Begin, Inv, TypeOK
<1>2. Growing
    BY <1>1, Unchanged DEF tokenVars, userVars
<1>3. task' \in [Requests -> Task] /\ TasksAgree'
    BY <1>1, <1>2, OneTask DEF tokenVars, userVars
<1>4. TypeOK'
    BY <1>1, <1>3 DEF Inv, TypeOK, redisVars, tokenVars, userVars, webVars, Codes, Users, Tokens
<1>5. ASSUME NEW s PROVE /\ Coming(s) \in Nat /\ Coming(s)' \in Nat
                         /\ Coming(s)' <= Coming(s) + 1
                         /\ ~Holds(t, s) => Coming(s)' <= Coming(s)
  <2>1. Doing(s)' \subseteq Doing(s) \union {r}
      BY <1>1 DEF Inv, TypeOK, Doing
  <2>2. ~Holds(t, s) => Doing(s)' \subseteq Doing(s)
      BY <1>1 DEF Inv, TypeOK, Doing, Holds
  <2> QED
      BY <2>1, <2>2, DoingFinite, DoingOneMore, DoingFewer
<1>6. Bounded'
  <2>1. ncodes \in Nat /\ ntokens \in Nat /\ UNCHANGED <<ncodes, ntokens>>
      BY <1>1, ConstantTypes DEF Inv, TypeOK, redisVars, tokenVars
  <2>2. ncodes + Coming("issue")' <= MaxCodes
      BY <1>5, <2>1, ConstantTypes DEF Inv, Bounded, CanIssueCode
  <2>3. ntokens + Coming("issueTokens")' <= MaxTokens
      BY <1>5, <2>1, ConstantTypes DEF Inv, Bounded, CanIssueTokens
  <2> QED
      BY <2>1, <2>2, <2>3 DEF Bounded
<1>7. OtpsAgree'
    BY <1>1, KeepsOtps DEF redisVars
<1>8. TokensAgree'
    BY <1>1, KeepsTokens DEF tokenVars, userVars, webVars
<1> QED
    BY <1>3, <1>4, <1>6, <1>7, <1>8 DEF Inv

\* What a handler may rely on when it starts, by the first statement it executes.
LEMMA StartAgrees ==
    ASSUME NEW t, NEW n \in Nat, NEW a, NEW v,
           t.todo \in Lists, t.token \in 0 .. n,
           Head(t.todo) \in {"claimSend", "verifyCode", "issueTokens", "claimSession", "revoke", "reply",
                             "forgot", "reset", "lock", "unlock"},
           Head(t.todo) = "verifyCode" => t.handle \in Handles /\ t.kind = "verify" /\ t.since = 0,
           Head(t.todo) = "claimSession" =>
               t.kind \in Exchanges /\ t.token # 0 /\ t.user \in Users /\ t.since <= v[t.user],
           Head(t.todo) = "issueTokens" =>
               t.kind = "login" /\ t.user \in Users /\ t.since <= v[t.user] /\ a[t.user] = "active"
    PROVE  Agrees(t, n, a, v)
BY DEF Agrees, Starts, Exchanges

LEMMA StartKeepsInv ==
    ASSUME Inv, NEW r \in Requests, Start(r)
    PROVE  Inv'
<1>0. /\ 0 \in Nat /\ ntokens \in Nat /\ ncodes \in Nat /\ stored \in 0 .. MaxTokens /\ stored \in 0 .. ntokens
      /\ 0 \in 0 .. MaxUsers /\ 0 \in 0 .. MaxTokens /\ 0 \in 0 .. MaxCodes /\ 0 \in 0 .. ntokens
      /\ Users \subseteq 0 .. MaxUsers
      /\ \A u \in Users : revs[u] \in Nat
    BY ConstantTypes DEF Inv, TypeOK, TokensAgree, Users
<1> USE DEF Resting, Task, Kinds
<1>1. ASSUME NEW h \in Handles, NEW kind \in {"register", "resend"}, CanIssueCode,
             Begin(r, [Resting EXCEPT !.kind = kind, !.handle = h, !.todo = <<"claimSend", "issue", "send">>])
      PROVE  Inv'
  <2> DEFINE t == [Resting EXCEPT !.kind = kind, !.handle = h, !.todo = <<"claimSend", "issue", "send">>]
  <2>1. t.todo \in Lists /\ t.todo \in Seq(Statements) /\ Head(t.todo) = "claimSend" /\ t.token = 0
      BY ListType DEF Lists
  <2>2. t \in Task
      BY <1>0, <2>1
  <2> HIDE DEF t
  <2>3. Agrees(t, ntokens, users, revs)
      BY <1>0, <2>1, StartAgrees
  <2>4. ~Holds(t, "issueTokens")
      BY <2>1, ListHolds DEF Starts
  <2> QED
      BY <1>1, <2>2, <2>3, <2>4, BeginKeepsInv DEF t
<1>2. ASSUME NEW t0 \in Tabs, NEW h \in Handles, NEW c \in 0 .. ncodes, VerifyEmailOtp(r, t0, h, c)
      PROVE  Inv'
  <2> DEFINE t == [Resting EXCEPT !.kind = "verify", !.tab = t0, !.handle = h, !.code = c,
                                  !.todo = <<"verifyCode", "recheck", "create", "issueTokens", "reply">>]
  <2>1. /\ t.todo \in Lists /\ t.todo \in Seq(Statements) /\ Head(t.todo) = "verifyCode" /\ t.token = 0
        /\ t.handle \in Handles /\ t.kind = "verify" /\ t.since = 0
      BY ListType DEF Lists
  <2>2. t \in Task
    <3>1. c \in 0 .. MaxCodes
        BY ConstantTypes DEF Inv, TypeOK
    <3> QED
        BY <1>0, <2>1, <3>1
  <2>3. Begin(r, t) /\ CanIssueTokens
      BY <1>2 DEF VerifyEmailOtp
  <2> HIDE DEF t
  <2>4. Agrees(t, ntokens, users, revs)
      BY <1>0, <2>1, StartAgrees
  <2>5. ~Holds(t, "issue")
      BY <2>1, ListHolds DEF Starts
  <2> QED
      BY <2>2, <2>3, <2>4, <2>5, BeginKeepsInv
<1>3. ASSUME NEW t0 \in Tabs, NEW u \in Users, Login(r, t0, u)
      PROVE  Inv'
  <2> DEFINE t == [Resting EXCEPT !.kind = "login", !.tab = t0, !.user = u, !.since = revs[u],
                                  !.todo = <<"issueTokens", "reply">>]
  <2>1. /\ t.todo \in Lists /\ t.todo \in Seq(Statements) /\ Head(t.todo) = "issueTokens" /\ t.token = 0
        /\ t.kind = "login" /\ t.user = u /\ t.since = revs[u]
      BY ListType DEF Lists
  <2>2. t \in Task
      BY <1>0, <2>1
  <2>3. Begin(r, t) /\ CanIssueTokens /\ users[u] = "active"
      BY <1>3 DEF Login
  <2> HIDE DEF t
  <2>4. Agrees(t, ntokens, users, revs)
      BY <1>0, <2>1, <2>3, StartAgrees
  <2>5. ~Holds(t, "issue")
      BY <2>1, ListHolds DEF Starts
  <2> QED
      BY <2>2, <2>3, <2>4, <2>5, BeginKeepsInv
<1>4. ASSUME NEW t0 \in Tabs, Refresh(r, t0)
      PROVE  Inv'
  <2> DEFINE kind == IF t0 \in signedIn THEN "refresh" ELSE "bootstrap"
             u == tokens[stored].user
             t == [Resting EXCEPT !.kind = kind, !.tab = t0, !.token = stored, !.user = u, !.since = revs[u],
                                  !.todo = <<"claimSession", "active", "issueTokens", "reply">>]
  <2>1. u \in Users /\ kind \in Exchanges /\ stored # 0
      BY <1>0, <1>4, ConstantTypes DEF Refresh, Inv, TokensAgree, Tokens, Exchanges
  <2>2. Begin(r, t) /\ CanIssueTokens
      BY <1>4 DEF Refresh
  <2> HIDE DEF kind, u
  <2>3. /\ t.todo \in Lists /\ t.todo \in Seq(Statements) /\ Head(t.todo) = "claimSession" /\ t.token = stored
        /\ t.kind = kind /\ t.user = u /\ t.since = revs[u]
      BY ListType DEF Lists
  <2>4. t \in Task
      BY <1>0, <2>1, <2>3 DEF Exchanges
  <2> HIDE DEF t
  <2>5. Agrees(t, ntokens, users, revs)
      BY <1>0, <2>1, <2>3, StartAgrees
  <2>6. ~Holds(t, "issue")
      BY <2>3, ListHolds DEF Starts
  <2> QED
      BY <2>2, <2>4, <2>5, <2>6, BeginKeepsInv
<1>5. ASSUME NEW t0 \in Tabs, Logout(r, t0)
      PROVE  Inv'
  <2> DEFINE l == IF stored = 0 THEN <<"reply">> ELSE <<"revoke", "reply">>
             t == [Resting EXCEPT !.kind = "logout", !.tab = t0, !.token = stored, !.todo = l]
  <2>1. l \in Lists /\ l \in Seq(Statements) /\ Head(l) \in {"reply", "revoke"}
      BY ListType DEF Lists
  <2>2. Begin(r, t)
      BY <1>5 DEF Logout
  <2> HIDE DEF l
  <2>3. t.todo = l /\ t.token = stored
      OBVIOUS
  <2>4. t \in Task
      BY <1>0, <2>1, <2>3
  <2> HIDE DEF t
  <2>5. Agrees(t, ntokens, users, revs)
      BY <1>0, <2>1, <2>3, StartAgrees
  <2>6. ~Holds(t, "issue") /\ ~Holds(t, "issueTokens")
      BY <2>1, <2>3, ListHolds DEF Starts
  <2> QED
      BY <2>2, <2>4, <2>5, <2>6, BeginKeepsInv
<1>6. ASSUME NEW kind \in {"forgot", "reset", "lock", "unlock"}, NEW t \in Task,
             t.todo = <<kind>>, t.token = 0, Begin(r, t)
      PROVE  Inv'
  <2>1. <<kind>> \in Lists /\ Head(<<kind>>) = kind
      BY DEF Lists
  <2> HIDE DEF Task
  <2>2. Agrees(t, ntokens, users, revs)
      BY <1>0, <1>6, <2>1, StartAgrees
  <2>3. ~Holds(t, "issue") /\ ~Holds(t, "issueTokens")
      BY <1>6, <2>1, ListHolds DEF Starts
  <2> QED
      BY <1>6, <2>2, <2>3, BeginKeepsInv
<1>7. ASSUME NEW u \in 0 .. MaxUsers, NEW l \in Links, NEW kind \in {"forgot", "reset"}
      PROVE  LET t == [Resting EXCEPT !.kind = kind, !.link = l, !.user = u, !.todo = <<kind>>]
             IN  t \in Task /\ t.todo = <<kind>> /\ t.token = 0
  <2>1. <<kind>> \in Seq(Statements)
      BY ListType DEF Lists
  <2> QED
      BY <1>0, <2>1
<1>8. ASSUME NEW u \in Users, NEW kind \in {"lock", "unlock"}
      PROVE  LET t == [Resting EXCEPT !.kind = kind, !.user = u, !.todo = <<kind>>]
             IN  t \in Task /\ t.todo = <<kind>> /\ t.token = 0
  <2>1. <<kind>> \in Seq(Statements)
      BY ListType DEF Lists
  <2> QED
      BY <1>0, <2>1
<1>9. \A l \in Links : links[l] \in 0 .. MaxUsers
    BY DEF Inv, TypeOK
<1> HIDE DEF Resting, Task, Kinds
<1>10. CASE \E h \in Handles : Register(r, h) \/ Resend(r, h)
    BY <1>1, <1>10 DEF Register, Resend
<1>11. CASE \E l \in Links : ResetPassword(r, l) \/ \E u \in Users : ForgotPassword(r, l, u)
    BY <1>0, <1>6, <1>7, <1>9, <1>11 DEF ResetPassword, ForgotPassword
<1>12. CASE \E u \in Users : Deactivate(r, u) \/ Reactivate(r, u)
    BY <1>6, <1>8, <1>12 DEF Deactivate, Reactivate
<1> QED
    BY <1>2, <1>3, <1>4, <1>5, <1>10, <1>11, <1>12 DEF Start

-----------------------------------------------------------------------------
(* The statements of a running handler.                                    *)

LEMMA Running ==
    ASSUME Inv, NEW r \in Requests, NEW s, At(r, s)
    PROVE  /\ task[r] \in Task
           /\ task[r].todo \in Lists
           /\ Head(task[r].todo) = s
           /\ Agrees(task[r], ntokens, users, revs)
BY DEF Inv, TypeOK, TasksAgree, Agrees, At

\* What remains of a list when its first statement was executed.
LEMMA TailOf ==
    ASSUME NEW l \in Lists
    PROVE  /\ Tail(l) \in Lists \union {<<>>}
           /\ Head(l) \in {"claimSend", "ttl"} => Tail(l) = <<"issue", "send">>
           /\ Head(l) = "issue" => Tail(l) = <<"send">>
           /\ Head(l) = "verifyCode" => Tail(l) = <<"recheck", "create", "issueTokens", "reply">>
           /\ Head(l) = "recheck" => Tail(l) = <<"create", "issueTokens", "reply">>
           /\ Head(l) = "claimSession" => Tail(l) = <<"active", "issueTokens", "reply">>
           /\ Head(l) \in {"create", "active"} => Tail(l) = <<"issueTokens", "reply">>
           /\ Head(l) \in {"issueTokens", "revoke"} => Tail(l) = <<"reply">>
           /\ Head(l) \in {"send", "release", "reply", "forgot", "reset", "lock", "unlock"} => Tail(l) = <<>>
<1>0. /\ Tail(<<"claimSend", "issue", "send">>) = <<"issue", "send">>
      /\ Tail(<<"ttl", "issue", "send">>) = <<"issue", "send">>
      /\ Tail(<<"issue", "send">>) = <<"send">>
      /\ Tail(<<"verifyCode", "recheck", "create", "issueTokens", "reply">>)
           = <<"recheck", "create", "issueTokens", "reply">>
      /\ Tail(<<"recheck", "create", "issueTokens", "reply">>) = <<"create", "issueTokens", "reply">>
      /\ Tail(<<"create", "issueTokens", "reply">>) = <<"issueTokens", "reply">>
      /\ Tail(<<"claimSession", "active", "issueTokens", "reply">>) = <<"active", "issueTokens", "reply">>
      /\ Tail(<<"active", "issueTokens", "reply">>) = <<"issueTokens", "reply">>
      /\ Tail(<<"issueTokens", "reply">>) = <<"reply">> /\ Tail(<<"revoke", "reply">>) = <<"reply">>
      /\ Tail(<<"send">>) = <<>> /\ Tail(<<"release">>) = <<>> /\ Tail(<<"reply">>) = <<>>
      /\ Tail(<<"forgot">>) = <<>> /\ Tail(<<"reset">>) = <<>>
      /\ Tail(<<"lock">>) = <<>> /\ Tail(<<"unlock">>) = <<>>
    OBVIOUS
<1>1. /\ Head(l) \in {"claimSend", "ttl"} => Tail(l) = <<"issue", "send">>
      /\ Head(l) = "issue" => Tail(l) = <<"send">>
    BY <1>0, ListOf
<1>2. /\ Head(l) = "verifyCode" => Tail(l) = <<"recheck", "create", "issueTokens", "reply">>
      /\ Head(l) = "recheck" => Tail(l) = <<"create", "issueTokens", "reply">>
      /\ Head(l) = "claimSession" => Tail(l) = <<"active", "issueTokens", "reply">>
    BY <1>0, ListOf
<1>3. Head(l) \in {"create", "active"} => Tail(l) = <<"issueTokens", "reply">>
    BY <1>0, ListOf
<1>4. Head(l) \in {"issueTokens", "revoke"} => Tail(l) = <<"reply">>
    BY <1>0, ListOf
<1>5. Head(l) \in {"send", "release", "reply", "forgot", "reset", "lock", "unlock"} => Tail(l) = <<>>
    BY <1>0, ListOf
<1>6. Head(l) \in {"claimSend", "ttl", "issue", "verifyCode", "recheck", "claimSession", "create", "active",
                   "issueTokens", "revoke", "send", "release", "reply", "forgot", "reset", "lock", "unlock"}
    BY DEF Lists
<1>7. Tail(l) \in Lists \union {<<>>}
    BY <1>1, <1>2, <1>3, <1>4, <1>5, <1>6 DEF Lists
<1> QED
    BY <1>1, <1>2, <1>3, <1>4, <1>5, <1>7

\* The rest of a handler's list is a list, and holds nothing new.
LEMMA RestType ==
    ASSUME Inv, NEW r \in Requests, NEW s, At(r, s)
    PROVE  /\ Rest(task[r]) \in Task
           /\ Tail(task[r].todo) = <<>> => Rest(task[r]) = Resting
           /\ Tail(task[r].todo) # <<>> =>
                  /\ Tail(task[r].todo) \in Lists
                  /\ Rest(task[r]) = [task[r] EXCEPT !.todo = Tail(task[r].todo)]
           /\ \A x : Holds(Rest(task[r]), x) => Holds(task[r], x)
<1>1. task[r] \in Task /\ task[r].todo \in Lists /\ task[r].todo # <<>> /\ task[r].todo \in Seq(Statements)
    BY Running, ListOf, ListType
<1>2. Tail(task[r].todo) \in Seq(Statements)
    BY <1>1
<1>3. [task[r] EXCEPT !.todo = Tail(task[r].todo)] \in Task
    BY <1>1, <1>2 DEF Task
<1>4. ASSUME NEW x, Holds(Rest(task[r]), x) PROVE Holds(task[r], x)
  <2>1. Tail(task[r].todo) # <<>>
      BY <1>4 DEF Rest, Holds, Resting
  <2>2. Rest(task[r]).todo = Tail(task[r].todo)
      BY <1>1, <2>1 DEF Rest, Task
  <2>3. PICK k \in DOMAIN Tail(task[r].todo) : Tail(task[r].todo)[k] = x
      BY <1>4, <2>2 DEF Holds
  <2>4. k + 1 \in DOMAIN task[r].todo /\ task[r].todo[k + 1] = x
      BY <1>1, <2>3
  <2> QED
      BY <2>4 DEF Holds
<1>5. Tail(task[r].todo) # <<>> => Tail(task[r].todo) \in Lists
    BY <1>1, TailOf
<1>6. Rest(task[r]) = IF Tail(task[r].todo) = <<>> THEN Resting ELSE [task[r] EXCEPT !.todo = Tail(task[r].todo)]
    BY DEF Rest
<1> QED
    BY <1>3, <1>4, <1>5, <1>6, RestingType

\* A handler that just goes on may rely on what it did.
LEMMA RestAgrees ==
    ASSUME Inv, NEW r \in Requests, NEW s \in Statements \ {"create", "active"}, At(r, s)
    PROVE  Agrees(Rest(task[r]), ntokens, users, revs)
<1>1. /\ task[r] \in Task /\ task[r].todo \in Lists /\ Head(task[r].todo) = s
      /\ Agrees(task[r], ntokens, users, revs)
      /\ ntokens \in Nat /\ task[r].todo # <<>>
    BY Running, ListOf, ConstantTypes DEF Inv, TypeOK
<1>2. CASE Tail(task[r].todo) = <<>>
  <2>1. Rest(task[r]) = Resting
      BY <1>2, RestType
  <2> QED
      BY <1>1, <2>1, RestingType
<1>3. CASE Tail(task[r].todo) # <<>>
  <2> DEFINE x == Rest(task[r])
  <2>1. /\ x.todo = Tail(task[r].todo) /\ x.todo \in Lists
        /\ x.token = task[r].token /\ x.kind = task[r].kind /\ x.since = task[r].since /\ x.user = task[r].user
        /\ x.handle = task[r].handle
    <3>1. x = [task[r] EXCEPT !.todo = Tail(task[r].todo)] /\ Tail(task[r].todo) \in Lists
        BY <1>3, RestType
    <3> QED
        BY <1>1, <3>1 DEF Task
  <2>2. /\ s = "verifyCode" => Head(x.todo) = "recheck"
        /\ s = "recheck" => Head(x.todo) = "create"
        /\ s = "claimSession" => Head(x.todo) = "active"
        /\ s \notin {"verifyCode", "recheck", "claimSession"} => Head(x.todo) \in {"issue", "send", "reply"}
    <3> HIDE DEF x
    <3>1. /\ s = "verifyCode" => x.todo = <<"recheck", "create", "issueTokens", "reply">>
          /\ s = "recheck" => x.todo = <<"create", "issueTokens", "reply">>
          /\ s = "claimSession" => x.todo = <<"active", "issueTokens", "reply">>
          /\ s \notin {"verifyCode", "recheck", "claimSession"} =>
                 x.todo = <<"issue", "send">> \/ x.todo = <<"send">> \/ x.todo = <<"reply">>
        BY <1>1, <1>3, <2>1, TailOf DEF Statements
    <3> QED
        BY <3>1
  <2> HIDE DEF x
  <2>3. Agrees(x, ntokens, users, revs)
      BY <1>1, <2>1, <2>2 DEF Agrees, Starts
  <2> QED
      BY <2>3 DEF x
<1> QED
    BY <1>2, <1>3

\* A handler that gives up, or has only its answer to give, relies on nothing.
LEMMA ReplyAgrees ==
    ASSUME Inv, NEW t \in Task, t.token <= ntokens, NEW ok \in BOOLEAN
    PROVE  /\ [t EXCEPT !.ok = ok, !.todo = <<"reply">>] \in Task
           /\ Agrees([t EXCEPT !.ok = ok, !.todo = <<"reply">>], ntokens, users, revs)
           /\ ~Holds([t EXCEPT !.ok = ok, !.todo = <<"reply">>], "issue")
           /\ ~Holds([t EXCEPT !.ok = ok, !.todo = <<"reply">>], "issueTokens")
<1> DEFINE x == [t EXCEPT !.ok = ok, !.todo = <<"reply">>]
<1>1. <<"reply">> \in Lists /\ <<"reply">> \in Seq(Statements)
    BY ListType DEF Lists
<1>2. x \in Task /\ x.todo = <<"reply">> /\ x.token = t.token
    BY <1>1 DEF Task
<1> HIDE DEF x
<1>3. Agrees(x, ntokens, users, revs) /\ ~Holds(x, "issue") /\ ~Holds(x, "issueTokens")
    BY <1>1, <1>2 DEF Agrees, Starts, Holds
<1> QED
    BY <1>2, <1>3 DEF x

\* A statement that issues nothing, revokes nothing and touches no code.
LEMMA PlainStep ==
    ASSUME Inv, NEW r \in Requests, NEW t \in Task, task' = [task EXCEPT ![r] = t],
           Agrees(t, ntokens, users, revs),
           Holds(t, "issue") => Holds(task[r], "issue"),
           Holds(t, "issueTokens") => Holds(task[r], "issueTokens"),
           UNCHANGED <<otp, ncodes, matched, tokens, ntokens, users, revs, overlaps>>,
           cooldown' \in BOOLEAN, links' \in [Links -> 0 .. MaxUsers], sessions' \subseteq sessions,
           stored' \in 0 .. ntokens, signedIn' \subseteq Tabs, displaced' \subseteq Tokens, lost' \in BOOLEAN
    PROVE  Inv'
<1>1. Growing
    BY Unchanged
<1>2. task' \in [Requests -> Task] /\ TasksAgree'
    BY <1>1, OneTask
<1>3. Bounded'
    BY KeepsBounded
<1>4. OtpsAgree'
    BY KeepsOtps
<1>5. TokensAgree' /\ stored' \in 0 .. MaxTokens /\ sessions' \subseteq Tokens
    BY ConstantTypes DEF Inv, TypeOK, TokensAgree
<1>6. TypeOK'
    BY <1>2, <1>5 DEF Inv, TypeOK, Codes, Users, Tokens
<1> QED
    BY <1>2, <1>3, <1>4, <1>5, <1>6 DEF Inv

LEMMA ContinueStep ==
    ASSUME Inv, NEW r \in Requests, NEW s \in Statements \ {"create", "active"}, At(r, s), Continue(r),
           UNCHANGED <<otp, ncodes, matched, tokens, ntokens, users, revs, overlaps>>,
           cooldown' \in BOOLEAN, links' \in [Links -> 0 .. MaxUsers], sessions' \subseteq sessions,
           stored' \in 0 .. ntokens, signedIn' \subseteq Tabs, displaced' \subseteq Tokens, lost' \in BOOLEAN
    PROVE  Inv'
<1>1. Rest(task[r]) \in Task /\ (\A x : Holds(Rest(task[r]), x) => Holds(task[r], x))
    BY RestType
<1>2. Agrees(Rest(task[r]), ntokens, users, revs)
    BY RestAgrees
<1>3. task' = [task EXCEPT ![r] = Rest(task[r])]
    BY DEF Continue
<1> QED
    BY <1>1, <1>2, <1>3, PlainStep

LEMMA AbortStep ==
    ASSUME Inv, NEW r \in Requests, NEW s, At(r, s), Abort(r),
           UNCHANGED <<otp, ncodes, matched, tokens, ntokens, users, revs, overlaps>>,
           cooldown' \in BOOLEAN, links' \in [Links -> 0 .. MaxUsers], sessions' \subseteq sessions,
           UNCHANGED <<stored, signedIn, displaced, lost>>
    PROVE  Inv'
<1>1. task[r] \in Task /\ task[r].token <= ntokens /\ ntokens \in Nat
    BY Running, ConstantTypes DEF Agrees, Inv, TypeOK
<1>2. /\ Refused(task[r]) \in Task
      /\ Agrees(Refused(task[r]), ntokens, users, revs)
      /\ ~Holds(Refused(task[r]), "issue")
      /\ ~Holds(Refused(task[r]), "issueTokens")
  <2>1. CASE task[r].kind \in Exchanges
      BY <1>1, <2>1, ReplyAgrees DEF Refused
  <2>2. CASE task[r].kind \notin Exchanges
    <3>1. Refused(task[r]) = Resting /\ Resting.todo = <<>>
        BY <2>2 DEF Refused, Resting
    <3> QED
        BY <1>1, <3>1, RestingType DEF Holds
  <2> QED
      BY <2>1, <2>2
<1>3. task' = [task EXCEPT ![r] = Refused(task[r])]
    BY DEF Abort
<1>4. stored' \in 0 .. ntokens /\ signedIn' \subseteq Tabs /\ displaced' \subseteq Tokens /\ lost' \in BOOLEAN
    BY ConstantTypes DEF Inv, TypeOK, TokensAgree
<1> QED
    BY <1>1, <1>2, <1>3, <1>4, PlainStep

\* What a statement leaves alone is as it was.
LEMMA Typed ==
    ASSUME Inv
    PROVE  /\ cooldown \in BOOLEAN /\ links \in [Links -> 0 .. MaxUsers]
           /\ stored \in 0 .. ntokens /\ signedIn \subseteq Tabs /\ displaced \subseteq Tokens /\ lost \in BOOLEAN
           /\ ntokens \in Nat /\ ncodes \in Nat
BY ConstantTypes DEF Inv, TypeOK, TokensAgree

LEMMA MailingKeepsInv ==
    ASSUME Inv, NEW r \in Requests, ClaimSend(r) \/ Ttl(r) \/ Send(r) \/ ReleaseSend(r)
    PROVE  Inv'
<1> USE Typed DEF tokenVars, userVars, webVars, redisVars
<1> "claimSend" \in Statements /\ "ttl" \in Statements /\ "send" \in Statements /\ "release" \in Statements
    BY DEF Statements
<1>1. CASE ClaimSend(r)
  <2> DEFINE t == [task[r] EXCEPT !.todo = <<"ttl", "issue", "send">>]
  <2>0. At(r, "claimSend") /\ cooldown' = TRUE
        /\ UNCHANGED <<otp, ncodes, matched, tokenVars, userVars, webVars, overlaps>>
        /\ task' = [task EXCEPT ![r].todo = IF cooldown THEN <<"ttl">> \o Tail(@) ELSE Tail(@)]
      BY <1>1 DEF ClaimSend
  <2>1. /\ task[r] \in Task /\ task[r].todo \in Lists /\ Head(task[r].todo) = "claimSend"
        /\ Agrees(task[r], ntokens, users, revs)
      BY <2>0, Running
  <2>2. Tail(task[r].todo) = <<"issue", "send">>
      BY <2>1, TailOf
  <2>3. CASE cooldown
    <3>1. <<"ttl">> \o <<"issue", "send">> = <<"ttl", "issue", "send">>
      <4> DEFINE l == <<"ttl">> \o <<"issue", "send">>
      <4>1. <<"ttl">> \in Seq({"ttl", "issue", "send"}) /\ <<"issue", "send">> \in Seq({"ttl", "issue", "send"})
          OBVIOUS
      <4>2. l \in Seq({"ttl", "issue", "send"}) /\ Len(l) = 3 /\ l[1] = "ttl" /\ l[2] = "issue" /\ l[3] = "send"
          BY <4>1
      <4> HIDE DEF l
      <4>3. l = [k \in 1 .. 3 |-> l[k]]
          BY <4>2
      <4>4. <<"ttl", "issue", "send">> = [k \in 1 .. 3 |-> l[k]]
          BY <4>2
      <4> QED
          BY <4>3, <4>4 DEF l
    <3>2. task' = [task EXCEPT ![r] = t]
        BY <2>0, <2>2, <2>3, <3>1
    <3>3. <<"ttl", "issue", "send">> \in Lists /\ <<"ttl", "issue", "send">> \in Seq(Statements)
        BY ListType DEF Lists
    <3>4. t \in Task /\ t.todo = <<"ttl", "issue", "send">> /\ t.token = task[r].token
        BY <2>1, <3>3 DEF Task
    <3> HIDE DEF t
    <3>5. Agrees(t, ntokens, users, revs)
        BY <2>1, <3>3, <3>4 DEF Agrees, Starts
    <3>6. Holds(task[r], "issue") /\ ~Holds(t, "issueTokens")
      <4>1. Starts(task[r], {"claimSend", "ttl", "issue"})
          BY <2>1, ListOf DEF Starts
      <4>2. ~Starts(t, {"verifyCode", "recheck", "create", "claimSession", "active", "issueTokens"})
          BY <3>4 DEF Starts
      <4> QED
          BY <2>1, <3>3, <3>4, <4>1, <4>2, ListHolds
    <3> QED
        BY <2>0, <3>2, <3>4, <3>5, <3>6, PlainStep
  <2>4. CASE ~cooldown
    <3>1. Rest(task[r]) = [task[r] EXCEPT !.todo = Tail(task[r].todo)]
      <4>1. <<"issue", "send">> # <<>>
          OBVIOUS
      <4> QED
          BY <2>0, <2>2, <4>1, RestType
    <3>2. Continue(r)
        BY <2>0, <2>4, <3>1 DEF Continue
    <3> QED
        BY <2>0, <3>2, ContinueStep
  <2> QED
      BY <2>3, <2>4
<1>2. CASE Ttl(r)
    BY <1>2, ContinueStep, AbortStep DEF Ttl
<1>3. CASE Send(r)
  <2>1. At(r, "send") /\ UNCHANGED <<redisVars, tokenVars, userVars, webVars, overlaps>>
      BY <1>3 DEF Send
  <2>2. CASE Continue(r)
      BY <2>1, <2>2, ContinueStep
  <2>3. CASE task' = [task EXCEPT ![r].todo = <<"release">>]
    <3> DEFINE t == [task[r] EXCEPT !.todo = <<"release">>]
    <3>1. task[r] \in Task /\ task[r].token <= ntokens
        BY <2>1, Running DEF Agrees
    <3>2. <<"release">> \in Lists /\ <<"release">> \in Seq(Statements)
        BY ListType DEF Lists
    <3>3. t \in Task /\ t.todo = <<"release">> /\ t.token = task[r].token
        BY <3>1, <3>2 DEF Task
    <3>4. task' = [task EXCEPT ![r] = t]
        BY <2>3
    <3> HIDE DEF t
    <3>5. Agrees(t, ntokens, users, revs) /\ ~Holds(t, "issue") /\ ~Holds(t, "issueTokens")
        BY <3>1, <3>2, <3>3 DEF Agrees, Starts, Holds
    <3> QED
        BY <2>1, <3>3, <3>4, <3>5, PlainStep
  <2> QED
      BY <1>3, <2>2, <2>3 DEF Send
<1>4. CASE ReleaseSend(r)
    BY <1>4, ContinueStep DEF ReleaseSend
<1> QED
    BY <1>1, <1>2, <1>3, <1>4

\* The next code is a new one: it stands under no handle and was never matched.
LEMMA IssueKeepsInv ==
    ASSUME Inv, NEW r \in Requests, Issue(r)
    PROVE  Inv'
<1> DEFINE h == task[r].handle
           c == ncodes + 1
           o == [code |-> c, attempts |-> 0, guesses |-> 0]
<1>0. /\ At(r, "issue") /\ Continue(r)
      /\ ncodes' = c /\ otp' = [otp EXCEPT ![h] = o]
      /\ UNCHANGED <<cooldown, matched, tokenVars, userVars, webVars, overlaps>>
      /\ ncodes \in Nat
    BY Typed DEF Issue
<1>1. /\ task[r] \in Task /\ task[r].todo \in Lists /\ task[r].todo = <<"issue", "send">>
      /\ Tail(task[r].todo) = <<"send">>
    BY <1>0, Running, ListOf, TailOf
<1>2. /\ Rest(task[r]) \in Task
      /\ Agrees(Rest(task[r]), ntokens, users, revs)
      /\ Rest(task[r]).todo = <<"send">>
  <2>1. "issue" \in Statements
      BY DEF Statements
  <2>2. Rest(task[r]) = [task[r] EXCEPT !.todo = Tail(task[r].todo)]
    <3>1. <<"send">> # <<>>
        OBVIOUS
    <3> QED
        BY <1>0, <1>1, <3>1, RestType
  <2> QED
      BY <1>0, <1>1, <2>1, <2>2, RestType, RestAgrees DEF Task
<1>3. task' = [task EXCEPT ![r] = Rest(task[r])]
    BY <1>0 DEF Continue
<1>4. Growing
    BY <1>0, Unchanged DEF tokenVars, userVars
<1>5. task' \in [Requests -> Task] /\ TasksAgree'
    BY <1>0, <1>2, <1>3, <1>4, OneTask DEF tokenVars, userVars
<1>6. /\ r \in Doing("issue")
      /\ Doing("issue")' \subseteq Doing("issue") \ {r}
      /\ Doing("issueTokens")' \subseteq Doing("issueTokens")
  <2>1. task'[r].todo = <<"send">> /\ \A q \in Requests : q # r => task'[q] = task[q]
      BY <1>2, <1>3 DEF Inv, TypeOK
  <2> QED
      BY <1>1, <2>1 DEF Doing
<1>7. Bounded' /\ c \in Codes /\ c <= MaxCodes
  <2>1. Coming("issue") \in Nat /\ Coming("issue")' \in Nat /\ Coming("issue")' + 1 <= Coming("issue")
      BY <1>6, DoingOneLess, DoingFinite
  <2>2. /\ Coming("issueTokens") \in Nat /\ Coming("issueTokens")' \in Nat
        /\ Coming("issueTokens")' <= Coming("issueTokens")
      BY <1>6, DoingFewer, DoingFinite
  <2>3. ntokens' = ntokens /\ ntokens \in Nat
      BY <1>0, Typed DEF tokenVars
  <2>4. ncodes + Coming("issue") <= MaxCodes /\ ntokens + Coming("issueTokens") <= MaxTokens
      BY DEF Inv, Bounded
  <2> QED
      BY <1>0, <2>1, <2>2, <2>3, <2>4, ConstantTypes DEF Bounded, Codes
<1>8. \A g \in Handles : otp[g] \in Otp /\ otp'[g] = IF g = h THEN o ELSE otp[g]
    BY <1>0 DEF Inv, TypeOK
<1>9. o \in Otp
    BY <1>0, <1>7, ConstantTypes DEF Otp
<1>10. TypeOK'
  <2>1. otp' \in [Handles -> Otp]
      BY <1>0, <1>9 DEF Inv, TypeOK
  <2>2. ncodes' \in 0 .. MaxCodes
      BY <1>0, <1>7, ConstantTypes
  <2> QED
      BY <1>0, <1>5, <2>1, <2>2 DEF Inv, TypeOK, Codes, Users, Tokens, tokenVars, userVars, webVars
<1>11. OtpsAgree'
  <2>1. ASSUME NEW g \in Handles
        PROVE  /\ otp'[g].guesses <= otp'[g].attempts /\ otp'[g].attempts <= MaxAttempts
               /\ otp'[g].code <= ncodes'
               /\ otp'[g].code # 0 => matched'[otp'[g].code] = 0
    <3>1. CASE g = h
        BY <1>0, <1>7, <1>8, <3>1, ConstantTypes DEF Inv, OtpsAgree
    <3>2. CASE g # h
        BY <1>0, <1>8, <3>2, ConstantTypes DEF Inv, OtpsAgree, Otp
    <3> QED
        BY <3>1, <3>2
  <2>2. ASSUME NEW g \in Handles, NEW k \in Handles, otp'[g].code = otp'[k].code
        PROVE  g = k \/ otp'[k].code = 0
    <3>1. otp[g].code <= ncodes /\ otp[k].code <= ncodes /\ otp[g].code \in Nat /\ otp[k].code \in Nat
        BY <1>8, ConstantTypes DEF Inv, OtpsAgree, Otp
    <3>2. otp[g].code # c /\ otp[k].code # c
        BY <1>0, <3>1
    <3> QED
        BY <1>0, <1>8, <2>2, <3>2 DEF Inv, OtpsAgree
  <2>3. \A k \in Codes : matched'[k] <= 1 /\ (k > ncodes' => matched'[k] = 0)
      BY <1>0, ConstantTypes DEF Inv, OtpsAgree, Codes
  <2> QED
      BY <2>1, <2>2, <2>3 DEF OtpsAgree
<1>12. TokensAgree'
    BY <1>0, KeepsTokens DEF tokenVars, userVars, webVars
<1> QED
    BY <1>5, <1>7, <1>10, <1>11, <1>12 DEF Inv

LEMMA WithCode ==
    ASSUME NEW x \in Task
    PROVE  LET t == [x EXCEPT !.code = 0]
           IN  /\ t \in Task /\ t.todo = x.todo /\ t.token = x.token /\ t.kind = x.kind
               /\ t.since = x.since /\ t.user = x.user /\ t.handle = x.handle
<1>1. 0 \in 0 .. MaxCodes
    BY ConstantTypes
<1> QED
    BY <1>1 DEF Task

LEMMA WithUser ==
    ASSUME NEW x \in Task, NEW u \in Users
    PROVE  LET t == [x EXCEPT !.user = u]
           IN  /\ t \in Task /\ t.todo = x.todo /\ t.token = x.token /\ t.kind = x.kind
               /\ t.since = x.since /\ t.user = u /\ t.handle = x.handle
<1>1. u \in 0 .. MaxUsers
    BY ConstantTypes DEF Users
<1> QED
    BY <1>1 DEF Task

LEMMA WithToken ==
    ASSUME NEW x \in Task, NEW k \in Tokens
    PROVE  LET t == [x EXCEPT !.token = k, !.ok = TRUE]
           IN  t \in Task /\ t.todo = x.todo /\ t.token = k /\ t.kind = x.kind /\ t.ok = TRUE
<1>1. k \in 0 .. MaxTokens
    BY ConstantTypes DEF Tokens
<1> QED
    BY <1>1 DEF Task

LEMMA Counted ==
    ASSUME NEW o \in Otp
    PROVE  LET x == [o EXCEPT !.attempts = @ + 1, !.guesses = @ + 1]
           IN  x \in Otp /\ x.code = o.code /\ x.attempts = o.attempts + 1 /\ x.guesses = o.guesses + 1
<1> DEFINE x == [o EXCEPT !.attempts = @ + 1, !.guesses = @ + 1]
<1>1. x.attempts = o.attempts + 1
    BY DEF Otp
<1>2. x.guesses = o.guesses + 1
    BY DEF Otp
<1>3. x.code = o.code
    BY DEF Otp
<1>4. x \in Otp
  <2>1. o.attempts + 1 \in Nat /\ o.guesses + 1 \in Nat
      BY DEF Otp
  <2>2. \A a, g \in Nat : [o EXCEPT !.attempts = a, !.guesses = g] \in Otp
      BY DEF Otp
  <2> QED
      BY <2>1, <2>2
<1> QED
    BY <1>1, <1>2, <1>3, <1>4

\* A guess is counted before it is compared, and a match destroys the record.
LEMMA VerifyCodeKeepsInv ==
    ASSUME Inv, NEW r \in Requests, VerifyCode(r)
    PROVE  Inv'
<1> USE ConstantTypes
<1> DEFINE h == task[r].handle
           v == Verdict(otp[h], task[r].code)
           t == [Rest(task[r]) EXCEPT !.code = 0]
<1>0. /\ At(r, "verifyCode")
      /\ otp' = [otp EXCEPT ![h] = v.left]
      /\ matched' = [c \in Codes |-> IF v.match /\ c = otp[h].code THEN matched[c] + 1 ELSE matched[c]]
      /\ IF v.match THEN task' = [task EXCEPT ![r] = [Rest(@) EXCEPT !.code = 0]] ELSE Abort(r)
      /\ UNCHANGED <<cooldown, ncodes, tokenVars, userVars, webVars, overlaps>>
    BY DEF VerifyCode
<1>1. /\ task[r] \in Task /\ task[r].todo \in Lists
      /\ Tail(task[r].todo) = <<"recheck", "create", "issueTokens", "reply">>
      /\ Agrees(task[r], ntokens, users, revs)
    BY <1>0, Running, TailOf
<1>2. h \in Handles /\ task[r].token <= ntokens
    BY <1>0, <1>1 DEF Agrees, Starts, At
<1>3. /\ v.left = NoOtp \/ (~v.match /\ v.left = [otp[h] EXCEPT !.attempts = @ + 1, !.guesses = @ + 1]
                             /\ otp[h].attempts + 1 <= MaxAttempts)
      /\ v.match \in BOOLEAN
      /\ v.match => otp[h].code # 0 /\ v.left = NoOtp
      /\ otp[h] \in Otp
    BY <1>2 DEF Verdict, Inv, TypeOK, Otp
<1> HIDE DEF v, h
<1>4. ASSUME NEW x \in Task, task' = [task EXCEPT ![r] = x], Agrees(x, ntokens, users, revs),
             Holds(x, "issue") => Holds(task[r], "issue"),
             Holds(x, "issueTokens") => Holds(task[r], "issueTokens")
      PROVE  task' \in [Requests -> Task] /\ TasksAgree' /\ Bounded'
  <2>1. Growing
      BY <1>0, Unchanged DEF tokenVars, userVars
  <2>2. task' \in [Requests -> Task] /\ TasksAgree'
      BY <1>0, <1>4, <2>1, OneTask DEF tokenVars, userVars
  <2> QED
      BY <1>0, <1>4, <2>2, KeepsBounded DEF tokenVars
<1>5. task' \in [Requests -> Task] /\ TasksAgree' /\ Bounded'
  <2>1. CASE v.match
    <3>1. /\ Rest(task[r]) = [task[r] EXCEPT !.todo = Tail(task[r].todo)]
          /\ Rest(task[r]) \in Task
          /\ \A x : Holds(Rest(task[r]), x) => Holds(task[r], x)
      <4>1. <<"recheck", "create", "issueTokens", "reply">> # <<>>
          OBVIOUS
      <4> QED
          BY <1>0, <1>1, <4>1, RestType
    <3>2. Agrees(Rest(task[r]), ntokens, users, revs)
      <4>1. "verifyCode" \in Statements \ {"create", "active"}
          BY DEF Statements
      <4> QED
          BY <1>0, <4>1, RestAgrees
    <3>3. /\ t \in Task /\ t.todo = Rest(task[r]).todo /\ t.token = Rest(task[r]).token
          /\ t.kind = Rest(task[r]).kind /\ t.since = Rest(task[r]).since /\ t.user = Rest(task[r]).user
          /\ t.handle = Rest(task[r]).handle
        BY <3>1, WithCode
    <3>4. task' = [task EXCEPT ![r] = t]
        BY <1>0, <2>1
    <3> HIDE DEF t
    <3>5. Agrees(t, ntokens, users, revs) /\ (\A x : Holds(t, x) => Holds(task[r], x))
        BY <3>1, <3>2, <3>3 DEF Agrees, Starts, Holds
    <3> QED
        BY <1>4, <3>3, <3>4, <3>5
  <2>2. CASE ~v.match
    <3>1. task' = [task EXCEPT ![r] = Refused(task[r])]
        BY <1>0, <2>2 DEF Abort
    <3>2. Refused(task[r]) = Resting
        BY <1>0, <1>1 DEF Refused, Agrees, Starts, Exchanges, At
    <3>3. Resting \in Task /\ Agrees(Resting, ntokens, users, revs) /\ \A x : ~Holds(Resting, x)
      <4>1. \A x : ~Holds(Resting, x)
          BY DEF Holds, Resting
      <4> QED
          BY <4>1, RestingType, Typed
    <3> QED
        BY <1>4, <3>1, <3>2, <3>3
  <2> QED
      BY <1>0, <1>3, <2>1, <2>2
<1>6. v.left \in Otp /\ v.left.guesses <= v.left.attempts /\ v.left.attempts <= MaxAttempts
      /\ v.left.code \in {0, otp[h].code}
  <2>1. CASE v.left = NoOtp
      BY <2>1 DEF NoOtp, Otp
  <2>2. CASE v.left = [otp[h] EXCEPT !.attempts = @ + 1, !.guesses = @ + 1] /\ otp[h].attempts + 1 <= MaxAttempts
    <3>1. /\ v.left.code = otp[h].code
          /\ v.left.attempts = otp[h].attempts + 1 /\ v.left.guesses = otp[h].guesses + 1
          /\ v.left \in Otp
        BY <1>3, <2>2, Counted
    <3>2. otp[h].guesses <= otp[h].attempts /\ otp[h].guesses \in Nat /\ otp[h].attempts \in Nat
        BY <1>2, <1>3 DEF Inv, OtpsAgree, Otp
    <3> QED
        BY <2>2, <3>1, <3>2
  <2> QED
      BY <1>3, <2>1, <2>2
<1>7. TypeOK'
  <2>1. otp' \in [Handles -> Otp]
      BY <1>0, <1>2, <1>6 DEF Inv, TypeOK
  <2>2. matched' \in [Codes -> Nat]
      BY <1>0 DEF Inv, TypeOK
  <2> QED
      BY <1>0, <1>5, <2>1, <2>2 DEF Inv, TypeOK, Codes, Users, Tokens, tokenVars, userVars, webVars
<1>8. \A g \in Handles : otp[g] \in Otp /\ otp'[g] = IF g = h THEN v.left ELSE otp[g]
    BY <1>0 DEF Inv, TypeOK
<1>9. OtpsAgree'
  <2>0. ncodes' = ncodes /\ ncodes \in Nat /\ ncodes <= MaxCodes
      BY <1>0 DEF Inv, TypeOK
  <2>1. ASSUME NEW g \in Handles
        PROVE  /\ otp'[g].guesses <= otp'[g].attempts /\ otp'[g].attempts <= MaxAttempts
               /\ otp'[g].code <= ncodes'
               /\ otp'[g].code # 0 => matched'[otp'[g].code] = 0
    <3>1. /\ otp[g].guesses <= otp[g].attempts /\ otp[g].attempts <= MaxAttempts /\ otp[g].code <= ncodes
          /\ otp[g].code # 0 => matched[otp[g].code] = 0
          /\ otp[h].code # 0 => matched[otp[h].code] = 0
          /\ otp[h].code <= ncodes
        BY <1>2 DEF Inv, OtpsAgree
    <3>2. otp[g].code \in Nat /\ otp[h].code \in Nat
        BY <1>3, <1>8 DEF Otp
    <3>3. CASE g = h /\ v.match
        BY <1>3, <1>8, <2>0, <3>3 DEF NoOtp
    <3>4. CASE g = h /\ ~v.match
      <4>1. otp'[g].code # 0 => otp'[g].code \in Codes
          BY <1>6, <1>8, <2>0, <3>1, <3>2, <3>4 DEF Codes
      <4> QED
          BY <1>0, <1>6, <1>8, <2>0, <3>1, <3>4, <4>1
    <3>5. CASE g # h
      <4>1. otp[g].code # 0 => (otp[g].code \in Codes /\ otp[g].code # otp[h].code)
          BY <1>2, <2>0, <3>1, <3>2, <3>5 DEF Inv, OtpsAgree, Codes
      <4> QED
          BY <1>0, <1>8, <2>0, <3>1, <3>5, <4>1
    <3> QED
        BY <1>3, <3>3, <3>4, <3>5
  <2>2. \A g, k \in Handles : otp'[g].code = otp'[k].code => g = k \/ otp'[k].code = 0
      BY <1>2, <1>6, <1>8 DEF Inv, OtpsAgree
  <2>3. ASSUME NEW c \in Codes PROVE matched'[c] <= 1 /\ (c > ncodes' => matched'[c] = 0)
    <3>1. matched[c] <= 1 /\ (c > ncodes => matched[c] = 0) /\ matched[c] \in Nat
        BY DEF Inv, TypeOK, OtpsAgree
    <3>2. CASE v.match /\ c = otp[h].code
        BY <1>0, <1>2, <1>3, <2>0, <3>1, <3>2 DEF Inv, OtpsAgree, Codes
    <3>3. CASE ~(v.match /\ c = otp[h].code)
        BY <1>0, <2>0, <3>1, <3>3
    <3> QED
        BY <3>2, <3>3
  <2> QED
      BY <2>1, <2>2, <2>3 DEF OtpsAgree
<1>10. TokensAgree'
    BY <1>0, KeepsTokens DEF tokenVars, userVars, webVars
<1> QED
    BY <1>5, <1>7, <1>9, <1>10 DEF Inv

\* A new account is active.
LEMMA CreateKeepsInv ==
    ASSUME Inv, NEW r \in Requests, CreateAccount(r)
    PROVE  Inv'
<1>0. PICK u \in Users :
        /\ At(r, "create")
        /\ ~Exists(u)
        /\ users' = [users EXCEPT ![u] = "active"]
        /\ task' = [task EXCEPT ![r] = [Rest(@) EXCEPT !.user = u]]
        /\ UNCHANGED <<links, revs, redisVars, tokenVars, webVars, overlaps>>
    BY DEF CreateAccount
<1> DEFINE t == [Rest(task[r]) EXCEPT !.user = u]
<1>1. /\ task[r] \in Task /\ task[r].todo \in Lists
      /\ Tail(task[r].todo) = <<"issueTokens", "reply">>
      /\ Agrees(task[r], ntokens, users, revs)
    BY <1>0, Running, TailOf
<1>2. /\ Rest(task[r]) = [task[r] EXCEPT !.todo = Tail(task[r].todo)]
      /\ Rest(task[r]) \in Task
      /\ \A x : Holds(Rest(task[r]), x) => Holds(task[r], x)
  <2>1. <<"issueTokens", "reply">> # <<>>
      OBVIOUS
  <2> QED
      BY <1>0, <1>1, <2>1, RestType
<1>3. /\ t \in Task /\ t.todo = <<"issueTokens", "reply">> /\ t.token = task[r].token /\ t.kind = task[r].kind
      /\ t.since = task[r].since /\ t.user = u /\ t.todo = Rest(task[r]).todo
  <2>1. /\ Rest(task[r]).todo = <<"issueTokens", "reply">> /\ Rest(task[r]).token = task[r].token
        /\ Rest(task[r]).kind = task[r].kind /\ Rest(task[r]).since = task[r].since
      BY <1>1, <1>2 DEF Task
  <2> QED
      BY <1>2, <2>1, WithUser
<1>4. task' = [task EXCEPT ![r] = t]
    BY <1>0
<1> HIDE DEF t
<1>5. users'[u] = "active" /\ (\A w \in Users : w # u => users'[w] = users[w])
      /\ users' \in [Users -> {"none", "active", "inactive"}]
    BY <1>0 DEF Inv, TypeOK
<1>6. Growing
    BY <1>0, <1>5, ConstantTypes DEF Growing, Grown, Inv, TypeOK, tokenVars
<1>7. Agrees(t, ntokens', users', revs')
  <2>1. t.kind = "verify" /\ t.since = 0 /\ t.token <= ntokens
      BY <1>0, <1>1, <1>3 DEF Agrees, Starts, At
  <2>2. <<"issueTokens", "reply">> \in Lists /\ Head(<<"issueTokens", "reply">>) = "issueTokens"
      BY DEF Lists
  <2>3. 0 <= revs[u] /\ ntokens' = ntokens /\ revs' = revs
      BY <1>0 DEF Inv, TypeOK, tokenVars
  <2> QED
      BY <1>3, <1>5, <2>1, <2>2, <2>3 DEF Agrees, Starts, Exchanges
<1>8. task' \in [Requests -> Task] /\ TasksAgree'
    BY <1>3, <1>4, <1>6, <1>7, OneTask
<1>9. Bounded'
  <2>1. \A x : Holds(t, x) => Holds(task[r], x)
      BY <1>2, <1>3 DEF Holds
  <2> QED
      BY <1>0, <1>3, <1>4, <2>1, KeepsBounded DEF redisVars, tokenVars
<1>10. TypeOK'
    BY <1>0, <1>5, <1>8 DEF Inv, TypeOK, Codes, Users, Tokens, redisVars, tokenVars, webVars
<1>11. OtpsAgree' /\ TokensAgree'
    BY <1>0, KeepsOtps, KeepsTokens DEF redisVars, tokenVars, webVars
<1> QED
    BY <1>8, <1>9, <1>10, <1>11 DEF Inv

\* The next token is a new one; it goes on with the line of the one it replaces.
LEMMA IssueTokensKeepsInv ==
    ASSUME Inv, NEW r \in Requests, IssueTokens(r)
    PROVE  Inv'
<1> USE ConstantTypes
<1> DEFINE k == ntokens + 1
           u == task[r].user
           line == IF task[r].kind \in Exchanges THEN tokens[task[r].token].line ELSE k
           x == [user |-> u, after |-> revs[u], line |-> line]
           t == [Rest(task[r]) EXCEPT !.token = k, !.ok = TRUE]
<1>0. /\ At(r, "issueTokens")
      /\ ntokens' = k
      /\ tokens' = [tokens EXCEPT ![k] = x]
      /\ sessions' = sessions \union {k}
      /\ task' = [task EXCEPT ![r] = t]
      /\ UNCHANGED <<redisVars, userVars, webVars, overlaps>>
      /\ ntokens \in Nat
    BY Typed DEF IssueTokens
<1>1. /\ task[r] \in Task /\ task[r].todo = <<"issueTokens", "reply">>
      /\ Tail(task[r].todo) = <<"reply">> /\ <<"reply">> # <<>>
      /\ Agrees(task[r], ntokens, users, revs)
    BY <1>0, Running, ListOf, TailOf
<1>2. u \in Users /\ (task[r].kind \in Exchanges => task[r].token # 0) /\ task[r].token \in 0 .. ntokens
    BY <1>0, <1>1 DEF Agrees, Starts, At, Task
<1>3. Rest(task[r]) \in Task /\ Rest(task[r]).todo = <<"reply">>
    BY <1>0, <1>1, RestType DEF Task
<1>4. /\ r \in Doing("issueTokens")
      /\ Coming("issueTokens") \in Nat /\ Coming("issueTokens") >= 1
  <2>1. r \in Doing("issueTokens")
      BY <1>1 DEF Doing
  <2>2. IsFiniteSet(Doing("issueTokens")) /\ Coming("issueTokens") \in Nat
      BY DoingFinite
  <2>3. Cardinality(Doing("issueTokens")) # 0
      BY <2>1, <2>2, FS_EmptySet
  <2> QED
      BY <2>1, <2>2, <2>3 DEF Coming
<1>5. k \in Tokens /\ k <= MaxTokens
    BY <1>0, <1>4 DEF Inv, Bounded, Tokens
<1>6. t \in Task /\ t.todo = <<"reply">> /\ t.token = k
    BY <1>3, <1>5, WithToken
<1> HIDE DEF t
<1>7. Growing
  <2>1. revs' = revs /\ users' = users /\ revs \in [Users -> Nat]
      BY <1>0 DEF userVars, Inv, TypeOK
  <2> QED
      BY <1>0, <2>1 DEF Growing, Grown
<1>8. Agrees(t, ntokens', users', revs')
  <2>1. <<"reply">> \in Lists
      BY DEF Lists
  <2> QED
      BY <1>0, <1>6, <2>1 DEF Agrees, Starts
<1>9. task' \in [Requests -> Task] /\ TasksAgree'
    BY <1>0, <1>6, <1>7, <1>8, OneTask
<1>10. Bounded'
  <2>1. task'[r].todo = <<"reply">> /\ \A q \in Requests : q # r => task'[q] = task[q]
      BY <1>0, <1>6 DEF Inv, TypeOK
  <2>2. Doing("issueTokens")' \subseteq Doing("issueTokens") \ {r} /\ Doing("issue")' \subseteq Doing("issue")
      BY <2>1 DEF Doing
  <2>3. /\ Coming("issue")' \in Nat /\ Coming("issue") \in Nat /\ Coming("issue")' <= Coming("issue")
        /\ Coming("issueTokens")' \in Nat /\ Coming("issueTokens")' + 1 <= Coming("issueTokens")
      BY <1>4, <2>2, DoingOneLess, DoingFewer, DoingFinite
  <2>4. ncodes' = ncodes /\ ncodes \in Nat
      BY <1>0, Typed DEF redisVars
  <2>5. ncodes + Coming("issue") <= MaxCodes /\ ntokens + Coming("issueTokens") <= MaxTokens
      BY DEF Inv, Bounded
  <2> QED
      BY <1>0, <1>4, <2>3, <2>4, <2>5 DEF Bounded
<1>11. \A j \in Tokens : tokens[j] \in Token /\ tokens'[j] = IF j = k THEN x ELSE tokens[j]
    BY <1>0 DEF Inv, TypeOK
<1>12. /\ task[r].kind \in Exchanges =>
             line \in 1 .. ntokens /\ tokens[line].line = line /\ line \in Tokens
       /\ task[r].kind \notin Exchanges => line = k
       /\ line \in 1 .. k
  <2>1. CASE task[r].kind \in Exchanges
    <3>1. task[r].token \in Tokens /\ task[r].token <= ntokens
        BY <1>0, <1>2, <1>5, <2>1 DEF Tokens
    <3>2. line \in 1 .. task[r].token /\ tokens[line].line = line
        BY <2>1, <3>1 DEF Inv, TokensAgree
    <3> QED
        BY <1>0, <1>2, <1>5, <2>1, <3>2 DEF Tokens
  <2> QED
      BY <1>0, <2>1
<1> HIDE DEF line
<1>13. x \in Token
  <2>1. u \in 0 .. MaxUsers /\ revs[u] \in Nat /\ line \in 0 .. MaxTokens
      BY <1>0, <1>2, <1>5, <1>12 DEF Users, Inv, TypeOK
  <2> QED
      BY <2>1 DEF Token
<1>14. TypeOK'
  <2>1. tokens' \in [Tokens -> Token] /\ sessions' \subseteq Tokens /\ ntokens' \in 0 .. MaxTokens
      BY <1>0, <1>5, <1>13 DEF Inv, TypeOK
  <2> QED
      BY <1>0, <1>9, <2>1 DEF Inv, TypeOK, Codes, Users, Tokens, redisVars, userVars, webVars
<1>15. OtpsAgree'
    BY <1>0, KeepsOtps DEF redisVars
<1>16. TokensAgree'
  <2>0. revs' = revs /\ stored' = stored
      BY <1>0 DEF userVars, webVars
  <2>1. ASSUME NEW j \in Tokens, j <= ntokens'
        PROVE  /\ tokens'[j].user \in Users
               /\ tokens'[j].line \in 1 .. j
               /\ tokens'[tokens'[j].line].line = tokens'[j].line
               /\ tokens'[j].after <= revs'[tokens'[j].user]
    <3>1. CASE j = k
      <4>1. tokens'[j] = x /\ x.user = u /\ x.line = line /\ x.after = revs[u] /\ revs[u] \in Nat
          BY <1>2, <1>11, <3>1 DEF Inv, TypeOK
      <4>2. tokens'[line].line = line
          BY <1>0, <1>11, <1>12, <3>1, <4>1
      <4> QED
          BY <1>2, <1>12, <2>0, <3>1, <4>1, <4>2
    <3>2. CASE j # k
      <4>1. j <= ntokens /\ j \in Nat
          BY <1>0, <2>1, <3>2 DEF Tokens
      <4>2. tokens'[j] = tokens[j] /\ tokens[j].user \in Users /\ tokens[j].line \in 1 .. j
            /\ tokens[tokens[j].line].line = tokens[j].line /\ tokens[j].after <= revs[tokens[j].user]
          BY <1>11, <3>2, <4>1 DEF Inv, TokensAgree
      <4>3. tokens[j].line \in Tokens /\ tokens[j].line # k
          BY <1>0, <4>1, <4>2 DEF Tokens
      <4>4. tokens'[tokens[j].line] = tokens[tokens[j].line]
          BY <1>11, <4>3
      <4> QED
          BY <2>0, <4>2, <4>4
    <3> QED
        BY <3>1, <3>2
  <2>2. \A j \in Tokens : j > ntokens' => tokens'[j] = NoToken
      BY <1>0, <1>11 DEF Inv, TokensAgree, Tokens
  <2>3. stored' <= ntokens'
      BY <1>0, <2>0, Typed
  <2>4. ASSUME NEW j \in sessions' PROVE j <= ntokens' /\ tokens'[j].after = revs'[tokens'[j].user]
    <3>1. CASE j = k
      <4>1. tokens'[j] = x
          BY <1>5, <1>11, <3>1
      <4>2. x.user = u /\ x.after = revs[u]
          OBVIOUS
      <4> QED
          BY <1>0, <2>0, <3>1, <4>1, <4>2
    <3>2. CASE j # k
      <4>1. j \in sessions /\ j \in Tokens /\ j <= ntokens /\ tokens[j].after = revs[tokens[j].user]
          BY <1>0, <3>2 DEF Inv, TypeOK, TokensAgree
      <4> QED
          BY <1>0, <1>11, <2>0, <3>2, <4>1 DEF Tokens
    <3> QED
        BY <3>1, <3>2
  <2> QED
      BY <2>1, <2>2, <2>3, <2>4 DEF TokensAgree
<1> QED
    BY <1>9, <1>10, <1>14, <1>15, <1>16 DEF Inv

LEMMA SessionKeepsInv ==
    ASSUME Inv, NEW r \in Requests,
           Recheck(r) \/ ClaimSession(r) \/ CheckActive(r) \/ Revoke(r) \/ CreateLink(r)
    PROVE  Inv'
<1> USE Typed DEF tokenVars, userVars, webVars, redisVars
<1> "recheck" \in Statements /\ "claimSession" \in Statements /\ "revoke" \in Statements /\ "forgot" \in Statements
    BY DEF Statements
<1>1. CASE Recheck(r)
    BY <1>1, ContinueStep, AbortStep DEF Recheck
<1>2. CASE ClaimSession(r)
  <2>1. At(r, "claimSession") /\ sessions' \subseteq sessions
        /\ UNCHANGED <<tokens, ntokens, redisVars, userVars, webVars, overlaps>>
      BY <1>2 DEF ClaimSession
  <2>2. CASE Continue(r)
      BY <2>1, <2>2, ContinueStep
  <2>3. CASE Abort(r)
      BY <2>1, <2>3, AbortStep
  <2> QED
      BY <1>2, <2>2, <2>3 DEF ClaimSession
<1>3. CASE CheckActive(r)
  <2>1. At(r, "active") /\ UNCHANGED <<redisVars, tokenVars, userVars, webVars, overlaps>>
      BY <1>3 DEF CheckActive
  <2>2. CASE Abort(r)
      BY <2>1, <2>2, AbortStep
  <2>3. CASE Continue(r) /\ users[task[r].user] = "active"
    <3> DEFINE t == Rest(task[r])
    <3>1. /\ task[r] \in Task /\ task[r].todo \in Lists
          /\ Tail(task[r].todo) = <<"issueTokens", "reply">> /\ <<"issueTokens", "reply">> # <<>>
          /\ Agrees(task[r], ntokens, users, revs)
        BY <2>1, Running, TailOf
    <3>2. t \in Task /\ t = [task[r] EXCEPT !.todo = Tail(task[r].todo)]
          /\ (\A x : Holds(t, x) => Holds(task[r], x))
        BY <2>1, <3>1, RestType
    <3>3. /\ t.todo = <<"issueTokens", "reply">> /\ t.token = task[r].token /\ t.kind = task[r].kind
          /\ t.since = task[r].since /\ t.user = task[r].user
        BY <3>1, <3>2 DEF Task
    <3>4. task' = [task EXCEPT ![r] = t]
        BY <2>3 DEF Continue
    <3> HIDE DEF t
    <3>5. Agrees(t, ntokens, users, revs)
      <4>1. <<"issueTokens", "reply">> \in Lists
          BY DEF Lists
      <4>2. t.user \in Users /\ t.since <= revs[t.user] /\ (t.kind \in Exchanges => t.token # 0)
            /\ t.token <= ntokens
          BY <2>1, <3>1, <3>3 DEF Agrees, Starts, At
      <4> QED
          BY <2>3, <3>3, <4>1, <4>2 DEF Agrees, Starts
    <3> QED
        BY <2>1, <3>2, <3>4, <3>5, PlainStep
  <2> QED
      BY <1>3, <2>2, <2>3 DEF CheckActive
<1>4. CASE Revoke(r)
  <2>1. sessions' \subseteq sessions
      BY <1>4 DEF Revoke
  <2> QED
      BY <1>4, <2>1, ContinueStep DEF Revoke
<1>5. CASE CreateLink(r)
  <2>1. At(r, "forgot") /\ Continue(r) /\ UNCHANGED <<users, revs, redisVars, tokenVars, webVars, overlaps>>
      BY <1>5 DEF CreateLink
  <2>2. links' \in [Links -> 0 .. MaxUsers]
    <3>1. task[r].user \in 0 .. MaxUsers
        BY <2>1, Running DEF Task
    <3> QED
        BY <1>5, <3>1 DEF CreateLink
  <2> QED
      BY <2>1, <2>2, ContinueStep
<1> QED
    BY <1>1, <1>2, <1>3, <1>4, <1>5

\* A revocation ends every session of its account that stands.
LEMMA RevocationKeepsInv ==
    ASSUME Inv, NEW r \in Requests, Reset(r) \/ Lock(r) \/ Unlock(r)
    PROVE  Inv'
<1> USE ConstantTypes
<1> DEFINE u == task[r].user
<1>1. PICK s \in {"reset", "lock", "unlock"} : At(r, s)
    BY DEF Reset, Lock, Unlock
<1>2. /\ Continue(r) /\ UNCHANGED <<tokens, ntokens, redisVars, webVars, overlaps>>
      /\ sessions' \subseteq sessions
      /\ links' \in [Links -> 0 .. MaxUsers]
      /\ users' \in [Users -> {"none", "active", "inactive"}]
    BY DEF Reset, Lock, Unlock, tokenVars, Inv, TypeOK
<1>3. /\ task[r] \in Task /\ task[r].todo \in Lists /\ Tail(task[r].todo) = <<>>
    BY <1>1, Running, TailOf
<1>4. Rest(task[r]) = Resting
    BY <1>1, <1>3, RestType
<1>5. task' = [task EXCEPT ![r] = Resting]
    BY <1>2, <1>4 DEF Continue
<1>6. ntokens \in Nat /\ revs \in [Users -> Nat] /\ users \in [Users -> {"none", "active", "inactive"}]
    BY DEF Inv, TypeOK
<1>7. /\ revs' \in [Users -> Nat]
      /\ \A w \in Users : revs[w] <= revs'[w] /\ (users'[w] = "inactive" => users[w] = "inactive" \/ revs[w] < revs'[w])
      /\ \A w \in Users : revs'[w] # revs[w] => w = u /\ sessions' = sessions \ SessionsOf(u)
  <2>1. CASE Reset(r) \/ Lock(r)
    <3>1. /\ revs' = [revs EXCEPT ![u] = revs[u] + 1] /\ sessions' = sessions \ SessionsOf(u)
          /\ \A w \in Users : w # u => users'[w] = users[w]
        BY <1>6, <2>1 DEF Reset, Lock
    <3>2. \A w \in Users : revs[w] \in Nat /\ revs'[w] = IF w = u THEN revs[w] + 1 ELSE revs[w]
        BY <1>6, <3>1
    <3>3. revs' \in [Users -> Nat]
      <4>1. \A w \in Users : revs'[w] \in Nat
          BY <3>2
      <4>2. revs' = [w \in Users |-> revs'[w]]
          BY <1>6, <3>1
      <4> QED
          BY <4>1, <4>2
    <3> QED
        BY <3>1, <3>2, <3>3
  <2>3. CASE Unlock(r)
      BY <1>6, <2>3 DEF Unlock
  <2> QED
      BY <2>1, <2>3
<1>8. Growing
    BY <1>2, <1>6, <1>7 DEF Growing, Grown
<1>9. Agrees(Resting, ntokens', users', revs')
    BY <1>2, <1>6, RestingType
<1>10. task' \in [Requests -> Task] /\ TasksAgree'
    BY <1>5, <1>8, <1>9, OneTask, RestingType
<1>11. Bounded'
  <2>1. \A x : ~Holds(Resting, x)
      BY DEF Holds, Resting
  <2> QED
      BY <1>2, <1>5, <2>1, KeepsBounded, RestingType DEF redisVars
<1>12. TypeOK'
    BY <1>2, <1>7, <1>10 DEF Inv, TypeOK, Codes, Users, Tokens, redisVars, webVars
<1>13. OtpsAgree'
    BY <1>2, KeepsOtps DEF redisVars
<1>14. TokensAgree'
  <2>1. ASSUME NEW k \in Tokens, k <= ntokens PROVE tokens[k].after <= revs'[tokens[k].user]
    <3>1. /\ tokens[k].user \in Users /\ tokens[k].after <= revs[tokens[k].user]
          /\ tokens[k].after \in Nat
        BY <2>1 DEF Inv, TokensAgree, TypeOK, Token
    <3> QED
        BY <1>6, <1>7, <3>1
  <2>2. ASSUME NEW k \in sessions' PROVE k <= ntokens /\ tokens[k].after = revs'[tokens[k].user]
    <3>1. k \in sessions /\ k \in Tokens /\ k <= ntokens /\ tokens[k].after = revs[tokens[k].user]
          /\ tokens[k].user \in Users
        BY <1>2 DEF Inv, TypeOK, TokensAgree
    <3> QED
        BY <1>7, <2>2, <3>1 DEF SessionsOf
  <2>3. stored' <= ntokens' /\ ntokens' = ntokens /\ tokens' = tokens
      BY <1>2 DEF webVars, Inv, TokensAgree
  <2> QED
      BY <2>1, <2>2, <2>3 DEF Inv, TokensAgree
<1> QED
    BY <1>10, <1>11, <1>12, <1>13, <1>14 DEF Inv

\* What a tab that waits may be told.
LEMMA ReplyKeepsInv ==
    ASSUME Inv, NEW r \in Requests, Succeeded(r) \/ Failed(r)
    PROVE  Inv'
<1> USE DEF tokenVars, userVars, webVars, redisVars
<1>1. /\ At(r, "reply") /\ Continue(r) /\ UNCHANGED <<redisVars, tokenVars, userVars, overlaps>>
      /\ "reply" \in Statements
    BY DEF Succeeded, Failed, Statements
<1>2. task[r] \in Task /\ task[r].token <= ntokens /\ ntokens \in Nat
    BY <1>1, Running, Typed DEF Agrees
<1>3. /\ task[r].token \in 0 .. ntokens /\ task[r].tab \in Tabs \union {NoTab} /\ task[r].ok \in BOOLEAN
    BY <1>2 DEF Task
<1>4. /\ stored' \in 0 .. ntokens /\ signedIn' \subseteq Tabs /\ displaced' \subseteq Tokens /\ lost' \in BOOLEAN
  <2>1. stored # 0 => stored \in Tokens
      BY Typed, ConstantTypes DEF Tokens, Inv, TypeOK
  <2>2. CASE Succeeded(r)
      BY <1>3, <2>1, <2>2, Typed DEF Succeeded
  <2>3. CASE Failed(r)
      BY <1>2, <1>3, <2>3, Typed DEF Failed
  <2> QED
      BY <2>2, <2>3
<1> QED
    BY <1>1, <1>4, Typed, ContinueStep

-----------------------------------------------------------------------------
(* The browser, time, and a restart.                                       *)

LEMMA OutsideKeepsInv ==
    ASSUME Inv,
           \/ \E t \in Tabs : Bounce(t) \/ BootstrapFails(t)
           \/ \E h \in Handles : CodeExpires(h)
           \/ \E l \in Links : LinkExpires(l)
           \/ CooldownExpires
    PROVE  Inv'
<1> USE ConstantTypes
<1>1. /\ UNCHANGED <<ncodes, matched, users, revs, tokenVars, overlaps, task>>
      /\ stored' \in {0, stored} /\ signedIn' \subseteq Tabs /\ displaced' = displaced
      /\ lost' \in BOOLEAN /\ cooldown' \in BOOLEAN
      /\ links' \in [Links -> 0 .. MaxUsers]
      /\ otp' \in [Handles -> Otp]
      /\ \A h \in Handles : otp'[h] = otp[h] \/ otp'[h] = NoOtp
  <2>1. NoOtp \in Otp
      BY DEF NoOtp, Otp
  <2>2. /\ otp \in [Handles -> Otp] /\ links \in [Links -> 0 .. MaxUsers] /\ cooldown \in BOOLEAN
        /\ lost \in BOOLEAN /\ signedIn \subseteq Tabs
      BY DEF Inv, TypeOK
  <2>3. CASE \E t \in Tabs : Bounce(t) \/ BootstrapFails(t)
      BY <2>2, <2>3 DEF Bounce, BootstrapFails, redisVars, userVars
  <2>4. CASE \E h \in Handles : CodeExpires(h)
      BY <2>1, <2>2, <2>4 DEF CodeExpires, userVars, webVars
  <2>5. CASE \E l \in Links : LinkExpires(l)
      BY <2>2, <2>5 DEF LinkExpires, redisVars, webVars
  <2>6. CASE CooldownExpires
      BY <2>2, <2>6 DEF CooldownExpires, userVars, webVars
  <2> QED
      BY <2>3, <2>4, <2>5, <2>6
<1>2. TypeOK'
  <2>1. stored' \in 0 .. MaxTokens
      BY <1>1 DEF Inv, TypeOK
  <2> QED
      BY <1>1, <2>1 DEF Inv, TypeOK, Codes, Users, Tokens, tokenVars
<1>3. TasksAgree'
    BY <1>1 DEF Inv, TasksAgree, tokenVars
<1>4. Bounded'
    BY <1>1 DEF Inv, Bounded, Coming, Doing, tokenVars
<1>5. OtpsAgree'
  <2>1. NoOtp.code = 0 /\ NoOtp.attempts = 0 /\ NoOtp.guesses = 0
      BY DEF NoOtp
  <2>2. ncodes' = ncodes /\ ncodes \in Nat /\ matched' = matched
      BY <1>1, Typed
  <2>3. ASSUME NEW h \in Handles
        PROVE  /\ otp'[h].guesses <= otp'[h].attempts /\ otp'[h].attempts <= MaxAttempts
               /\ otp'[h].code <= ncodes'
               /\ otp'[h].code # 0 => matched'[otp'[h].code] = 0
      BY <1>1, <2>1, <2>2 DEF Inv, OtpsAgree
  <2>4. \A g, h \in Handles : otp'[g].code = otp'[h].code => g = h \/ otp'[h].code = 0
      BY <1>1, <2>1 DEF Inv, OtpsAgree
  <2> QED
      BY <2>2, <2>3, <2>4 DEF Inv, OtpsAgree
<1>6. TokensAgree'
    BY <1>1, KeepsTokens DEF tokenVars
<1> QED
    BY <1>2, <1>3, <1>4, <1>5, <1>6 DEF Inv

LEMMA ReloadKeepsInv ==
    ASSUME Inv, NEW t \in Tabs, Reload(t)
    PROVE  Inv'
<1> USE DEF redisVars, tokenVars, userVars
<1>1. /\ UNCHANGED <<stored, displaced, redisVars, tokenVars, userVars, overlaps>>
      /\ signedIn' = signedIn \ {t}
      /\ lost' \in BOOLEAN
      /\ task' = [r \in Requests |-> IF task[r].tab = t THEN [task[r] EXCEPT !.tab = NoTab] ELSE task[r]]
    BY DEF Reload, Inv, TypeOK
<1>2. ASSUME NEW r \in Requests
      PROVE  /\ task'[r] \in Task
             /\ task'[r].todo = task[r].todo
             /\ Agrees(task'[r], ntokens, users, revs)
  <2>0. task[r] \in Task /\ Agrees(task[r], ntokens, users, revs)
      BY DEF Inv, TypeOK, TasksAgree
  <2> DEFINE x == [task[r] EXCEPT !.tab = NoTab]
  <2>1. /\ x \in Task /\ x.todo = task[r].todo /\ x.token = task[r].token /\ x.kind = task[r].kind
        /\ x.since = task[r].since /\ x.user = task[r].user /\ x.handle = task[r].handle
      BY <2>0 DEF Task
  <2> HIDE DEF x
  <2>2. Agrees(x, ntokens, users, revs)
      BY <2>0, <2>1 DEF Agrees, Starts
  <2>3. task'[r] = x \/ task'[r] = task[r]
      BY <1>1 DEF x
  <2> QED
      BY <2>0, <2>1, <2>2, <2>3
<1>3. task' \in [Requests -> Task] /\ TasksAgree'
    BY <1>1, <1>2 DEF TasksAgree
<1>4. TypeOK'
    BY <1>1, <1>3 DEF Inv, TypeOK, Codes, Users, Tokens
<1>5. Bounded'
  <2>1. Doing("issue")' \subseteq Doing("issue") /\ Doing("issueTokens")' \subseteq Doing("issueTokens")
      BY <1>2 DEF Doing
  <2>2. \A s \in {"issue", "issueTokens"} : Coming(s) \in Nat /\ Coming(s)' \in Nat /\ Coming(s)' <= Coming(s)
      BY <2>1, DoingFinite, DoingFewer
  <2> QED
      BY <1>1, <2>2, Typed, ConstantTypes DEF Inv, Bounded
<1>6. OtpsAgree' /\ TokensAgree'
    BY <1>1, KeepsOtps, KeepsTokens
<1> QED
    BY <1>3, <1>4, <1>5, <1>6 DEF Inv

\* After a restart only answers are left to give.
LEMMA RestartKeepsInv ==
    ASSUME Inv, Restart
    PROVE  Inv'
<1> USE DEF redisVars, tokenVars, userVars
<1>1. /\ UNCHANGED <<stored, signedIn, displaced, overlaps, redisVars, tokenVars, userVars>>
      /\ lost' = TRUE
    BY DEF Restart
<1>2. ASSUME NEW r \in Requests
      PROVE  /\ task'[r] \in Task
             /\ Agrees(task'[r], ntokens, users, revs)
             /\ ~Holds(task'[r], "issue") /\ ~Holds(task'[r], "issueTokens")
  <2>0. task[r] \in Task /\ task[r].token <= ntokens
      BY DEF Inv, TypeOK, TasksAgree, Agrees
  <2>1. task'[r] = Resting \/ task'[r] = [task[r] EXCEPT !.ok = FALSE, !.todo = <<"reply">>]
      BY DEF Restart
  <2>2. ~Holds(Resting, "issue") /\ ~Holds(Resting, "issueTokens")
      BY DEF Holds, Resting
  <2>3. Resting \in Task /\ Agrees(Resting, ntokens, users, revs)
      BY RestingType, Typed
  <2>4. PICK o \in Task : o = task[r]
      BY <2>0
  <2>5. CASE task'[r] = [o EXCEPT !.ok = FALSE, !.todo = <<"reply">>]
      BY <2>0, <2>4, <2>5, ReplyAgrees
  <2> QED
      BY <2>1, <2>2, <2>3, <2>4, <2>5
<1>3. task' \in [Requests -> Task] /\ TasksAgree'
  <2>1. task' = [r \in Requests |-> task'[r]]
      BY DEF Restart
  <2> QED
      BY <1>1, <1>2, <2>1 DEF TasksAgree
<1>4. TypeOK'
    BY <1>1, <1>3 DEF Inv, TypeOK, Codes, Users, Tokens
<1>5. Bounded'
  <2>1. Doing("issue")' \subseteq Doing("issue") /\ Doing("issueTokens")' \subseteq Doing("issueTokens")
      BY <1>2 DEF Doing, Holds
  <2>2. \A s \in {"issue", "issueTokens"} : Coming(s) \in Nat /\ Coming(s)' \in Nat /\ Coming(s)' <= Coming(s)
      BY <2>1, DoingFinite, DoingFewer
  <2> QED
      BY <1>1, <2>2, Typed, ConstantTypes DEF Inv, Bounded
<1>6. OtpsAgree' /\ TokensAgree'
    BY <1>1, KeepsOtps, KeepsTokens
<1> QED
    BY <1>3, <1>4, <1>5, <1>6 DEF Inv

LEMMA NextKeepsInv == Inv /\ [Next]_vars => Inv'
<1> SUFFICES ASSUME Inv, [Next]_vars PROVE Inv'
    OBVIOUS
<1>1. CASE UNCHANGED vars
    BY <1>1 DEF vars, redisVars, tokenVars, userVars, webVars, Inv, TypeOK, TasksAgree, Bounded, Coming, Doing,
                OtpsAgree, TokensAgree, Codes, Users, Tokens
<1>2. ASSUME NEW r \in Requests, Start(r) \/ Step(r) PROVE Inv'
    BY <1>2, StartKeepsInv, MailingKeepsInv, IssueKeepsInv, VerifyCodeKeepsInv, CreateKeepsInv,
       IssueTokensKeepsInv, SessionKeepsInv, RevocationKeepsInv, ReplyKeepsInv DEF Step
<1> QED
    BY <1>1, <1>2, OutsideKeepsInv, ReloadKeepsInv, RestartKeepsInv DEF Next

LEMMA InvAlways == Spec => []Inv
BY InitInv, NextKeepsInv, PTL DEF Spec

-----------------------------------------------------------------------------
(* Theorems.                                                               *)

\* Every variable keeps its type, and the bounds on codes and tokens hold, for any number of
\* requests.
THEOREM Typing == Spec => []TypeOK
BY InvAlways, PTL DEF Inv

\* VERIFY_SCRIPT counts before it compares: no code is compared with more than MaxAttempts
\* guesses.
THEOREM GuessesAreBounded == Spec => []GuessesBounded
<1>1. Inv => GuessesBounded
  <2> SUFFICES ASSUME Inv, NEW h \in Handles PROVE otp[h].guesses <= MaxAttempts
      BY DEF GuessesBounded
  <2>1. otp[h] \in Otp /\ otp[h].guesses <= otp[h].attempts /\ otp[h].attempts <= MaxAttempts
      BY DEF Inv, TypeOK, OtpsAgree
  <2> QED
      BY <2>1, ConstantTypes DEF Otp
<1> QED
    BY <1>1, InvAlways, PTL

\* The script destroys the record it matches: a code is accepted once.
THEOREM CodesAreUsedOnce == Spec => []CodeUsedOnce
<1>1. Inv => CodeUsedOnce
    BY DEF Inv, OtpsAgree, CodeUsedOnce
<1> QED
    BY <1>1, InvAlways, PTL

\* Resets and deactivations leave no session behind that was issued before them.
THEOREM SessionsArePostRevocation == Spec => []SessionsPostdateRevocation
<1>1. Inv => SessionsPostdateRevocation
    BY DEF Inv, TokensAgree, SessionsPostdateRevocation
<1> QED
    BY <1>1, InvAlways, PTL

\* Tokens for a deactivated account are issued only to requests older than the deactivation.
THEOREM LockedOutUnlessInFlight == Spec => []LockedOutOnlyInFlight
<1>1. Inv => LockedOutOnlyInFlight
    BY DEF Inv, TasksAgree, Agrees, Starts, At, LockedOutOnlyInFlight
<1> QED
    BY <1>1, InvAlways, PTL

-----------------------------------------------------------------------------
(* The refinement: a sign-in has one bearer.                               *)

Bearing(r) == task[r].kind \in Exchanges /\ Starts(task[r], {"active", "issueTokens"})
LineOf(r) == tokens[task[r].token].line

\* No two live tokens, no two exchanges, and no live token and exchange are of one sign-in.
OneBearer ==
    /\ \A j, k \in sessions : tokens[j].line = tokens[k].line => j = k
    /\ \A q, r \in Requests : Bearing(q) /\ Bearing(r) /\ LineOf(q) = LineOf(r) => q = r
    /\ \A k \in sessions, r \in Requests : Bearing(r) => tokens[k].line # LineOf(r)

LEMMA BearersOf ==
    ASSUME NEW i
    PROVE  /\ LiveOf(i) = {k \in sessions : tokens[k].line = i}
           /\ InExchange(i) = {r \in Requests : Bearing(r) /\ LineOf(r) = i}
BY DEF LiveOf, InExchange, Bearing, LineOf, Starts, At

\* With one bearer at most, the phase tells where it is.
PhaseOf(i) ==
    IF tokens[i].line # i THEN "new"
    ELSE IF LiveOf(i) # {} THEN "held"
    ELSE IF InExchange(i) # {} THEN "exchanging" ELSE "ended"

LEMMA PhaseIs ==
    ASSUME OneBearer, NEW i
    PROVE  SignInPhase(i) = PhaseOf(i)
<1>1. LiveOf(i) = {} \/ \E k : LiveOf(i) = {k}
  <2>1. \A j, k \in LiveOf(i) : j = k
      BY BearersOf DEF OneBearer
  <2> QED
      BY <2>1
<1>2. InExchange(i) = {} \/ \E r : InExchange(i) = {r}
  <2>1. \A q, r \in InExchange(i) : q = r
      BY BearersOf DEF OneBearer
  <2> QED
      BY <2>1
<1>3. LiveOf(i) = {} \/ InExchange(i) = {}
    BY BearersOf DEF OneBearer
<1>4. Cardinality(LiveOf(i)) = IF LiveOf(i) = {} THEN 0 ELSE 1
    BY <1>1, FS_EmptySet, FS_Singleton
<1>5. Cardinality(InExchange(i)) = IF InExchange(i) = {} THEN 0 ELSE 1
    BY <1>2, FS_EmptySet, FS_Singleton
<1> QED
    BY <1>3, <1>4, <1>5 DEF SignInPhase, PhaseOf

LEMMA PhaseIsNext ==
    ASSUME OneBearer', NEW i
    PROVE  SignInPhase(i)' = PhaseOf(i)'
<1>1. LiveOf(i)' = {k \in sessions' : tokens'[k].line = i}
    BY DEF LiveOf
<1>2. InExchange(i)' = {r \in Requests : Bearing(r)' /\ LineOf(r)' = i}
    BY DEF InExchange, Bearing, LineOf, Starts, At
<1>3. LiveOf(i)' = {} \/ \E k : LiveOf(i)' = {k}
  <2>1. \A j, k \in LiveOf(i)' : j = k
      BY <1>1 DEF OneBearer
  <2> QED
      BY <2>1
<1>4. InExchange(i)' = {} \/ \E r : InExchange(i)' = {r}
  <2>1. \A q, r \in InExchange(i)' : q = r
      BY <1>2 DEF OneBearer
  <2> QED
      BY <2>1
<1>5. LiveOf(i)' = {} \/ InExchange(i)' = {}
    BY <1>1, <1>2 DEF OneBearer
<1>6. Cardinality(LiveOf(i)') = IF LiveOf(i)' = {} THEN 0 ELSE 1
    BY <1>3, FS_EmptySet, FS_Singleton
<1>7. Cardinality(InExchange(i)') = IF InExchange(i)' = {} THEN 0 ELSE 1
    BY <1>4, FS_EmptySet, FS_Singleton
<1> QED
    BY <1>5, <1>6, <1>7 DEF SignInPhase, PhaseOf

\* A step that issues no token and claims none can only end sign-ins.
Fades ==
    /\ tokens' = tokens
    /\ sessions' \subseteq sessions
    /\ \A r \in Requests : Bearing(r)' => Bearing(r) /\ task'[r].token = task[r].token

LEMMA FadesOneBearer == OneBearer /\ Fades => OneBearer'
<1> SUFFICES ASSUME OneBearer, Fades PROVE OneBearer'
    OBVIOUS
<1>1. \A r \in Requests : Bearing(r)' => Bearing(r) /\ LineOf(r)' = LineOf(r)
    BY DEF Fades, LineOf
<1>2. \A j, k \in sessions' : tokens'[j].line = tokens'[k].line => j = k
    BY DEF Fades, OneBearer
<1>3. \A q, r \in Requests : Bearing(q)' /\ Bearing(r)' /\ LineOf(q)' = LineOf(r)' => q = r
    BY <1>1 DEF OneBearer
<1>4. \A k \in sessions', r \in Requests : Bearing(r)' => tokens'[k].line # LineOf(r)'
    BY <1>1 DEF Fades, OneBearer
<1> QED
    BY <1>2, <1>3, <1>4 DEF OneBearer

Phase == [i \in Tokens |-> SignInPhase(i)]

LEMMA PhaseStep ==
    ASSUME OneBearer, OneBearer'
    PROVE  /\ Phase = [i \in Tokens |-> PhaseOf(i)]
           /\ Phase' = [i \in Tokens |-> PhaseOf(i)']
BY PhaseIs, PhaseIsNext DEF Phase

LEMMA FadesEnds ==
    ASSUME OneBearer, Fades
    PROVE  SignIn!End
<1>1. OneBearer'
    BY FadesOneBearer
<1>2. Phase = [i \in Tokens |-> PhaseOf(i)] /\ Phase' = [i \in Tokens |-> PhaseOf(i)']
    BY <1>1, PhaseStep
<1>3. ASSUME NEW i \in Tokens
      PROVE  PhaseOf(i)' = PhaseOf(i) \/ (PhaseOf(i) \in {"held", "exchanging"} /\ PhaseOf(i)' = "ended")
  <2>1. LiveOf(i)' \subseteq LiveOf(i)
      BY DEF Fades, LiveOf
  <2>2. InExchange(i)' \subseteq InExchange(i)
    <3>1. InExchange(i)' = {r \in Requests : Bearing(r)' /\ LineOf(r)' = i}
        BY DEF InExchange, Bearing, LineOf, Starts, At
    <3> QED
        BY <3>1, BearersOf DEF Fades, LineOf
  <2>3. LiveOf(i) = {} \/ InExchange(i) = {}
      BY BearersOf DEF OneBearer
  <2>4. tokens'[i].line = tokens[i].line
      BY DEF Fades
  <2> QED
      BY <2>1, <2>2, <2>3, <2>4 DEF PhaseOf
<1> DEFINE S == {i \in Tokens : PhaseOf(i)' # PhaseOf(i)}
<1>4. S \in SUBSET {i \in Tokens : Phase[i] \in {"held", "exchanging"}}
    BY <1>2, <1>3
<1>5. Phase' = [i \in Tokens |-> IF i \in S THEN "ended" ELSE Phase[i]]
    BY <1>2, <1>3
<1> QED
    BY <1>4, <1>5 DEF SignIn!End, Phase

\* A task that carries on an exchange was carrying it on.
LEMMA OneTaskFades ==
    ASSUME Inv, NEW r \in Requests, NEW t, task' = [task EXCEPT ![r] = t],
           tokens' = tokens, sessions' \subseteq sessions,
           t.kind \in Exchanges /\ Starts(t, {"active", "issueTokens"}) =>
               Bearing(r) /\ t.token = task[r].token
    PROVE  Fades
<1>1. task'[r] = t /\ \A q \in Requests : q # r => task'[q] = task[q]
    BY DEF Inv, TypeOK
<1> QED
    BY <1>1 DEF Fades, Bearing, Starts

LEMMA StartFades ==
    ASSUME Inv, NEW r \in Requests, Start(r)
    PROVE  Fades
<1>1. ASSUME NEW t, Begin(r, t),
             t.kind \in Exchanges => t.todo = <<"claimSession", "active", "issueTokens", "reply">>
      PROVE  Fades
  <2>1. task' = [task EXCEPT ![r] = t] /\ tokens' = tokens /\ sessions' = sessions
      BY <1>1 DEF Begin, tokenVars
  <2>2. t.kind \in Exchanges => ~Starts(t, {"active", "issueTokens"})
      BY <1>1 DEF Starts
  <2> QED
      BY <2>1, <2>2, OneTaskFades
<1>2. ASSUME NEW kind \in {"register", "resend"}, NEW h \in Handles,
             Begin(r, [Resting EXCEPT !.kind = kind, !.handle = h, !.todo = <<"claimSend", "issue", "send">>])
      PROVE  Fades
  <2> DEFINE t == [Resting EXCEPT !.kind = kind, !.handle = h, !.todo = <<"claimSend", "issue", "send">>]
  <2>1. t.kind = kind
      BY DEF Resting
  <2> HIDE DEF t
  <2> QED
      BY <1>1, <1>2, <2>1 DEF Exchanges, t
<1>3. ASSUME NEW h \in Handles, NEW t0 \in Tabs, NEW c \in 0 .. ncodes, VerifyEmailOtp(r, t0, h, c)
      PROVE  Fades
  <2> DEFINE t == [Resting EXCEPT !.kind = "verify", !.tab = t0, !.handle = h, !.code = c,
                                  !.todo = <<"verifyCode", "recheck", "create", "issueTokens", "reply">>]
  <2>1. Begin(r, t)
      BY <1>3 DEF VerifyEmailOtp
  <2>2. t.kind = "verify"
      BY DEF Resting
  <2> HIDE DEF t
  <2> QED
      BY <1>1, <2>1, <2>2 DEF Exchanges
<1>4. ASSUME NEW t0 \in Tabs, Refresh(r, t0)
      PROVE  Fades
  <2> DEFINE t == [Resting EXCEPT !.kind = IF t0 \in signedIn THEN "refresh" ELSE "bootstrap", !.tab = t0,
                                  !.token = stored, !.user = tokens[stored].user,
                                  !.since = revs[tokens[stored].user], !.todo = <<"claimSession", "active", "issueTokens", "reply">>]
  <2>1. Begin(r, t)
      BY <1>4 DEF Refresh
  <2>2. t.todo = <<"claimSession", "active", "issueTokens", "reply">>
      BY DEF Resting
  <2> HIDE DEF t
  <2> QED
      BY <1>1, <2>1, <2>2 DEF Exchanges
<1>5. ASSUME NEW t0 \in Tabs, Logout(r, t0)
      PROVE  Fades
  <2> DEFINE t == [Resting EXCEPT !.kind = "logout", !.tab = t0, !.token = stored,
                                  !.todo = IF stored = 0 THEN <<"reply">> ELSE <<"revoke", "reply">>]
  <2>1. Begin(r, t)
      BY <1>5 DEF Logout
  <2>2. t.kind = "logout"
      BY DEF Resting
  <2> HIDE DEF t
  <2> QED
      BY <1>1, <2>1, <2>2 DEF Exchanges
<1>6. ASSUME NEW t0 \in Tabs, NEW u \in Users, Login(r, t0, u)
      PROVE  Fades
  <2> DEFINE t == [Resting EXCEPT !.kind = "login", !.tab = t0, !.user = u, !.since = revs[u],
                                  !.todo = <<"issueTokens", "reply">>]
  <2>1. Begin(r, t)
      BY <1>6 DEF Login
  <2>2. t.kind = "login"
      BY DEF Resting
  <2> HIDE DEF t
  <2> QED
      BY <1>1, <2>1, <2>2 DEF Exchanges
<1>7. ASSUME NEW kind \in {"forgot", "reset"}, NEW l \in Links, NEW u,
             Begin(r, [Resting EXCEPT !.kind = kind, !.link = l, !.user = u, !.todo = <<kind>>])
      PROVE  Fades
  <2> DEFINE t == [Resting EXCEPT !.kind = kind, !.link = l, !.user = u, !.todo = <<kind>>]
  <2>1. t.kind = kind
      BY DEF Resting
  <2> HIDE DEF t
  <2> QED
      BY <1>1, <1>7, <2>1 DEF Exchanges, t
<1>8. ASSUME NEW kind \in {"lock", "unlock"}, NEW u,
             Begin(r, [Resting EXCEPT !.kind = kind, !.user = u, !.todo = <<kind>>])
      PROVE  Fades
  <2> DEFINE t == [Resting EXCEPT !.kind = kind, !.user = u, !.todo = <<kind>>]
  <2>1. t.kind = kind
      BY DEF Resting
  <2> HIDE DEF t
  <2> QED
      BY <1>1, <1>8, <2>1 DEF Exchanges, t
<1>9. CASE \E h \in Handles : Register(r, h) \/ Resend(r, h)
    BY <1>2, <1>9 DEF Register, Resend
<1>10. CASE \E l \in Links : ResetPassword(r, l) \/ \E u \in Users : ForgotPassword(r, l, u)
    BY <1>7, <1>10 DEF ResetPassword, ForgotPassword
<1>11. CASE \E u \in Users : Deactivate(r, u) \/ Reactivate(r, u)
    BY <1>8, <1>11 DEF Deactivate, Reactivate
<1> QED
    BY <1>3, <1>4, <1>5, <1>6, <1>9, <1>10, <1>11 DEF Start

LEMMA ContinueFades ==
    ASSUME Inv, NEW r \in Requests, NEW s \in Statements \ {"claimSession", "create"}, At(r, s), Continue(r),
           tokens' = tokens, sessions' \subseteq sessions
    PROVE  Fades
<1> DEFINE t == Rest(task[r])
<1>1. task[r] \in Task /\ task[r].todo \in Lists /\ Head(task[r].todo) = s /\ task[r].todo # <<>>
    BY Running, ListOf
<1>2. task' = [task EXCEPT ![r] = t]
    BY DEF Continue
<1>3. ASSUME t.kind \in Exchanges, Starts(t, {"active", "issueTokens"})
      PROVE  Bearing(r) /\ t.token = task[r].token
  <2>1. Tail(task[r].todo) # <<>>
    <3>1. Resting.kind \notin Exchanges
        BY DEF Resting, Exchanges
    <3>2. Tail(task[r].todo) = <<>> => t = Resting
        BY RestType
    <3> HIDE DEF t
    <3> QED
        BY <1>3, <3>1, <3>2
  <2>2. t = [task[r] EXCEPT !.todo = Tail(task[r].todo)]
      BY <2>1, RestType
  <2>3. t.todo = Tail(task[r].todo) /\ t.kind = task[r].kind /\ t.token = task[r].token
      BY <1>1, <2>2 DEF Task
  <2> HIDE DEF t
  <2>4. s = "active"
    <3>1. \/ s = "active"
          \/ t.todo = <<"issue", "send">> \/ t.todo = <<"send">> \/ t.todo = <<"reply">> \/ t.todo = <<>>
          \/ t.todo = <<"recheck", "create", "issueTokens", "reply">>
          \/ t.todo = <<"create", "issueTokens", "reply">>
        BY <1>1, <2>3, TailOf DEF Statements
    <3> QED
        BY <1>3, <3>1 DEF Starts
  <2> QED
      BY <1>1, <1>3, <2>3, <2>4 DEF Bearing, Starts
<1> HIDE DEF t
<1> QED
    BY <1>2, <1>3, OneTaskFades

LEMMA AbortFades ==
    ASSUME Inv, NEW r \in Requests, NEW s, At(r, s), Abort(r), tokens' = tokens, sessions' \subseteq sessions
    PROVE  Fades
<1>1. task[r] \in Task /\ task' = [task EXCEPT ![r] = Refused(task[r])]
    BY Running DEF Abort
<1>2. ~(Refused(task[r]).kind \in Exchanges /\ Starts(Refused(task[r]), {"active", "issueTokens"}))
    BY <1>1 DEF Refused, Task, Starts, Resting, Exchanges
<1> QED
    BY <1>1, <1>2, OneTaskFades

LEMMA StepFades ==
    ASSUME Inv, NEW r \in Requests, Step(r), ~IssueTokens(r),
           ~(ClaimSession(r) /\ task[r].token \in sessions)
    PROVE  Fades
<1> USE DEF tokenVars, userVars, webVars, redisVars
<1>0. Statements \ {"claimSession", "create"} =
        {"claimSend", "ttl", "issue", "send", "release", "verifyCode", "recheck", "issueTokens",
         "active", "revoke", "forgot", "reset", "lock", "unlock", "reply"}
    BY DEF Statements
<1>1. CASE Ttl(r) \/ Recheck(r) \/ CheckActive(r)
    BY <1>0, <1>1, ContinueFades, AbortFades DEF Ttl, Recheck, CheckActive
<1>2. CASE Issue(r) \/ ReleaseSend(r) \/ Succeeded(r) \/ Failed(r) \/ CreateLink(r) \/ Unlock(r)
    BY <1>0, <1>2, ContinueFades DEF Issue, ReleaseSend, Succeeded, Failed, CreateLink, Unlock
<1>3. CASE Revoke(r) \/ Reset(r) \/ Lock(r)
  <2>1. tokens' = tokens /\ sessions' \subseteq sessions
      BY <1>3 DEF Revoke, Reset, Lock
  <2> QED
      BY <1>0, <1>3, <2>1, ContinueFades DEF Revoke, Reset, Lock
<1>4. CASE ClaimSend(r)
  <2> DEFINE t == [task[r] EXCEPT !.todo = IF cooldown THEN <<"ttl">> \o Tail(@) ELSE Tail(@)]
  <2>1. /\ task[r] \in Task /\ task[r].todo = <<"claimSend", "issue", "send">>
        /\ Tail(task[r].todo) = <<"issue", "send">>
        /\ task' = [task EXCEPT ![r] = t] /\ tokens' = tokens /\ sessions' = sessions
      BY <1>4, Running, ListOf, TailOf DEF ClaimSend
  <2>2. t.todo = (IF cooldown THEN <<"ttl">> \o <<"issue", "send">> ELSE <<"issue", "send">>)
      BY <2>1 DEF Task
  <2>3. Head(t.todo) \in {"ttl", "issue"}
    <3>1. <<"ttl">> \in Seq({"ttl", "issue", "send"}) /\ <<"issue", "send">> \in Seq({"ttl", "issue", "send"})
        OBVIOUS
    <3>2. Head(<<"ttl">> \o <<"issue", "send">>) = "ttl" /\ Head(<<"issue", "send">>) = "issue"
        BY <3>1
    <3> QED
        BY <2>2, <3>2
  <2> HIDE DEF t
  <2>4. ~Starts(t, {"active", "issueTokens"})
      BY <2>3 DEF Starts
  <2> QED
      BY <2>1, <2>4, OneTaskFades
<1>5. CASE Send(r)
  <2>1. CASE Continue(r)
      BY <1>0, <1>5, <2>1, ContinueFades DEF Send
  <2>2. CASE task' = [task EXCEPT ![r].todo = <<"release">>]
    <3>1. task[r] \in Task /\ task' = [task EXCEPT ![r] = [task[r] EXCEPT !.todo = <<"release">>]]
        BY <1>5, <2>2, Running DEF Send
    <3>2. ~Starts([task[r] EXCEPT !.todo = <<"release">>], {"active", "issueTokens"})
        BY <3>1 DEF Starts, Task
    <3> QED
        BY <1>5, <3>1, <3>2, OneTaskFades DEF Send
  <2> QED
      BY <1>5, <2>1, <2>2 DEF Send
<1>6. CASE VerifyCode(r)
  <2>1. At(r, "verifyCode") /\ tokens' = tokens /\ sessions' = sessions
      BY <1>6 DEF VerifyCode
  <2>2. CASE Abort(r)
      BY <2>1, <2>2, AbortFades
  <2>3. CASE task' = [task EXCEPT ![r] = [Rest(@) EXCEPT !.code = 0]]
    <3> DEFINE t == [Rest(task[r]) EXCEPT !.code = 0]
    <3>1. /\ task[r].todo \in Lists
          /\ Tail(task[r].todo) = <<"recheck", "create", "issueTokens", "reply">>
        BY <2>1, Running, TailOf
    <3>2. /\ Rest(task[r]) = [task[r] EXCEPT !.todo = Tail(task[r].todo)]
          /\ Rest(task[r]) \in Task /\ task[r] \in Task
      <4>1. <<"recheck", "create", "issueTokens", "reply">> # <<>>
          OBVIOUS
      <4> QED
          BY <2>1, <3>1, <4>1, RestType, Running
    <3>3. t.todo = <<"recheck", "create", "issueTokens", "reply">>
      <4>1. Rest(task[r]).todo = <<"recheck", "create", "issueTokens", "reply">>
          BY <3>1, <3>2 DEF Task
      <4> QED
          BY <3>2, <4>1, WithCode
    <3> HIDE DEF t
    <3>4. ~Starts(t, {"active", "issueTokens"})
        BY <3>3 DEF Starts
    <3> QED
        BY <2>1, <2>3, <3>4, OneTaskFades DEF t
  <2> QED
      BY <1>6, <2>2, <2>3 DEF VerifyCode
<1>7. CASE CreateAccount(r)
  <2>1. PICK u \in Users : At(r, "create") /\ task' = [task EXCEPT ![r] = [Rest(@) EXCEPT !.user = u]]
                             /\ tokens' = tokens /\ sessions' = sessions
      BY <1>7 DEF CreateAccount
  <2> DEFINE t == [Rest(task[r]) EXCEPT !.user = u]
  <2>2. task[r] \in Task /\ Tail(task[r].todo) = <<"issueTokens", "reply">> /\ task[r].kind = "verify"
      BY <2>1, Running, TailOf DEF Agrees, Starts, At
  <2>3. /\ Rest(task[r]) = [task[r] EXCEPT !.todo = Tail(task[r].todo)] /\ Rest(task[r]) \in Task
    <3>1. <<"issueTokens", "reply">> # <<>>
        OBVIOUS
    <3> QED
        BY <2>1, <2>2, <3>1, RestType
  <2>4. t.kind = "verify"
    <3>1. Rest(task[r]).kind = "verify"
        BY <2>2, <2>3 DEF Task
    <3> QED
        BY <2>3, <3>1, WithUser
  <2> HIDE DEF t
  <2>5. task' = [task EXCEPT ![r] = t]
      BY <2>1 DEF t
  <2> QED
      BY <2>1, <2>4, <2>5, OneTaskFades DEF Exchanges
<1>8. CASE ClaimSession(r)
    BY <1>8, AbortFades DEF ClaimSession
<1> QED
    BY <1>1, <1>2, <1>3, <1>4, <1>5, <1>6, <1>7, <1>8 DEF Step

LEMMA OutsideFades ==
    ASSUME Inv,
           \/ \E t \in Tabs : Bounce(t) \/ Reload(t) \/ BootstrapFails(t)
           \/ \E h \in Handles : CodeExpires(h)
           \/ \E l \in Links : LinkExpires(l)
           \/ CooldownExpires
           \/ Restart
    PROVE  Fades
<1>1. CASE \E t \in Tabs : Reload(t)
  <2>1. PICK t \in Tabs : Reload(t)
      BY <1>1
  <2>2. ASSUME NEW r \in Requests PROVE Bearing(r)' => Bearing(r) /\ task'[r].token = task[r].token
    <3>1. task[r] \in Task /\ task'[r] = IF task[r].tab = t THEN [task[r] EXCEPT !.tab = NoTab] ELSE task[r]
        BY <2>1 DEF Reload, Inv, TypeOK
    <3>2. task'[r].todo = task[r].todo /\ task'[r].kind = task[r].kind /\ task'[r].token = task[r].token
        BY <3>1 DEF Task
    <3> QED
        BY <3>2 DEF Bearing, Starts
  <2> QED
      BY <2>1, <2>2 DEF Reload, Fades, tokenVars
<1>2. CASE Restart
  <2>1. ASSUME NEW r \in Requests PROVE ~Bearing(r)'
    <3>1. task[r] \in Task
          /\ task'[r] = IF task[r].kind \in Exchanges \union {"logout"}
                        THEN [task[r] EXCEPT !.ok = FALSE, !.todo = <<"reply">>] ELSE Resting
        BY <1>2 DEF Restart, Inv, TypeOK
    <3>2. task'[r].todo = <<"reply">> \/ task'[r].todo = <<>>
        BY <3>1 DEF Task, Resting
    <3> QED
        BY <3>2 DEF Bearing, Starts
  <2> QED
      BY <1>2, <2>1 DEF Restart, Fades, tokenVars
<1>3. CASE UNCHANGED <<task, tokens, sessions>>
    BY <1>3 DEF Fades, Bearing
<1> QED
    BY <1>1, <1>2, <1>3 DEF Bounce, BootstrapFails, CodeExpires, LinkExpires, CooldownExpires, tokenVars

\* A step that changes the phase of one sign-in only.
LEMMA PhaseMoves ==
    ASSUME NEW i \in Tokens, NEW from, NEW to,
           Phase = [j \in Tokens |-> PhaseOf(j)], Phase' = [j \in Tokens |-> PhaseOf(j)'],
           PhaseOf(i) = from, PhaseOf(i)' = to,
           \A j \in Tokens : j # i => PhaseOf(j)' = PhaseOf(j)
    PROVE  SignIn!Move(i, from, to)
<1>1. Phase[i] = from
    OBVIOUS
<1>2. Phase' = [Phase EXCEPT ![i] = to]
    OBVIOUS
<1> QED
    BY <1>1, <1>2 DEF SignIn!Move, Phase

\* A claimed session hands its sign-in over to the request that claimed it.
LEMMA ClaimHandsIn ==
    ASSUME Inv, OneBearer, NEW r \in Requests, ClaimSession(r), task[r].token \in sessions
    PROVE  OneBearer' /\ SignIn!Next
<1>1. /\ At(r, "claimSession") /\ Continue(r)
      /\ sessions' = sessions \ {task[r].token} /\ tokens' = tokens
    BY DEF ClaimSession
<1>2. /\ task[r] \in Task /\ task[r].todo = <<"claimSession", "active", "issueTokens", "reply">>
      /\ Tail(task[r].todo) = <<"active", "issueTokens", "reply">>
      /\ task[r].kind \in Exchanges
  <2>1. Agrees(task[r], ntokens, users, revs)
      BY <1>1, Running
  <2> QED
      BY <1>1, <2>1, Running, ListOf, TailOf DEF Agrees, Starts, At
<1>3. PICK k \in Tokens : k = task[r].token /\ k <= ntokens
    BY DEF Inv, TypeOK, TokensAgree
<1>4. PICK i \in Tokens : i = tokens[k].line /\ tokens[i].line = i
  <2>1. tokens[k].line \in 1 .. k /\ tokens[tokens[k].line].line = tokens[k].line
      BY <1>3 DEF Inv, TokensAgree
  <2>2. tokens[k].line \in Tokens
      BY <2>1, ConstantTypes DEF Tokens
  <2> QED
      BY <2>1, <2>2
<1>5. PICK t : t = Rest(task[r])
    OBVIOUS
<1>6. t.todo = <<"active", "issueTokens", "reply">> /\ t.kind = task[r].kind /\ t.token = k
  <2>1. <<"active", "issueTokens", "reply">> # <<>>
      OBVIOUS
  <2>2. t = [task[r] EXCEPT !.todo = Tail(task[r].todo)]
      BY <1>1, <1>2, <1>5, <2>1, RestType
  <2> QED
      BY <1>2, <1>3, <2>2 DEF Task
<1>7. task'[r] = t /\ \A q \in Requests : q # r => task'[q] = task[q]
    BY <1>1, <1>5 DEF Continue, Inv, TypeOK
<1>8. ~Bearing(r) /\ Bearing(r)' /\ LineOf(r)' = i
  <2>1. ~Bearing(r)
      BY <1>2 DEF Bearing, Starts
  <2>2. task'[r].todo # <<>> /\ Head(task'[r].todo) = "active"
    <3>1. /\ <<"active", "issueTokens", "reply">> # <<>>
          /\ Head(<<"active", "issueTokens", "reply">>) = "active"
        OBVIOUS
    <3>2. task'[r].todo = <<"active", "issueTokens", "reply">>
        BY <1>6, <1>7
    <3> QED
        BY <3>1, <3>2
  <2>3. Bearing(r)'
      BY <1>2, <1>6, <1>7, <2>2 DEF Bearing, Starts
  <2> QED
      BY <1>1, <1>4, <1>6, <1>7, <2>1, <2>3 DEF LineOf
<1>9. \A q \in Requests : q # r => (Bearing(q)' <=> Bearing(q)) /\ LineOf(q)' = LineOf(q)
    BY <1>1, <1>7 DEF Bearing, LineOf, Starts
<1>10. OneBearer'
  <2>1. \A j, m \in sessions' : tokens'[j].line = tokens'[m].line => j = m
      BY <1>1 DEF OneBearer
  <2>2. ASSUME NEW q \in Requests, NEW p \in Requests, Bearing(q)', Bearing(p)', LineOf(q)' = LineOf(p)'
        PROVE  q = p
      BY <1>3, <1>4, <1>8, <1>9, <2>2 DEF OneBearer
  <2>3. ASSUME NEW m \in sessions', NEW q \in Requests, Bearing(q)'
        PROVE  tokens'[m].line # LineOf(q)'
      BY <1>1, <1>3, <1>4, <1>8, <1>9, <2>3 DEF OneBearer
  <2> QED
      BY <2>1, <2>2, <2>3 DEF OneBearer
<1>11. Phase = [j \in Tokens |-> PhaseOf(j)] /\ Phase' = [j \in Tokens |-> PhaseOf(j)']
    BY <1>10, PhaseStep
<1>12. ASSUME NEW j PROVE LiveOf(j)' = LiveOf(j) \ {k}
    BY <1>1, <1>3 DEF LiveOf
<1>13. ASSUME NEW j PROVE InExchange(j)' = IF j = i THEN InExchange(j) \union {r} ELSE InExchange(j)
  <2>1. InExchange(j)' = {q \in Requests : Bearing(q)' /\ LineOf(q)' = j}
      BY DEF InExchange, Bearing, LineOf, Starts, At
  <2>2. ASSUME NEW q PROVE q \in InExchange(j)' <=> q \in InExchange(j) \/ (j = i /\ q = r)
    <3>1. CASE q = r
        BY <1>8, <2>1, <3>1, BearersOf
    <3>2. CASE q # r
        BY <1>9, <2>1, <3>2, BearersOf
    <3> QED
        BY <3>1, <3>2
  <2> QED
      BY <2>2
<1>14. LiveOf(i) = {k}
    BY <1>3, <1>4, BearersOf DEF OneBearer
<1>15. PhaseOf(i) = "held" /\ PhaseOf(i)' = "exchanging"
  <2>1. LiveOf(i)' = {}
      BY <1>12, <1>14
  <2>2. InExchange(i)' # {}
      BY <1>13
  <2>3. tokens'[i].line = i
      BY <1>1, <1>4
  <2>4. PhaseOf(i) = "held"
      BY <1>4, <1>14 DEF PhaseOf
  <2>5. PhaseOf(i)' = "exchanging"
      BY <2>1, <2>2, <2>3 DEF PhaseOf
  <2> QED
      BY <2>4, <2>5
<1>16. ASSUME NEW j \in Tokens, j # i PROVE PhaseOf(j)' = PhaseOf(j)
  <2>1. LiveOf(j)' = LiveOf(j) /\ InExchange(j)' = InExchange(j)
      BY <1>4, <1>12, <1>13, <1>16, BearersOf
  <2>2. tokens'[j].line = tokens[j].line
      BY <1>1
  <2> QED
      BY <2>1, <2>2 DEF PhaseOf
<1>17. SignIn!HandIn(i)
    BY <1>11, <1>15, <1>16, PhaseMoves DEF SignIn!HandIn
<1> QED
    BY <1>10, <1>17 DEF SignIn!Next

\* An issued token continues the sign-in of its exchange, or begins a new one.
LEMMA IssueHandsOut ==
    ASSUME Inv, OneBearer, NEW r \in Requests, IssueTokens(r)
    PROVE  OneBearer' /\ SignIn!Next
<1> USE ConstantTypes
<1>1. PICK k \in Tokens : k = ntokens + 1
  <2>1. Inv' /\ ntokens' = ntokens + 1
      BY IssueTokensKeepsInv DEF IssueTokens
  <2>2. ntokens + 1 \in Tokens
      BY <2>1, Typed DEF Inv, TypeOK, Tokens
  <2> QED
      BY <2>2
<1>2. PICK line : line = IF task[r].kind \in Exchanges THEN tokens[task[r].token].line ELSE k
    OBVIOUS
<1>3. PICK t : t = [Rest(task[r]) EXCEPT !.token = k, !.ok = TRUE]
    OBVIOUS
<1>4. /\ At(r, "issueTokens")
      /\ tokens' = [tokens EXCEPT ![k] = [user |-> task[r].user, after |-> revs[task[r].user], line |-> line]]
      /\ sessions' = sessions \union {k}
      /\ task' = [task EXCEPT ![r] = t]
      /\ ntokens \in Nat
    BY <1>1, <1>2, <1>3, Typed DEF IssueTokens
<1>5. /\ task[r] \in Task /\ task[r].todo = <<"issueTokens", "reply">>
      /\ Tail(task[r].todo) = <<"reply">> /\ <<"reply">> # <<>>
      /\ Agrees(task[r], ntokens, users, revs)
    BY <1>4, Running, ListOf, TailOf
<1>6. t.todo = <<"reply">>
  <2>1. Rest(task[r]) \in Task /\ Rest(task[r]).todo = <<"reply">>
      BY <1>4, <1>5, RestType DEF Task
  <2> QED
      BY <1>3, <2>1, WithToken
<1>7. task'[r] = t /\ \A q \in Requests : q # r => task'[q] = task[q]
    BY <1>4 DEF Inv, TypeOK
<1>8. ~Bearing(r)'
    BY <1>6, <1>7 DEF Bearing, Starts
<1>9. tokens'[k].line = line /\ \A j \in Tokens : j # k => tokens'[j] = tokens[j]
    BY <1>4 DEF Inv, TypeOK
<1>10. \A j \in sessions : j \in Tokens /\ j # k /\ tokens[j].line \in 1 .. ntokens /\ tokens[j].line # k
  <2>1. ASSUME NEW j \in sessions PROVE j \in Tokens /\ j <= ntokens /\ tokens[j].line \in 1 .. j
      BY DEF Inv, TypeOK, TokensAgree
  <2> QED
      BY <1>1, <1>4, <2>1 DEF Tokens
<1>11. \A q \in Requests : Bearing(q) =>
          task[q].token \in Tokens /\ task[q].token # k /\ LineOf(q) \in 1 .. ntokens /\ LineOf(q) # k
               /\ tokens[LineOf(q)].line = LineOf(q)
  <2>1. ASSUME NEW q \in Requests, Bearing(q)
        PROVE  task[q].token \in Tokens /\ task[q].token <= ntokens
    <3>1. task[q] \in Task /\ task[q].token # 0 /\ task[q].token <= ntokens
        BY <2>1 DEF Bearing, Starts, Inv, TypeOK, TasksAgree, Agrees
    <3> QED
        BY <3>1 DEF Task, Tokens
  <2>2. ASSUME NEW q \in Requests, Bearing(q)
        PROVE  LineOf(q) \in 1 .. task[q].token /\ tokens[LineOf(q)].line = LineOf(q)
      BY <2>1, <2>2 DEF Inv, TokensAgree, LineOf
  <2> QED
      BY <1>1, <1>4, <2>1, <2>2 DEF Tokens
<1>12. \A q \in Requests : Bearing(q)' => q # r /\ Bearing(q) /\ LineOf(q)' = LineOf(q)
  <2>1. ASSUME NEW q \in Requests, Bearing(q)' PROVE q # r /\ Bearing(q) /\ task'[q] = task[q]
      BY <1>7, <1>8, <2>1 DEF Bearing, Starts
  <2> QED
      BY <1>9, <1>11, <2>1 DEF LineOf
<1>13. \A q \in Requests : q # r /\ Bearing(q) => Bearing(q)' /\ LineOf(q)' = LineOf(q)
  <2>1. ASSUME NEW q \in Requests, q # r, Bearing(q) PROVE Bearing(q)' /\ task'[q] = task[q]
      BY <1>7, <2>1 DEF Bearing, Starts
  <2> QED
      BY <1>9, <1>11, <2>1 DEF LineOf
<1>14. ASSUME task[r].kind \in Exchanges
       PROVE  Bearing(r) /\ line = LineOf(r) /\ line \in Tokens /\ line # k /\ tokens[line].line = line
  <2>1. Bearing(r)
      BY <1>4, <1>14 DEF Bearing, Starts, At
  <2>2. line = LineOf(r)
      BY <1>2, <1>14 DEF LineOf
  <2> QED
      BY <1>1, <1>4, <1>11, <2>1, <2>2 DEF Tokens
<1>15. ASSUME task[r].kind \notin Exchanges PROVE line = k /\ ~Bearing(r)
    BY <1>2, <1>15 DEF Bearing
<1>16. OneBearer'
  <2>1. \A j \in sessions : tokens[j].line # line
      BY <1>10, <1>14, <1>15 DEF OneBearer
  <2>2. \A j, m \in sessions' : tokens'[j].line = tokens'[m].line => j = m
      BY <1>4, <1>9, <1>10, <2>1 DEF OneBearer
  <2>3. \A q, p \in Requests : Bearing(q)' /\ Bearing(p)' /\ LineOf(q)' = LineOf(p)' => q = p
      BY <1>12 DEF OneBearer
  <2>4. ASSUME NEW m \in sessions', NEW q \in Requests, Bearing(q)' PROVE tokens'[m].line # LineOf(q)'
    <3>1. q # r /\ Bearing(q) /\ LineOf(q)' = LineOf(q)
        BY <1>12, <2>4
    <3>2. LineOf(q) # line
        BY <1>11, <1>14, <1>15, <3>1 DEF OneBearer
    <3>3. CASE m = k
        BY <1>9, <3>1, <3>2, <3>3
    <3>4. CASE m # k
        BY <1>4, <1>9, <1>10, <3>1, <3>4 DEF OneBearer
    <3> QED
        BY <3>3, <3>4
  <2> QED
      BY <2>2, <2>3, <2>4 DEF OneBearer
<1>17. Phase = [j \in Tokens |-> PhaseOf(j)] /\ Phase' = [j \in Tokens |-> PhaseOf(j)']
    BY <1>16, PhaseStep
<1>18. ASSUME NEW j PROVE LiveOf(j)' = IF j = line THEN LiveOf(j) \union {k} ELSE LiveOf(j)
  <2>1. \A m \in sessions : tokens'[m].line = tokens[m].line
      BY <1>9, <1>10
  <2>2. LiveOf(j)' = {m \in sessions' : tokens'[m].line = j}
      BY DEF LiveOf
  <2>3. ASSUME NEW m PROVE m \in LiveOf(j)' <=> m \in LiveOf(j) \/ (j = line /\ m = k)
      BY <1>4, <1>9, <2>1, <2>2, BearersOf
  <2> QED
      BY <2>3
<1>19. ASSUME NEW j PROVE InExchange(j)' = InExchange(j) \ {r}
  <2>1. InExchange(j)' = {q \in Requests : Bearing(q)' /\ LineOf(q)' = j}
      BY DEF InExchange, Bearing, LineOf, Starts, At
  <2> QED
      BY <1>12, <1>13, <2>1, BearersOf
<1>20. CASE task[r].kind \in Exchanges
  <2>1. line \in Tokens /\ line # k /\ tokens[line].line = line
      BY <1>14, <1>20
  <2>2. tokens'[line].line = line
      BY <1>9, <2>1
  <2>3. InExchange(line) # {} /\ LiveOf(line) = {}
    <3>1. r \in InExchange(line)
        BY <1>14, <1>20, BearersOf
    <3>2. \A j \in sessions : tokens[j].line # line
        BY <1>14, <1>20 DEF OneBearer
    <3> QED
        BY <3>1, <3>2, BearersOf
  <2>4. LiveOf(line)' # {}
      BY <1>18
  <2>5. PhaseOf(line) = "exchanging"
      BY <2>1, <2>3 DEF PhaseOf
  <2>6. PhaseOf(line)' = "held"
      BY <2>2, <2>4 DEF PhaseOf
  <2>7. ASSUME NEW j \in Tokens, j # line PROVE PhaseOf(j)' = PhaseOf(j)
    <3>1. InExchange(j)' = InExchange(j) /\ LiveOf(j)' = LiveOf(j)
        BY <1>14, <1>18, <1>19, <1>20, <2>7, BearersOf
    <3>2. (tokens'[j].line = j) <=> (tokens[j].line = j)
      <4>1. CASE j = k
        <5>1. tokens[k] = NoToken
            BY <1>1, <1>4 DEF Inv, TokensAgree, Tokens
        <5>2. tokens[k].line = 0 /\ k # 0
            BY <1>1, <1>4, <5>1 DEF NoToken
        <5> QED
            BY <1>9, <2>7, <4>1, <5>2
      <4> QED
          BY <1>9, <4>1
    <3> QED
        BY <3>1, <3>2 DEF PhaseOf
  <2>8. SignIn!HandOut(line)
      BY <1>17, <2>1, <2>5, <2>6, <2>7, PhaseMoves DEF SignIn!HandOut
  <2> QED
      BY <1>16, <2>1, <2>8 DEF SignIn!Next
<1>21. CASE task[r].kind \notin Exchanges
  <2>1. line = k
      BY <1>15, <1>21
  <2>2. tokens[k].line # k /\ tokens'[k].line = k
    <3>1. tokens[k] = NoToken
        BY <1>1, <1>4 DEF Inv, TokensAgree, Tokens
    <3>2. tokens[k].line = 0 /\ k # 0
        BY <1>1, <1>4, <3>1 DEF NoToken
    <3> QED
        BY <1>9, <2>1, <3>2
  <2>3. LiveOf(k)' # {}
      BY <1>18, <2>1
  <2>4. PhaseOf(k) = "new"
      BY <2>2 DEF PhaseOf
  <2>5. PhaseOf(k)' = "held"
      BY <2>2, <2>3 DEF PhaseOf
  <2>6. ASSUME NEW j \in Tokens, j # k PROVE PhaseOf(j)' = PhaseOf(j)
    <3>1. InExchange(j)' = InExchange(j) /\ LiveOf(j)' = LiveOf(j)
        BY <1>15, <1>18, <1>19, <1>21, <2>1, <2>6, BearersOf
    <3>2. tokens'[j] = tokens[j]
        BY <1>9, <2>6
    <3> QED
        BY <3>1, <3>2 DEF PhaseOf
  <2>7. SignIn!Begin(k)
      BY <1>17, <2>4, <2>5, <2>6, PhaseMoves DEF SignIn!Begin
  <2> QED
      BY <1>16, <2>7 DEF SignIn!Next
<1> QED
    BY <1>20, <1>21

LEMMA NextOneBearer ==
    ASSUME Inv, OneBearer, Next
    PROVE  OneBearer' /\ SignIn!Next
<1>1. CASE Fades
    BY <1>1, FadesOneBearer, FadesEnds DEF SignIn!Next
<1>2. ASSUME NEW r \in Requests, Start(r) \/ Step(r) PROVE OneBearer' /\ SignIn!Next
    BY <1>1, <1>2, StartFades, StepFades, ClaimHandsIn, IssueHandsOut
<1> QED
    BY <1>1, <1>2, OutsideFades DEF Next

LEMMA OneBearerAlways == Spec => []OneBearer
<1>1. Init => OneBearer
    BY DEF Init, OneBearer, Bearing, Resting, Exchanges
<1>2. Inv /\ OneBearer /\ [Next]_vars => OneBearer'
  <2> SUFFICES ASSUME Inv, OneBearer, [Next]_vars PROVE OneBearer'
      OBVIOUS
  <2>1. CASE UNCHANGED vars
    <3>1. Fades
        BY <2>1 DEF vars, tokenVars, Fades, Bearing
    <3> QED
        BY <3>1, FadesOneBearer
  <2> QED
      BY <2>1, NextOneBearer
<1> QED
    BY <1>1, <1>2, InvAlways, PTL DEF Spec

\* The session table implements SignIns.tla for every number of tabs, requests and tokens:
\* one bearer per sign-in, whatever is refreshed, revoked, lost or restarted.
THEOREM SignInsImplemented == Spec => ImplementsSignIns
<1>1. Init => SignIn!Init
  <2> SUFFICES ASSUME Init PROVE Phase = [i \in Tokens |-> "new"]
      BY DEF SignIn!Init, Phase
  <2>1. \A i \in Tokens : tokens[i].line # i
      BY DEF Init, NoToken, Tokens
  <2> QED
      BY <2>1 DEF Phase, SignInPhase
<1>2. Inv /\ OneBearer /\ [Next]_vars => [SignIn!Next]_Phase
  <2>1. ASSUME UNCHANGED vars PROVE Phase' = Phase
      BY <2>1 DEF vars, tokenVars, Phase, SignInPhase, LiveOf, InExchange, At, Tokens
  <2> QED
      BY <2>1, NextOneBearer
<1> QED
    BY <1>1, <1>2, InvAlways, OneBearerAlways, PTL DEF Spec, ImplementsSignIns, SignIn!Spec, Phase

-----------------------------------------------------------------------------
(* Requests that do not overlap.                                           *)

\* One request runs at a time, at most one account stands, and a request about to create one
\* has just seen that none does.
SerialInv ==
    /\ \A r \in Requests : Idle(r) => task[r].kind = "none"
    /\ \A r \in Requests : At(r, "lock") \/ At(r, "unlock") => Exists(task[r].user)
    /\ Alone =>
           /\ \A q, r \in Requests : ~Idle(q) /\ ~Idle(r) => q = r
           /\ \A u, v \in Users : Exists(u) /\ Exists(v) => u = v
           /\ \A r \in Requests : At(r, "create") => ~AddressTaken

\* After a statement a handler goes on, answers, gives up, or takes a detour.
LEMMA StepTodo ==
    ASSUME Inv, NEW r \in Requests, Step(r)
    PROVE  /\ \A q \in Requests : q # r => task'[q] = task[q]
           /\ task[r].todo \in Lists
           /\ \/ task'[r].todo = Tail(task[r].todo)
              \/ task'[r].todo = <<>> \/ task'[r].todo = <<"reply">> \/ task'[r].todo = <<"release">>
              \/ At(r, "claimSend")
           /\ task'[r].todo = <<>> => task'[r].kind = "none"
<1>1. task \in [Requests -> Task] /\ task[r] \in Task /\ Resting.todo = <<>> /\ Resting.kind = "none"
    BY DEF Inv, TypeOK, Resting
<1>2. PICK s : At(r, s)
    BY DEF Step, ClaimSend, Ttl, Issue, Send, ReleaseSend, VerifyCode, Recheck, CreateAccount, IssueTokens,
           ClaimSession, CheckActive, Revoke, CreateLink, Reset, Lock, Unlock, Succeeded, Failed
<1>3. task[r].todo \in Lists
    BY <1>2, Running
<1>4. /\ Rest(task[r]) \in Task /\ Rest(task[r]).todo = Tail(task[r].todo)
      /\ Rest(task[r]).todo = <<>> => Rest(task[r]).kind = "none"
    BY <1>1, <1>2, RestType DEF Task
<1>5. CASE Continue(r)
    BY <1>1, <1>3, <1>4, <1>5 DEF Continue
<1>6. CASE Abort(r)
    BY <1>1, <1>3, <1>6 DEF Abort, Refused, Task
<1>7. CASE ClaimSend(r)
  <2>1. Tail(task[r].todo) = <<"issue", "send">> /\ At(r, "claimSend")
      BY <1>3, <1>7, TailOf DEF ClaimSend, At
  <2>2. <<"issue", "send">> # <<>> /\ <<"ttl">> \o <<"issue", "send">> # <<>>
      OBVIOUS
  <2>3. /\ \A q \in Requests : q # r => task'[q] = task[q]
        /\ task'[r].todo = IF cooldown THEN <<"ttl">> \o <<"issue", "send">> ELSE <<"issue", "send">>
      BY <1>1, <1>7, <2>1 DEF ClaimSend, Task
  <2> QED
      BY <1>3, <2>1, <2>2, <2>3
<1>8. CASE task' = [task EXCEPT ![r].todo = <<"release">>]
    BY <1>1, <1>3, <1>8 DEF Task
<1>9. ASSUME NEW t, task' = [task EXCEPT ![r] = t],
             t.todo = Rest(task[r]).todo, t.kind = Rest(task[r]).kind
      PROVE  /\ \A q \in Requests : q # r => task'[q] = task[q]
             /\ task'[r].todo = Tail(task[r].todo)
             /\ task'[r].todo = <<>> => task'[r].kind = "none"
    BY <1>1, <1>4, <1>9
<1>10. CASE task' = [task EXCEPT ![r] = [Rest(@) EXCEPT !.code = 0]]
  <2>1. PICK t : t = [Rest(task[r]) EXCEPT !.code = 0]
      OBVIOUS
  <2>2. t.todo = Rest(task[r]).todo /\ t.kind = Rest(task[r]).kind
      BY <1>4, <2>1, WithCode
  <2>3. task' = [task EXCEPT ![r] = t]
      BY <1>10, <2>1
  <2> QED
      BY <1>3, <1>9, <2>2, <2>3
<1>11. CASE IssueTokens(r)
  <2>1. PICK k \in Tokens : k = ntokens + 1
    <3>1. Inv' /\ ntokens' = ntokens + 1
        BY <1>11, IssueTokensKeepsInv DEF IssueTokens
    <3>2. ntokens + 1 \in Tokens
        BY <3>1, Typed, ConstantTypes DEF Inv, TypeOK, Tokens
    <3> QED
        BY <3>2
  <2>2. PICK t : t = [Rest(task[r]) EXCEPT !.token = k, !.ok = TRUE]
      OBVIOUS
  <2>3. t.todo = Rest(task[r]).todo /\ t.kind = Rest(task[r]).kind
      BY <1>4, <2>2, WithToken
  <2>4. task' = [task EXCEPT ![r] = t]
      BY <1>11, <2>1, <2>2 DEF IssueTokens
  <2> QED
      BY <1>3, <1>9, <2>3, <2>4
<1>12. CASE CreateAccount(r)
  <2>1. PICK u \in Users : task' = [task EXCEPT ![r] = [Rest(@) EXCEPT !.user = u]]
      BY <1>12 DEF CreateAccount
  <2>2. PICK t : t = [Rest(task[r]) EXCEPT !.user = u]
      OBVIOUS
  <2>3. t.todo = Rest(task[r]).todo /\ t.kind = Rest(task[r]).kind
      BY <1>4, <2>2, WithUser
  <2>4. task' = [task EXCEPT ![r] = t]
      BY <2>1, <2>2
  <2> QED
      BY <1>3, <1>9, <2>3, <2>4
<1> QED
    BY <1>5, <1>6, <1>7, <1>8, <1>10, <1>11, <1>12
    DEF Step, Ttl, Issue, Send, ReleaseSend, VerifyCode, Recheck, ClaimSession, CheckActive,
        Revoke, CreateLink, Reset, Lock, Unlock, Succeeded, Failed

\* Only a statement that saw no account leads to a creation, and none to a revocation.
LEMMA StepStarts ==
    ASSUME Inv, NEW r \in Requests, Step(r)
    PROVE  /\ ~At(r, "lock")' /\ ~At(r, "unlock")'
           /\ At(r, "create")' => At(r, "recheck") /\ ~AddressTaken
<1>1. task[r].todo \in Lists
    BY StepTodo
<1>2. CASE At(r, "claimSend")
  <2>1. Tail(task[r].todo) = <<"issue", "send">> /\ task[r] \in Task
      BY <1>1, <1>2, TailOf, Running DEF At
  <2>2. task' = [task EXCEPT ![r].todo = IF cooldown THEN <<"ttl">> \o Tail(@) ELSE Tail(@)]
      BY <1>2 DEF Step, ClaimSend, Ttl, Issue, Send, ReleaseSend, VerifyCode, Recheck, CreateAccount, IssueTokens,
                  ClaimSession, CheckActive, Revoke, CreateLink, Reset, Lock, Unlock, Succeeded, Failed, At
  <2>3. task'[r].todo = <<"ttl">> \o <<"issue", "send">> \/ task'[r].todo = <<"issue", "send">>
      BY <2>1, <2>2 DEF Inv, TypeOK, Task
  <2>4. Head(<<"ttl">> \o <<"issue", "send">>) = "ttl" /\ Head(<<"issue", "send">>) = "issue"
    <3>1. <<"ttl">> \in Seq({"ttl", "issue", "send"}) /\ <<"issue", "send">> \in Seq({"ttl", "issue", "send"})
        OBVIOUS
    <3> QED
        BY <3>1
  <2> QED
      BY <2>3, <2>4 DEF At
<1>3. CASE ~At(r, "claimSend")
  <2>1. \/ task'[r].todo = Tail(task[r].todo)
        \/ task'[r].todo = <<>> \/ task'[r].todo = <<"reply">> \/ task'[r].todo = <<"release">>
      BY <1>3, StepTodo
  <2>2. \/ Tail(task[r].todo) = <<"create", "issueTokens", "reply">> /\ At(r, "recheck")
        \/ Tail(task[r].todo) = <<>> \/ Tail(task[r].todo) = <<"issue", "send">>
        \/ Tail(task[r].todo) = <<"send">> \/ Tail(task[r].todo) = <<"reply">>
        \/ Tail(task[r].todo) = <<"issueTokens", "reply">>
        \/ Tail(task[r].todo) = <<"recheck", "create", "issueTokens", "reply">>
        \/ Tail(task[r].todo) = <<"active", "issueTokens", "reply">>
    <3>1. Head(task[r].todo) \in Statements /\ task[r].todo # <<>>
        BY <1>1 DEF Lists, Statements
    <3> QED
        BY <1>1, <3>1, TailOf DEF Statements, At
  <2>3. ~At(r, "lock")' /\ ~At(r, "unlock")' /\ (At(r, "create")' => At(r, "recheck"))
    <3>1. \/ task'[r].todo = <<"create", "issueTokens", "reply">> /\ At(r, "recheck")
          \/ task'[r].todo = <<>> \/ task'[r].todo = <<"issue", "send">>
          \/ task'[r].todo = <<"send">> \/ task'[r].todo = <<"reply">> \/ task'[r].todo = <<"release">>
          \/ task'[r].todo = <<"issueTokens", "reply">>
          \/ task'[r].todo = <<"recheck", "create", "issueTokens", "reply">>
          \/ task'[r].todo = <<"active", "issueTokens", "reply">>
        BY <2>1, <2>2
    <3>2. task'[r].todo = <<>> \/ Head(task'[r].todo) \notin {"create", "lock", "unlock"}
            \/ (Head(task'[r].todo) = "create" /\ At(r, "recheck"))
        BY <3>1
    <3> QED
        BY <3>2 DEF At
  <2>4. ASSUME At(r, "create")' PROVE ~AddressTaken
    <3>1. Recheck(r)
        BY <2>3, <2>4 DEF Step, ClaimSend, Ttl, Issue, Send, ReleaseSend, VerifyCode, CreateAccount, IssueTokens,
                  ClaimSession, CheckActive, Revoke, CreateLink, Reset, Lock, Unlock, Succeeded, Failed, At
    <3>2. CASE AddressTaken
      <4>1. task'[r] = Refused(task[r]) /\ task[r] \in Task
          BY <3>1, <3>2 DEF Recheck, Abort, Inv, TypeOK
      <4>2. task'[r].todo = <<"reply">> \/ task'[r].todo = <<>>
          BY <4>1 DEF Refused, Resting, Task
      <4> QED
          BY <2>4, <4>2 DEF At
    <3> QED
        BY <3>2
  <2> QED
      BY <2>3, <2>4
<1> QED
    BY <1>2, <1>3

LEMMA StepKeepsSerial ==
    ASSUME Inv, SerialInv, NEW r \in Requests, Step(r)
    PROVE  SerialInv'
<1> USE DEF redisVars, tokenVars, userVars, webVars
<1>1. \A q \in Requests : q # r => task'[q] = task[q]
    BY StepTodo
<1>2. ~Idle(r)
    BY StepTodo, ListOf DEF Idle
<1>3. overlaps' = overlaps
    BY DEF Step, ClaimSend, Ttl, Issue, Send, ReleaseSend, VerifyCode, Recheck, CreateAccount, IssueTokens,
           ClaimSession, CheckActive, Revoke, CreateLink, Reset, Lock, Unlock, Succeeded, Failed
<1>4. \/ users' = users
      \/ At(r, "lock") /\ users' = [users EXCEPT ![task[r].user] = "inactive"]
      \/ At(r, "unlock") /\ users' = [users EXCEPT ![task[r].user] = "active"]
      \/ CreateAccount(r)
    BY DEF Step, ClaimSend, Ttl, Issue, Send, ReleaseSend, VerifyCode, Recheck, IssueTokens,
           ClaimSession, CheckActive, Revoke, CreateLink, Reset, Lock, Unlock, Succeeded, Failed
<1>5. \A u \in Users : Exists(u) => Exists(u)'
    BY <1>4 DEF CreateAccount, Exists, Inv, TypeOK
<1>6. ASSUME NEW q \in Requests, At(q, "lock")' \/ At(q, "unlock")' PROVE Exists(task[q].user)'
  <2>1. q # r /\ (At(q, "lock") \/ At(q, "unlock")) /\ task'[q] = task[q]
      BY <1>1, <1>6, StepStarts DEF At
  <2>2. Exists(task[q].user)
      BY <2>1 DEF SerialInv
  <2>3. users'[task[q].user] # "none"
    <3>1. CASE users' = users
        BY <2>2, <3>1 DEF Exists
    <3>2. ASSUME NEW w, NEW x \in {"active", "inactive"}, users' = [users EXCEPT ![w] = x]
          PROVE  users'[task[q].user] # "none"
      <4>1. users'[task[q].user] = users[task[q].user] \/ users'[task[q].user] = x
          BY <3>2, <2>2 DEF Inv, TypeOK, Exists
      <4> QED
          BY <2>2, <4>1 DEF Exists
    <3> QED
        BY <1>4, <3>1, <3>2 DEF CreateAccount
  <2> QED
      BY <2>1, <2>3 DEF Exists
<1>7. ASSUME Alone' PROVE \A q, p \in Requests : ~Idle(q)' /\ ~Idle(p)' => q = p
    BY <1>1, <1>2, <1>3, <1>7 DEF SerialInv, Alone, Idle
<1>8. ASSUME Alone' PROVE \A u, v \in Users : Exists(u)' /\ Exists(v)' => u = v
  <2>1. Alone
      BY <1>3, <1>8 DEF Alone
  <2>2. CASE CreateAccount(r)
    <3>1. At(r, "create") /\ ~AddressTaken
        BY <2>1, <2>2 DEF CreateAccount, SerialInv
    <3> QED
        BY <2>2, <3>1 DEF CreateAccount, AddressTaken, Exists, Inv, TypeOK
  <2>3. CASE ~CreateAccount(r)
    <3>1. \A u \in Users : Exists(u)' => Exists(u)
        BY <1>4, <2>3 DEF Exists, SerialInv, Inv, TypeOK
    <3> QED
        BY <2>1, <3>1 DEF SerialInv
  <2> QED
      BY <2>2, <2>3
<1>9. ASSUME Alone', NEW q \in Requests, At(q, "create")' PROVE ~AddressTaken'
  <2>1. Alone /\ ~Idle(q)'
      BY <1>3, <1>9 DEF Alone, At, Idle
  <2>2. q = r
      BY <1>1, <1>2, <2>1 DEF SerialInv, Idle
  <2>3. At(r, "recheck") /\ ~AddressTaken
      BY <1>9, <2>2, StepStarts
  <2>4. users' = users
      BY <1>4, <2>3 DEF CreateAccount, At
  <2> QED
      BY <2>3, <2>4 DEF AddressTaken, Exists
<1>10. \A q \in Requests : Idle(q)' => task'[q].kind = "none"
    BY <1>1, StepTodo DEF SerialInv, Idle
<1> QED
    BY <1>6, <1>7, <1>8, <1>9, <1>10 DEF SerialInv

LEMMA StartKeepsSerial ==
    ASSUME Inv, SerialInv, NEW r \in Requests, Start(r)
    PROVE  SerialInv'
<1>1. ASSUME NEW t, Begin(r, t), t.todo # <<>>, ~Starts(t, {"create"}),
             Starts(t, {"lock", "unlock"}) => Exists(t.user)
      PROVE  SerialInv'
  <2>1. /\ task'[r] = t /\ \A q \in Requests : q # r => task'[q] = task[q]
        /\ users' = users
        /\ Idle(r)
        /\ IF Quiet THEN overlaps' = overlaps ELSE overlaps' = overlaps + 1
      BY <1>1 DEF Begin, userVars, Inv, TypeOK
  <2>2. Alone' => Alone /\ Quiet
      BY <2>1 DEF Alone, Inv, TypeOK
  <2>3. ~At(r, "create")' /\ (At(r, "lock")' \/ At(r, "unlock")' => Exists(task[r].user)')
      BY <1>1, <2>1 DEF At, Starts, Exists
  <2>4. \A q \in Requests : q # r => (At(q, "lock")' \/ At(q, "unlock")' => Exists(task[q].user)')
      BY <2>1 DEF SerialInv, At, Exists
  <2>5. ASSUME Alone'
        PROVE  /\ \A p, q \in Requests : ~Idle(p)' /\ ~Idle(q)' => q = p
               /\ \A u, v \in Users : Exists(u)' /\ Exists(v)' => u = v
               /\ \A q \in Requests : ~At(q, "create")'
    <3>1. \A q \in Requests : q # r => Idle(q)'
        BY <2>1, <2>2, <2>5 DEF Quiet, Idle
    <3>2. \A q \in Requests : ~At(q, "create")'
        BY <2>3, <3>1 DEF At, Idle
    <3> QED
        BY <2>1, <2>2, <2>5, <3>1, <3>2 DEF SerialInv, Exists
  <2>6. \A q \in Requests : Idle(q)' => task'[q].kind = "none"
      BY <1>1, <2>1 DEF SerialInv, Idle
  <2> QED
      BY <2>3, <2>4, <2>5, <2>6 DEF SerialInv
<1>2. ASSUME NEW t, Begin(r, t), t.todo # <<>>,
             Head(t.todo) \in {"claimSend", "verifyCode", "issueTokens", "claimSession", "revoke", "reply",
                               "forgot", "reset"}
      PROVE  SerialInv'
    BY <1>1, <1>2 DEF Starts
<1>3. /\ <<"claimSend", "issue", "send">> # <<>> /\ <<"reply">> # <<>>
      /\ <<"verifyCode", "recheck", "create", "issueTokens", "reply">> # <<>>
      /\ <<"issueTokens", "reply">> # <<>> /\ <<"revoke", "reply">> # <<>>
      /\ <<"claimSession", "active", "issueTokens", "reply">> # <<>>
      /\ Head(<<"claimSend", "issue", "send">>) = "claimSend"
      /\ Head(<<"verifyCode", "recheck", "create", "issueTokens", "reply">>) = "verifyCode"
      /\ Head(<<"claimSession", "active", "issueTokens", "reply">>) = "claimSession"
    OBVIOUS
<1>4. ASSUME NEW kind \in {"register", "resend"}, NEW h \in Handles,
             Begin(r, [Resting EXCEPT !.kind = kind, !.handle = h, !.todo = <<"claimSend", "issue", "send">>])
      PROVE  SerialInv'
  <2> DEFINE t == [Resting EXCEPT !.kind = kind, !.handle = h, !.todo = <<"claimSend", "issue", "send">>]
  <2>1. t.todo = <<"claimSend", "issue", "send">> /\ Begin(r, t)
      BY <1>4 DEF Resting
  <2> HIDE DEF t
  <2>2. t.todo # <<>> /\ Head(t.todo) = "claimSend"
      BY <1>3, <2>1
  <2> QED
      BY <1>2, <2>1, <2>2
<1>5. ASSUME NEW h \in Handles, NEW tab \in Tabs, NEW c \in 0 .. ncodes, VerifyEmailOtp(r, tab, h, c)
      PROVE  SerialInv'
  <2> DEFINE t == [Resting EXCEPT !.kind = "verify", !.tab = tab, !.handle = h, !.code = c,
                                  !.todo = <<"verifyCode", "recheck", "create", "issueTokens", "reply">>]
  <2>1. t.todo = <<"verifyCode", "recheck", "create", "issueTokens", "reply">> /\ Begin(r, t)
      BY <1>5 DEF VerifyEmailOtp, Resting
  <2> HIDE DEF t
  <2>2. t.todo # <<>> /\ Head(t.todo) = "verifyCode"
      BY <1>3, <2>1
  <2> QED
      BY <1>2, <2>1, <2>2
<1>6. ASSUME NEW tab \in Tabs, Refresh(r, tab)
      PROVE  SerialInv'
  <2> DEFINE t == [Resting EXCEPT !.kind = IF tab \in signedIn THEN "refresh" ELSE "bootstrap", !.tab = tab,
                                  !.token = stored, !.user = tokens[stored].user,
                                  !.since = revs[tokens[stored].user], !.todo = <<"claimSession", "active", "issueTokens", "reply">>]
  <2>1. t.todo = <<"claimSession", "active", "issueTokens", "reply">> /\ Begin(r, t)
      BY <1>6 DEF Refresh, Resting
  <2> HIDE DEF t
  <2> QED
      BY <1>2, <1>3, <2>1
<1>7. ASSUME NEW tab \in Tabs, Logout(r, tab)
      PROVE  SerialInv'
  <2> DEFINE t == [Resting EXCEPT !.kind = "logout", !.tab = tab, !.token = stored,
                                  !.todo = IF stored = 0 THEN <<"reply">> ELSE <<"revoke", "reply">>]
  <2>1. t.todo \in {<<"reply">>, <<"revoke", "reply">>} /\ Begin(r, t)
      BY <1>7 DEF Logout, Resting
  <2> HIDE DEF t
  <2>2. t.todo # <<>> /\ Head(t.todo) \in {"revoke", "reply"}
      BY <1>3, <2>1
  <2> QED
      BY <1>2, <2>1, <2>2
<1>8. ASSUME NEW tab \in Tabs, NEW u \in Users, Login(r, tab, u)
      PROVE  SerialInv'
  <2> DEFINE t == [Resting EXCEPT !.kind = "login", !.tab = tab, !.user = u, !.since = revs[u],
                                  !.todo = <<"issueTokens", "reply">>]
  <2>1. t.todo = <<"issueTokens", "reply">> /\ Begin(r, t)
      BY <1>8 DEF Login, Resting
  <2> HIDE DEF t
  <2> QED
      BY <1>2, <1>3, <2>1
<1>9. ASSUME NEW kind \in {"forgot", "reset"}, NEW l \in Links, NEW u,
             Begin(r, [Resting EXCEPT !.kind = kind, !.link = l, !.user = u, !.todo = <<kind>>])
      PROVE  SerialInv'
  <2> DEFINE t == [Resting EXCEPT !.kind = kind, !.link = l, !.user = u, !.todo = <<kind>>]
  <2>1. t.todo = <<kind>> /\ Begin(r, t)
      BY <1>9 DEF Resting
  <2> HIDE DEF t
  <2>2. t.todo # <<>> /\ Head(t.todo) \in {"forgot", "reset"}
      BY <2>1
  <2> QED
      BY <1>2, <2>1, <2>2
<1>10. ASSUME NEW kind \in {"lock", "unlock"}, NEW u \in Users, Exists(u),
              Begin(r, [Resting EXCEPT !.kind = kind, !.user = u, !.todo = <<kind>>])
       PROVE  SerialInv'
  <2> DEFINE t == [Resting EXCEPT !.kind = kind, !.user = u, !.todo = <<kind>>]
  <2>1. t.todo = <<kind>> /\ t.user = u /\ Begin(r, t)
      BY <1>10 DEF Resting
  <2> HIDE DEF t
  <2>2. t.todo # <<>> /\ Head(t.todo) \in {"lock", "unlock"}
      BY <2>1
  <2> QED
      BY <1>1, <1>10, <2>1, <2>2 DEF Starts
<1>11. CASE \E h \in Handles : Register(r, h) \/ Resend(r, h)
    BY <1>4, <1>11 DEF Register, Resend
<1>12. CASE \E l \in Links : ResetPassword(r, l) \/ \E u \in Users : ForgotPassword(r, l, u)
    BY <1>9, <1>12 DEF ResetPassword, ForgotPassword
<1>13. CASE \E u \in Users : Deactivate(r, u) \/ Reactivate(r, u)
    BY <1>10, <1>13 DEF Deactivate, Reactivate, Exists
<1> QED
    BY <1>5, <1>6, <1>7, <1>8, <1>11, <1>12, <1>13 DEF Start

LEMMA OutsideKeepsSerial ==
    ASSUME Inv, SerialInv,
           \/ UNCHANGED vars
           \/ \E t \in Tabs : Bounce(t) \/ Reload(t) \/ BootstrapFails(t)
           \/ \E h \in Handles : CodeExpires(h)
           \/ \E l \in Links : LinkExpires(l)
           \/ CooldownExpires
           \/ Restart
    PROVE  SerialInv'
<1> USE DEF redisVars, tokenVars, userVars, webVars
<1>1. users' = users /\ overlaps' = overlaps
    BY DEF vars, Bounce, Reload, BootstrapFails, CodeExpires, LinkExpires, CooldownExpires, Restart
<1>2. ASSUME \A r \in Requests :
                 \/ task'[r].todo = task[r].todo /\ task'[r].user = task[r].user /\ task'[r].kind = task[r].kind
                 \/ ~Idle(r) /\ task'[r].todo = <<"reply">>
                 \/ task'[r].todo = <<>> /\ task'[r].kind = "none"
      PROVE  SerialInv'
  <2>1. \A r \in Requests : (Idle(r) => Idle(r)') /\ (Idle(r)' => task'[r].kind = "none")
    <3>1. <<"reply">> # <<>>
        OBVIOUS
    <3> QED
        BY <1>2, <3>1 DEF Idle, SerialInv
  <2>2. \A r \in Requests : \A s : At(r, s)' => (At(r, s) /\ task'[r].user = task[r].user) \/ s = "reply"
      BY <1>2 DEF At
  <2> QED
      BY <1>1, <2>1, <2>2 DEF SerialInv, Alone, Exists, AddressTaken
<1>3. CASE \E t \in Tabs : Reload(t)
  <2>1. \A r \in Requests : task[r] \in Task
                              /\ (task'[r] = task[r] \/ \E x : task'[r] = [task[r] EXCEPT !.tab = x])
      BY <1>3 DEF Reload, Inv, TypeOK
  <2>2. \A r \in Requests : task'[r].todo = task[r].todo /\ task'[r].user = task[r].user
                            /\ task'[r].kind = task[r].kind
      BY <2>1 DEF Task
  <2> QED
      BY <1>2, <2>2
<1>4. CASE Restart
  <2>1. \A r \in Requests :
            task[r] \in Task /\ task'[r] = IF task[r].kind \in Exchanges \union {"logout"}
                                           THEN [task[r] EXCEPT !.ok = FALSE, !.todo = <<"reply">>] ELSE Resting
      BY <1>4 DEF Restart, Inv, TypeOK
  <2>2. \A r \in Requests : Idle(r) => task[r].kind \notin Exchanges \union {"logout"}
      BY DEF SerialInv, Exchanges
  <2>3. ASSUME NEW r \in Requests
        PROVE  \/ ~Idle(r) /\ task'[r].todo = <<"reply">>
               \/ task'[r].todo = <<>> /\ task'[r].kind = "none"
    <3>1. CASE task[r].kind \in Exchanges \union {"logout"}
      <4>1. task'[r].todo = <<"reply">>
          BY <2>1, <3>1 DEF Task
      <4> QED
          BY <2>2, <3>1, <4>1
    <3>2. CASE task[r].kind \notin Exchanges \union {"logout"}
      <4>1. task'[r] = Resting
          BY <2>1, <3>2
      <4> QED
          BY <4>1 DEF Resting
    <3> QED
        BY <3>1, <3>2
  <2> QED
      BY <1>2, <2>3
<1> QED
    BY <1>2, <1>3, <1>4 DEF vars, Bounce, BootstrapFails, CodeExpires, LinkExpires, CooldownExpires

\* While requests do not overlap, however many forms were sent for an address and whichever of
\* their codes is typed in later, it never gets a second account.
THEOREM OneAccountUnlessOverlaps == Spec => []OneAccountPerAddress
<1>1. Init => SerialInv
    BY DEF Init, SerialInv, At, Idle, Resting, Exists
<1>2. Inv /\ SerialInv /\ [Next]_vars => SerialInv'
    BY StartKeepsSerial, StepKeepsSerial, OutsideKeepsSerial DEF Next
<1>3. SerialInv => OneAccountPerAddress
    BY DEF SerialInv, OneAccountPerAddress
<1> QED
    BY <1>1, <1>2, <1>3, InvAlways, PTL DEF Spec

-----------------------------------------------------------------------------
(* The browser's storage, while requests do not overlap.                   *)

Presents(t) == t.kind \in Exchanges \union {"logout"}
TakenFrom(t) == Presents(t) /\ Starts(t, {"active", "issueTokens", "reply"})
Live(k) == k \in sessions \/ tokens[k].after < revs[tokens[k].user]

\* What the storage and the sessions say while t is what is running: the stored token is live
\* but for the request that has handed it in, and what is live is the stored token, or one that
\* a later sign-in displaced, or the one on its way to the tab.
Fits(t) ==
    /\ t.kind = "logout" => Starts(t, {"revoke", "reply"}) /\ ~t.ok
    /\ t.kind \in Exchanges => Starts(t, {"claimSession", "active", "issueTokens", "reply"})
    /\ Starts(t, {"revoke"}) => t.kind = "logout"
    /\ Presents(t) \/ Starts(t, {"verifyCode", "recheck", "create", "issueTokens", "reply"}) => t.tab \in Tabs
    /\ Starts(t, {"reply"}) => t.ok \/ Presents(t)
    /\ t.ok => Starts(t, {"reply"}) /\ t.token \in sessions
    /\ Presents(t) /\ ~t.ok => t.token = stored
    /\ IF TakenFrom(t) THEN stored \notin sessions ELSE stored # 0 => Live(stored)
    /\ sessions \ displaced \subseteq IF t.ok THEN {stored, t.token} ELSE {stored}

StorageInv ==
    Alone /\ ~lost =>
        /\ Quiet => Fits(Resting)
        /\ \A r \in Requests : ~Idle(r) => Fits(task[r])

Same(t, u) == u.kind = t.kind /\ u.tab = t.tab /\ u.token = t.token /\ u.ok = t.ok

\* A request that holds no token of the browser leaves nothing behind when it ends.
LEMMA FitsDone ==
    ASSUME NEW t, Fits(t), ~t.ok, ~Presents(t), NEW u, u.kind = "none", u.todo = <<>>, ~u.ok
    PROVE  Fits(u)
<1>1. ~Presents(u) /\ ~TakenFrom(u) /\ ~TakenFrom(t) /\ \A S : ~Starts(u, S)
    BY DEF Presents, TakenFrom, Starts, Exchanges
<1> QED
    BY <1>1 DEF Fits, Presents, Exchanges

\* Going on to a statement of the same stage changes nothing.
LEMMA FitsOnward ==
    ASSUME NEW t, NEW u, Fits(t), Same(t, u),
           \/ Starts(t, {"claimSend", "ttl", "issue", "send"}) /\ Starts(u, {"ttl", "issue", "send", "release"})
           \/ Starts(t, {"verifyCode", "recheck", "create"}) /\ Starts(u, {"recheck", "create", "issueTokens"})
           \/ Starts(t, {"active"}) /\ Starts(u, {"issueTokens"}) /\ t.kind \in Exchanges
    PROVE  Fits(u)
<1>1. /\ Presents(u) <=> Presents(t)
      /\ ~t.ok /\ ~u.ok
    BY DEF Presents, Same, Fits, Starts
<1>2. CASE ~Starts(t, {"active"})
  <2>1. ~Presents(t) /\ ~TakenFrom(t) /\ ~TakenFrom(u)
      BY <1>1, <1>2 DEF Fits, Presents, TakenFrom, Starts
  <2> QED
      BY <1>1, <1>2, <2>1 DEF Fits, Same, Presents, Starts
<1>3. CASE Starts(t, {"active"})
  <2>1. Starts(u, {"issueTokens"}) /\ t.kind \in Exchanges /\ Presents(t) /\ TakenFrom(t) /\ TakenFrom(u)
      BY <1>1, <1>3 DEF Presents, TakenFrom, Starts
  <2> QED
      BY <1>1, <1>3, <2>1 DEF Fits, Same, Presents, Starts, Exchanges
<1> QED
    BY <1>2, <1>3

\* A refusal leaves the browser to hear of it when its token was taken, and has no other trace.
LEMMA FitsRefused ==
    ASSUME NEW t \in Task, Fits(t), Starts(t, {"ttl", "verifyCode", "recheck", "active"})
    PROVE  Fits(Refused(t))
<1>1. ~t.ok /\ t.kind # "logout"
    BY DEF Fits, Starts
<1>2. CASE t.kind \in Exchanges
  <2> DEFINE u == [t EXCEPT !.ok = FALSE, !.todo = <<"reply">>]
  <2>1. u.kind = t.kind /\ u.tab = t.tab /\ u.token = t.token /\ ~u.ok /\ u.todo = <<"reply">>
      BY DEF Task
  <2>2. Refused(t) = u
      BY <1>2 DEF Refused
  <2> HIDE DEF u
  <2>3. Starts(u, {"reply"}) /\ ~Starts(u, {"revoke"}) /\ Presents(u) /\ TakenFrom(u)
      BY <1>2, <2>1 DEF Starts, Presents, TakenFrom
  <2>4. Starts(t, {"active"}) /\ Presents(t) /\ TakenFrom(t)
      BY <1>2 DEF Fits, Starts, Presents, TakenFrom
  <2>5. Fits(u)
      BY <1>1, <1>2, <2>1, <2>3, <2>4 DEF Fits, Starts
  <2> QED
      BY <2>2, <2>5
<1>3. CASE t.kind \notin Exchanges
  <2>1. Refused(t) = Resting /\ ~Presents(t)
      BY <1>1, <1>3 DEF Refused, Presents
  <2>2. Resting.kind = "none" /\ Resting.todo = <<>> /\ ~Resting.ok
      BY DEF Resting
  <2> QED
      BY <1>1, <2>1, <2>2, FitsDone
<1> QED
    BY <1>2, <1>3

\* What Fits says depends on nothing else.
LEMMA FitsStays ==
    ASSUME NEW t, Fits(t), stored' = stored, sessions' = sessions, displaced' = displaced,
           tokens' = tokens, revs' = revs
    PROVE  Fits(t)'
BY DEF Fits, Live, TakenFrom

\* It suffices to look at the request that took the step.
LEMMA StorageStep ==
    ASSUME Inv, SerialInv, StorageInv, NEW r \in Requests, Step(r), lost' = FALSE => lost = FALSE,
           NEW u, task'[r] = u,
           Alone /\ ~lost /\ Fits(task[r]) => Fits(u)'
    PROVE  StorageInv'
<1>1. /\ \A q \in Requests : q # r => task'[q] = task[q]
      /\ ~Idle(r) /\ (u.todo = <<>> => u.kind = "none")
    BY StepTodo, ListOf DEF Idle
<1>2. overlaps' = overlaps
    BY DEF Step, ClaimSend, Ttl, Issue, Send, ReleaseSend, VerifyCode, Recheck, CreateAccount, IssueTokens,
           ClaimSession, CheckActive, Revoke, CreateLink, Reset, Lock, Unlock, Succeeded, Failed, webVars
<1>3. SUFFICES ASSUME Alone', ~lost'
               PROVE  /\ Quiet' => Fits(Resting)'
                      /\ \A q \in Requests : ~Idle(q)' => Fits(task[q])'
    BY DEF StorageInv
<1>4. Alone /\ ~lost
    BY <1>2, <1>3 DEF Alone, Inv, TypeOK
<1>5. Fits(task[r]) /\ Fits(u)'
    BY <1>1, <1>4 DEF StorageInv
<1>6. \A q \in Requests : ~Idle(q)' => q = r
    BY <1>1, <1>4 DEF SerialInv, Idle
<1>7. ASSUME Quiet' PROVE Fits(Resting)'
  <2>1. u.todo = <<>> /\ u.kind = "none"
      BY <1>1, <1>7 DEF Quiet, Idle
  <2>2. ~u.ok /\ \A S : ~Starts(u, S)
      BY <1>5, <2>1 DEF Fits, Starts
  <2>3. ~Presents(u) /\ ~TakenFrom(u)
      BY <2>1, <2>2 DEF Presents, TakenFrom, Exchanges
  <2>4. ~Resting.ok /\ ~Presents(Resting) /\ ~TakenFrom(Resting) /\ \A S : ~Starts(Resting, S)
      BY DEF Resting, Presents, TakenFrom, Exchanges, Starts
  <2> QED
      BY <1>5, <2>2, <2>3, <2>4 DEF Fits, Presents, Exchanges
<1>8. ASSUME NEW q \in Requests, ~Idle(q)' PROVE Fits(task[q])'
    BY <1>5, <1>6, <1>8 DEF Fits, Presents, TakenFrom, Live
<1> QED
    BY <1>7, <1>8

LEMMA Onward ==
    ASSUME Inv, NEW r \in Requests, NEW s, At(r, s), Tail(task[r].todo) # <<>>
    PROVE  /\ Rest(task[r]) \in Task
           /\ Same(task[r], Rest(task[r]))
           /\ Rest(task[r]).todo = Tail(task[r].todo)
<1>1. Rest(task[r]) = [task[r] EXCEPT !.todo = Tail(task[r].todo)] /\ Rest(task[r]) \in Task /\ task[r] \in Task
    BY RestType, Running
<1> QED
    BY <1>1 DEF Same, Task

\* The list behind a statement, once more, as what the next task starts with.
LEMMA Nexts ==
    ASSUME Inv, NEW r \in Requests, NEW s, At(r, s), NEW u, Same(task[r], u), u.todo = Tail(task[r].todo)
    PROVE  /\ s \in {"ttl", "claimSend"} => Starts(u, {"issue"})
           /\ s = "issue" => Starts(u, {"send"})
           /\ s = "verifyCode" => Starts(u, {"recheck"})
           /\ s = "recheck" => Starts(u, {"create"})
           /\ s \in {"create", "active"} => Starts(u, {"issueTokens"})
           /\ s = "claimSession" => Starts(u, {"active"})
           /\ s \in {"issueTokens", "revoke"} => Starts(u, {"reply"})
<1>1. task[r].todo \in Lists /\ Head(task[r].todo) = s
    BY Running
<1>2. /\ s \in {"ttl", "claimSend"} => u.todo = <<"issue", "send">>
      /\ s = "issue" => u.todo = <<"send">>
      /\ s = "verifyCode" => u.todo = <<"recheck", "create", "issueTokens", "reply">>
      /\ s = "recheck" => u.todo = <<"create", "issueTokens", "reply">>
      /\ s \in {"create", "active"} => u.todo = <<"issueTokens", "reply">>
      /\ s = "claimSession" => u.todo = <<"active", "issueTokens", "reply">>
      /\ s \in {"issueTokens", "revoke"} => u.todo = <<"reply">>
    BY <1>1, TailOf
<1>3. /\ <<"issue", "send">> # <<>> /\ Head(<<"issue", "send">>) = "issue"
      /\ <<"send">> # <<>> /\ Head(<<"send">>) = "send"
      /\ <<"recheck", "create", "issueTokens", "reply">> # <<>>
      /\ Head(<<"recheck", "create", "issueTokens", "reply">>) = "recheck"
      /\ <<"create", "issueTokens", "reply">> # <<>> /\ Head(<<"create", "issueTokens", "reply">>) = "create"
      /\ <<"issueTokens", "reply">> # <<>> /\ Head(<<"issueTokens", "reply">>) = "issueTokens"
      /\ <<"active", "issueTokens", "reply">> # <<>> /\ Head(<<"active", "issueTokens", "reply">>) = "active"
      /\ <<"reply">> # <<>> /\ Head(<<"reply">>) = "reply"
    OBVIOUS
<1> QED
    BY <1>2, <1>3, Zenon DEF Starts

\* Statements that touch neither sessions nor storage nor revocations.
LEMMA PlainStorage ==
    ASSUME Inv, SerialInv, StorageInv, NEW r \in Requests,
           \/ ClaimSend(r) \/ Ttl(r) \/ Issue(r) \/ Send(r) \/ ReleaseSend(r) \/ VerifyCode(r)
           \/ Recheck(r) \/ CreateAccount(r) \/ CheckActive(r) \/ CreateLink(r) \/ Unlock(r)
    PROVE  StorageInv'
<1> USE DEF redisVars, tokenVars, userVars, webVars
<1>1. /\ UNCHANGED <<stored, sessions, displaced, tokens, revs, lost>>
      /\ Step(r)
    BY DEF Step, ClaimSend, Ttl, Issue, Send, ReleaseSend, VerifyCode, Recheck, CreateAccount, CheckActive,
           CreateLink, Unlock
<1>2. PICK s : /\ At(r, s)
               /\ s \in {"claimSend", "ttl", "issue", "send", "release", "verifyCode", "recheck", "create",
                         "active", "forgot", "unlock"}
    BY DEF ClaimSend, Ttl, Issue, Send, ReleaseSend, VerifyCode, Recheck, CreateAccount, CheckActive,
           CreateLink, Unlock
<1>3. /\ task[r] \in Task /\ task[r].todo \in Lists /\ Agrees(task[r], ntokens, users, revs)
      /\ Starts(task[r], {s}) /\ task \in [Requests -> Task]
    BY <1>2, Running DEF Starts, At, Inv, TypeOK
<1>4. SUFFICES ASSUME Fits(task[r]) PROVE Fits(task'[r])
  <2>1. PICK u : u = task'[r]
      OBVIOUS
  <2>2. Fits(task[r]) => Fits(u)'
      BY <1>1, <1>4, <2>1, FitsStays
  <2> QED
      BY <1>1, <2>1, <2>2, StorageStep
<1>5. \/ s \in {"ttl", "verifyCode", "recheck", "active"} /\ Abort(r)
      \/ s \in {"ttl", "issue", "send", "release", "recheck", "active", "forgot", "unlock"} /\ Continue(r)
      \/ ClaimSend(r) /\ s = "claimSend"
      \/ s = "send" /\ task' = [task EXCEPT ![r].todo = <<"release">>]
      \/ s = "verifyCode" /\ task' = [task EXCEPT ![r] = [Rest(@) EXCEPT !.code = 0]]
      \/ s = "create" /\ \E a \in Users : task' = [task EXCEPT ![r] = [Rest(@) EXCEPT !.user = a]]
    BY <1>2 DEF ClaimSend, Ttl, Issue, Send, ReleaseSend, VerifyCode, Recheck, CreateAccount, CheckActive,
                CreateLink, Unlock, At
<1>6. CASE s \in {"ttl", "verifyCode", "recheck", "active"} /\ Abort(r)
  <2>1. task'[r] = Refused(task[r])
      BY <1>3, <1>6 DEF Abort
  <2> QED
      BY <1>3, <1>4, <1>6, <2>1, FitsRefused DEF Starts
<1>7. ASSUME NEW u, Same(task[r], u), u.todo = Tail(task[r].todo),
             s \in {"ttl", "claimSend", "issue", "verifyCode", "recheck", "create", "active"}
      PROVE  Fits(u)
  <2>1. s = "active" => task[r].kind \in Exchanges
      BY <1>3 DEF Agrees, Starts
  <2>2. /\ s \in {"ttl", "claimSend"} => Starts(u, {"issue"})
        /\ s = "issue" => Starts(u, {"send"})
        /\ s = "verifyCode" => Starts(u, {"recheck"})
        /\ s = "recheck" => Starts(u, {"create"})
        /\ s \in {"create", "active"} => Starts(u, {"issueTokens"})
      BY <1>2, <1>7, Nexts
  <2>3. \/ Starts(task[r], {"claimSend", "ttl", "issue", "send"}) /\ Starts(u, {"ttl", "issue", "send", "release"})
        \/ Starts(task[r], {"verifyCode", "recheck", "create"}) /\ Starts(u, {"recheck", "create", "issueTokens"})
        \/ Starts(task[r], {"active"}) /\ Starts(u, {"issueTokens"}) /\ task[r].kind \in Exchanges
      BY <1>3, <1>7, <2>1, <2>2 DEF Starts
  <2> QED
      BY <1>4, <1>7, <2>3, FitsOnward
<1>8. Tail(task[r].todo) # <<>> <=> s \in {"ttl", "claimSend", "issue", "verifyCode", "recheck", "create", "active"}
  <2>1. Head(task[r].todo) = s
      BY <1>2 DEF At
  <2>2. \/ Tail(task[r].todo) = <<"issue", "send">> /\ s \in {"ttl", "claimSend"}
        \/ Tail(task[r].todo) = <<"send">> /\ s = "issue"
        \/ Tail(task[r].todo) = <<"recheck", "create", "issueTokens", "reply">> /\ s = "verifyCode"
        \/ Tail(task[r].todo) = <<"create", "issueTokens", "reply">> /\ s = "recheck"
        \/ Tail(task[r].todo) = <<"issueTokens", "reply">> /\ s \in {"create", "active"}
        \/ Tail(task[r].todo) = <<>> /\ s \in {"send", "release", "forgot", "unlock"}
      BY <1>2, <1>3, <2>1, TailOf
  <2>3. /\ <<"issue", "send">> # <<>> /\ <<"send">> # <<>> /\ <<"issueTokens", "reply">> # <<>>
        /\ <<"recheck", "create", "issueTokens", "reply">> # <<>>
        /\ <<"create", "issueTokens", "reply">> # <<>>
      OBVIOUS
  <2> QED
      BY <2>2, <2>3
<1>9. ASSUME s \in {"ttl", "claimSend", "issue", "verifyCode", "recheck", "create", "active"}
      PROVE  /\ Rest(task[r]) \in Task /\ Same(task[r], Rest(task[r]))
             /\ Rest(task[r]).todo = Tail(task[r].todo)
    BY <1>2, <1>8, <1>9, Onward
<1>10. CASE s \in {"ttl", "issue", "send", "release", "recheck", "active", "forgot", "unlock"} /\ Continue(r)
  <2>1. task'[r] = Rest(task[r])
      BY <1>3, <1>10 DEF Continue
  <2>2. CASE s \in {"ttl", "issue", "recheck", "active"}
      BY <1>7, <1>9, <2>1, <2>2
  <2>3. CASE s \in {"send", "release", "forgot", "unlock"}
    <3>1. Rest(task[r]) = Resting
        BY <1>2, <1>8, <2>3, RestType
    <3>2. ~task[r].ok /\ ~Presents(task[r])
        BY <1>3, <1>4, <2>3 DEF Fits, Presents, Starts
    <3>3. Resting.kind = "none" /\ Resting.todo = <<>> /\ ~Resting.ok
        BY DEF Resting
    <3> QED
        BY <1>4, <2>1, <3>1, <3>2, <3>3, FitsDone
  <2> QED
      BY <1>10, <2>2, <2>3
<1>11. CASE ClaimSend(r) /\ s = "claimSend"
  <2>1. Tail(task[r].todo) = <<"issue", "send">>
      BY <1>3, <1>11, TailOf DEF Starts
  <2>2. PICK l : /\ l = IF cooldown THEN <<"ttl">> \o <<"issue", "send">> ELSE <<"issue", "send">>
      OBVIOUS
  <2>3. l # <<>> /\ Head(l) \in {"ttl", "issue"}
    <3>1. <<"ttl">> \in Seq({"ttl", "issue", "send"}) /\ <<"issue", "send">> \in Seq({"ttl", "issue", "send"})
        OBVIOUS
    <3> QED
        BY <2>2, <3>1
  <2>4. task'[r] = [task[r] EXCEPT !.todo = l]
      BY <1>3, <1>11, <2>1, <2>2 DEF ClaimSend
  <2>5. PICK u : u = task'[r]
      OBVIOUS
  <2>6. Same(task[r], u) /\ u.todo = l
      BY <1>3, <2>4, <2>5 DEF Same, Task
  <2>7. Starts(u, {"ttl", "issue", "send", "release"}) /\ Starts(task[r], {"claimSend", "ttl", "issue", "send"})
      BY <1>3, <1>11, <2>3, <2>6 DEF Starts
  <2>8. Fits(u)
      BY <1>4, <2>6, <2>7, FitsOnward
  <2> QED
      BY <2>5, <2>8
<1>12. CASE s = "send" /\ task' = [task EXCEPT ![r].todo = <<"release">>]
  <2>1. PICK u : u = task'[r]
      OBVIOUS
  <2>2. Same(task[r], u) /\ u.todo = <<"release">>
      BY <1>3, <1>12, <2>1 DEF Same, Task
  <2>3. Starts(u, {"ttl", "issue", "send", "release"}) /\ Starts(task[r], {"claimSend", "ttl", "issue", "send"})
      BY <1>3, <1>12, <2>2 DEF Starts
  <2>4. Fits(u)
      BY <1>4, <2>2, <2>3, FitsOnward
  <2> QED
      BY <2>1, <2>4
<1>13. CASE s = "verifyCode" /\ task' = [task EXCEPT ![r] = [Rest(@) EXCEPT !.code = 0]]
  <2>1. PICK u : u = [Rest(task[r]) EXCEPT !.code = 0]
      OBVIOUS
  <2>2. Same(Rest(task[r]), u) /\ u.todo = Rest(task[r]).todo
      BY <1>9, <1>13, <2>1 DEF Same, Task
  <2>3. task'[r] = u
      BY <1>3, <1>13, <2>1
  <2>4. Same(task[r], u) /\ u.todo = Tail(task[r].todo)
      BY <1>9, <1>13, <2>2 DEF Same
  <2> QED
      BY <1>7, <1>13, <2>3, <2>4
<1>14. CASE s = "create" /\ \E a \in Users : task' = [task EXCEPT ![r] = [Rest(@) EXCEPT !.user = a]]
  <2>1. PICK a \in Users : task' = [task EXCEPT ![r] = [Rest(@) EXCEPT !.user = a]]
      BY <1>14
  <2>2. PICK u : u = [Rest(task[r]) EXCEPT !.user = a]
      OBVIOUS
  <2>3. Same(Rest(task[r]), u) /\ u.todo = Rest(task[r]).todo
      BY <1>9, <1>14, <2>2 DEF Same, Task
  <2>4. task'[r] = u
      BY <1>3, <2>1, <2>2
  <2>5. Same(task[r], u) /\ u.todo = Tail(task[r].todo)
      BY <1>9, <1>14, <2>3 DEF Same
  <2> QED
      BY <1>7, <1>14, <2>4, <2>5
<1> QED
    BY <1>5, <1>6, <1>10, <1>11, <1>12, <1>13, <1>14

\* The exchange takes the stored token, or learns that it is gone.
LEMMA ClaimStorage ==
    ASSUME Inv, SerialInv, StorageInv, NEW r \in Requests, ClaimSession(r)
    PROVE  StorageInv'
<1> USE DEF redisVars, userVars, webVars
<1>1. /\ UNCHANGED <<stored, displaced, tokens, revs, lost>> /\ sessions' = sessions \ {task[r].token}
      /\ At(r, "claimSession") /\ Step(r)
    BY DEF Step, ClaimSession
<1>2. /\ task[r] \in Task /\ task[r].todo \in Lists /\ task[r].kind \in Exchanges
      /\ Starts(task[r], {"claimSession"}) /\ task \in [Requests -> Task]
    BY <1>1, Running DEF Starts, At, Inv, TypeOK, Agrees
<1>3. PICK u : u = task'[r]
    OBVIOUS
<1>4. SUFFICES ASSUME Fits(task[r]) PROVE Fits(u)'
    BY <1>1, <1>3, StorageStep
<1>5. /\ ~task[r].ok /\ Presents(task[r]) /\ task[r].token = stored /\ task[r].tab \in Tabs
      /\ sessions \ displaced \subseteq {stored}
    BY <1>2, <1>4 DEF Fits, Presents, Starts
<1>6. /\ u.kind = task[r].kind /\ u.tab = task[r].tab /\ u.token = task[r].token /\ ~u.ok
      /\ Starts(u, {"active"}) \/ Starts(u, {"reply"})
  <2>1. CASE Continue(r)
    <3>1. Tail(task[r].todo) = <<"active", "issueTokens", "reply">>
        BY <1>2, TailOf DEF Starts
    <3>2. Tail(task[r].todo) # <<>>
        BY <3>1
    <3>3. u = Rest(task[r])
        BY <1>2, <1>3, <2>1 DEF Continue
    <3>4. Same(task[r], u) /\ u.todo = Tail(task[r].todo)
        BY <1>1, <3>2, <3>3, Onward
    <3>5. Starts(u, {"active"})
        BY <1>1, <3>4, Nexts
    <3> QED
        BY <1>5, <3>4, <3>5 DEF Same
  <2>2. CASE Abort(r)
    <3>1. u = [task[r] EXCEPT !.ok = FALSE, !.todo = <<"reply">>]
        BY <1>2, <1>3, <2>2 DEF Abort, Refused
    <3>2. u.todo = <<"reply">> /\ u.kind = task[r].kind /\ u.tab = task[r].tab /\ u.token = task[r].token /\ ~u.ok
        BY <1>2, <3>1 DEF Task
    <3> QED
        BY <3>2 DEF Starts
  <2> QED
      BY <1>1, <2>1, <2>2 DEF ClaimSession
<1>7. /\ stored' \notin sessions' /\ sessions' \ displaced' \subseteq {stored'}
    BY <1>1, <1>5
<1>8. Presents(u) /\ TakenFrom(u) /\ u.kind # "logout" /\ ~Starts(u, {"revoke"})
    BY <1>2, <1>6 DEF Presents, TakenFrom, Starts, Exchanges
<1> QED
    BY <1>1, <1>2, <1>5, <1>6, <1>7, <1>8 DEF Fits, Presents, TakenFrom, Starts

\* Logout takes the stored token.
LEMMA RevokeStorage ==
    ASSUME Inv, SerialInv, StorageInv, NEW r \in Requests, Revoke(r)
    PROVE  StorageInv'
<1> USE DEF redisVars, userVars, webVars
<1>1. /\ UNCHANGED <<stored, displaced, tokens, revs, lost>> /\ sessions' = sessions \ {task[r].token}
      /\ At(r, "revoke") /\ Continue(r) /\ Step(r)
    BY DEF Step, Revoke
<1>2. /\ task[r] \in Task /\ task[r].todo \in Lists
      /\ Starts(task[r], {"revoke"}) /\ task \in [Requests -> Task]
    BY <1>1, Running DEF Starts, At, Inv, TypeOK
<1>3. PICK u : u = task'[r]
    OBVIOUS
<1>4. SUFFICES ASSUME Fits(task[r]) PROVE Fits(u)'
    BY <1>1, <1>3, StorageStep
<1>5. /\ task[r].kind = "logout" /\ ~task[r].ok /\ task[r].token = stored /\ task[r].tab \in Tabs
      /\ sessions \ displaced \subseteq {stored}
    BY <1>2, <1>4 DEF Fits, Presents
<1>6. Same(task[r], u) /\ Starts(u, {"reply"})
  <2>1. Tail(task[r].todo) = <<"reply">>
      BY <1>2, TailOf DEF Starts
  <2>2. Tail(task[r].todo) # <<>>
      BY <2>1
  <2>3. u = Rest(task[r])
      BY <1>1, <1>2, <1>3 DEF Continue
  <2>4. Same(task[r], u) /\ u.todo = Tail(task[r].todo)
      BY <1>1, <2>2, <2>3, Onward
  <2> QED
      BY <1>1, <2>4, Nexts
<1>7. stored' \notin sessions' /\ sessions' \ displaced' \subseteq {stored'}
    BY <1>1, <1>5
<1>8. Presents(u) /\ TakenFrom(u) /\ u.kind = "logout" /\ u.kind \notin Exchanges /\ ~u.ok
    BY <1>5, <1>6 DEF Presents, TakenFrom, Starts, Exchanges, Same
<1> QED
    BY <1>1, <1>5, <1>6, <1>7, <1>8 DEF Fits, Same, Starts

\* A reset or a deactivation ends the stored token as revoked.
LEMMA RevocationStorage ==
    ASSUME Inv, SerialInv, StorageInv, NEW r \in Requests, Reset(r) \/ Lock(r)
    PROVE  StorageInv'
<1> USE DEF redisVars, userVars, webVars
<1>1. /\ UNCHANGED <<stored, displaced, tokens, lost>> /\ Step(r) /\ Continue(r)
      /\ sessions' = sessions \ SessionsOf(task[r].user)
      /\ revs' = [revs EXCEPT ![task[r].user] = @ + 1]
      /\ At(r, "reset") \/ At(r, "lock")
    BY DEF Step, Reset, Lock
<1>2. /\ task[r] \in Task /\ task[r].todo \in Lists /\ task \in [Requests -> Task]
      /\ Starts(task[r], {"reset", "lock"})
    BY <1>1, Running DEF Starts, At, Inv, TypeOK
<1>3. PICK u : u = task'[r]
    OBVIOUS
<1>4. SUFFICES ASSUME Fits(task[r]) PROVE Fits(u)'
    BY <1>1, <1>3, StorageStep
<1>5. /\ ~task[r].ok /\ ~Presents(task[r]) /\ ~TakenFrom(task[r])
      /\ stored # 0 => Live(stored)
      /\ sessions \ displaced \subseteq {stored}
  <2>1. ~task[r].ok /\ ~Presents(task[r]) /\ ~TakenFrom(task[r])
      BY <1>2, <1>4 DEF Fits, Presents, TakenFrom, Starts
  <2> QED
      BY <1>4, <2>1 DEF Fits
<1>6. u = Resting
  <2>1. Tail(task[r].todo) = <<>>
      BY <1>2, TailOf DEF Starts
  <2> QED
      BY <1>1, <1>2, <1>3, <2>1 DEF Continue, Rest
<1>7. stored # 0 => Live(stored)'
  <2> SUFFICES ASSUME stored # 0 PROVE Live(stored)'
      OBVIOUS
  <2>1. /\ stored \in Tokens /\ tokens[stored].user \in Users /\ revs \in [Users -> Nat]
        /\ tokens[stored].after \in Nat
        /\ stored \in sessions => tokens[stored].after = revs[tokens[stored].user]
      BY ConstantTypes DEF Inv, TypeOK, TokensAgree, Tokens, Token
  <2>2. \/ revs'[tokens[stored].user] = revs[tokens[stored].user] + 1
        \/ revs'[tokens[stored].user] = revs[tokens[stored].user] /\ tokens[stored].user # task[r].user
      BY <1>1, <2>1
  <2>3. revs[tokens[stored].user] \in Nat
      BY <2>1
  <2>4. CASE tokens[stored].after < revs[tokens[stored].user]
    <3>1. tokens[stored].after < revs'[tokens[stored].user]
        BY <2>1, <2>2, <2>3, <2>4
    <3> QED
        BY <1>1, <3>1 DEF Live
  <2>5. CASE stored \in sessions
    <3>1. CASE revs'[tokens[stored].user] = revs[tokens[stored].user] + 1
      <4>1. tokens[stored].after < revs'[tokens[stored].user]
          BY <2>1, <2>3, <2>5, <3>1
      <4> QED
          BY <1>1, <4>1 DEF Live
    <3>2. CASE tokens[stored].user # task[r].user
        BY <1>1, <2>5, <3>2 DEF Live, SessionsOf
    <3> QED
        BY <2>2, <3>1, <3>2
  <2> QED
      BY <1>5, <2>4, <2>5 DEF Live
<1>8. ~u.ok /\ ~Presents(u) /\ ~TakenFrom(u) /\ (\A S : ~Starts(u, S))
      /\ u.kind # "logout" /\ u.kind \notin Exchanges
    BY <1>6 DEF Resting, Presents, TakenFrom, Exchanges, Starts
<1>9. sessions' \ displaced' \subseteq {stored'} /\ (stored # 0 => Live(stored))'
    BY <1>1, <1>5, <1>7
<1> QED
    BY <1>8, <1>9 DEF Fits, Presents, TakenFrom

\* A new token is live, and is all that is live beside the stored one.
LEMMA IssueStorage ==
    ASSUME Inv, SerialInv, StorageInv, NEW r \in Requests, IssueTokens(r)
    PROVE  StorageInv'
<1> USE DEF redisVars, userVars, webVars
<1>1. Inv' /\ Step(r) /\ At(r, "issueTokens") /\ ntokens' = ntokens + 1
    BY IssueTokensKeepsInv DEF Step, IssueTokens
<1>2. PICK k \in Tokens : k = ntokens + 1
    BY <1>1, Typed, ConstantTypes DEF Inv, TypeOK, Tokens
<1>3. /\ UNCHANGED <<stored, displaced, revs, lost>>
      /\ sessions' = sessions \union {k}
      /\ \A j \in Tokens : j # k => tokens'[j] = tokens[j]
    BY <1>2 DEF IssueTokens, Inv, TypeOK
<1>4. /\ task[r] \in Task /\ task[r].todo \in Lists /\ task \in [Requests -> Task]
      /\ Starts(task[r], {"issueTokens"})
    BY <1>1, Running DEF Starts, At, Inv, TypeOK
<1>5. PICK u : u = task'[r]
    OBVIOUS
<1>6. SUFFICES ASSUME Fits(task[r]) PROVE Fits(u)'
    BY <1>3, <1>1, <1>5, StorageStep
<1>7. u.kind = task[r].kind /\ u.tab = task[r].tab /\ u.token = k /\ u.ok /\ Starts(u, {"reply"})
  <2>1. Tail(task[r].todo) = <<"reply">>
      BY <1>4, TailOf DEF Starts
  <2>2. Tail(task[r].todo) # <<>>
      BY <2>1
  <2>3. u = [Rest(task[r]) EXCEPT !.token = k, !.ok = TRUE]
      BY <1>2, <1>4, <1>5 DEF IssueTokens
  <2>4. PICK v : v = Rest(task[r])
      OBVIOUS
  <2>5. v \in Task /\ Same(task[r], v) /\ v.todo = Tail(task[r].todo)
      BY <1>1, <2>2, <2>4, Onward
  <2>6. u.kind = v.kind /\ u.tab = v.tab /\ u.token = k /\ u.ok /\ u.todo = v.todo
      BY <2>3, <2>4, <2>5 DEF Task
  <2>7. u.todo = <<"reply">>
      BY <2>1, <2>5, <2>6
  <2>8. u.kind = task[r].kind /\ u.tab = task[r].tab
      BY <2>5, <2>6 DEF Same
  <2>9. Starts(u, {"reply"})
      BY <2>7 DEF Starts
  <2> QED
      BY <2>6, <2>8, <2>9
<1>8. task[r].kind # "logout" /\ u.tab \in Tabs /\ ~task[r].ok /\ sessions \ displaced \subseteq {stored}
    BY <1>4, <1>6, <1>7 DEF Fits, Starts
<1>9. stored # k /\ stored \in 0 .. ntokens
    BY <1>2, Typed
<1>10. IF TakenFrom(u) THEN stored' \notin sessions' ELSE (stored # 0 => Live(stored))'
  <2>1. TakenFrom(u) <=> TakenFrom(task[r])
      BY <1>4, <1>7 DEF TakenFrom, Presents, Starts
  <2>2. CASE TakenFrom(u)
      BY <1>3, <1>6, <1>9, <2>1, <2>2 DEF Fits
  <2>3. CASE ~TakenFrom(u)
    <3>1. stored # 0 => Live(stored)
        BY <1>6, <2>1, <2>3 DEF Fits
    <3>2. stored # 0 => stored \in Tokens /\ tokens'[stored] = tokens[stored]
        BY <1>3, <1>9 DEF Inv, TypeOK, Tokens
    <3> QED
        BY <1>3, <2>3, <3>1, <3>2 DEF Live
  <2> QED
      BY <2>2, <2>3
<1>11. u.token \in sessions' /\ sessions' \ displaced' \subseteq {stored', u.token} /\ ~Starts(u, {"revoke"})
    BY <1>3, <1>7, <1>8 DEF Starts
<1> QED
    BY <1>7, <1>8, <1>10, <1>11 DEF Fits, Starts, TakenFrom

\* The answer reaches the tab: what it stores is live, and the stored token is displaced.
LEMMA SucceededStorage ==
    ASSUME Inv, SerialInv, StorageInv, NEW r \in Requests, Succeeded(r)
    PROVE  StorageInv'
<1> USE DEF redisVars, tokenVars, userVars
<1>1. /\ UNCHANGED <<sessions, tokens, revs>> /\ Step(r) /\ Continue(r)
      /\ At(r, "reply") /\ task[r].ok
      /\ lost' = lost
    BY DEF Step, Succeeded, webVars
<1>2. /\ task[r] \in Task /\ task[r].todo \in Lists /\ task \in [Requests -> Task]
      /\ Starts(task[r], {"reply"})
    BY <1>1, Running DEF Starts, At, Inv, TypeOK
<1>3. PICK u : u = task'[r]
    OBVIOUS
<1>4. SUFFICES ASSUME Fits(task[r]) PROVE Fits(u)'
    BY <1>1, <1>3, StorageStep
<1>5. /\ task[r].tab \in Tabs /\ task[r].token \in sessions
      /\ sessions \ displaced \subseteq {stored, task[r].token}
  <2>1. task[r].tab \in Tabs
      BY <1>2, <1>4 DEF Fits, Starts
  <2>2. task[r].token \in sessions /\ sessions \ displaced \subseteq {stored, task[r].token}
      BY <1>1, <1>4, Zenon DEF Fits
  <2> QED
      BY <2>1, <2>2
<1>6. stored' = task[r].token /\ displaced' = displaced \union ({stored} \ {0})
  <2>1. task[r].tab # NoTab
      BY <1>5, AccountsAssumption
  <2> QED
      BY <2>1 DEF Succeeded
<1>7. 0 \notin sessions
    BY ConstantTypes DEF Inv, TypeOK, Tokens
<1>8. stored' \in sessions' /\ sessions' \ displaced' \subseteq {stored'}
    BY <1>1, <1>5, <1>6, <1>7
<1>9. u = Resting
  <2>1. Tail(task[r].todo) = <<>>
      BY <1>2, TailOf DEF Starts
  <2> QED
      BY <1>1, <1>2, <1>3, <2>1 DEF Continue, Rest
<1>10. ~u.ok /\ ~Presents(u) /\ ~TakenFrom(u) /\ (\A S : ~Starts(u, S))
       /\ u.kind # "logout" /\ u.kind \notin Exchanges
    BY <1>9 DEF Resting, Presents, TakenFrom, Exchanges, Starts
<1> QED
    BY <1>8, <1>10 DEF Fits, Presents, TakenFrom, Live

\* A refusal, or any answer to a logout, clears the storage of a token that is spent.
LEMMA FailedStorage ==
    ASSUME Inv, SerialInv, StorageInv, NEW r \in Requests, Failed(r)
    PROVE  StorageInv'
<1> USE DEF redisVars, tokenVars, userVars
<1>1. /\ UNCHANGED <<sessions, tokens, revs, displaced>> /\ Step(r) /\ Continue(r)
      /\ At(r, "reply") /\ lost' = (lost \/ task[r].ok)
    BY DEF Step, Failed
<1>2. /\ task[r] \in Task /\ task[r].todo \in Lists /\ task \in [Requests -> Task]
      /\ Starts(task[r], {"reply"})
    BY <1>1, Running DEF Starts, At, Inv, TypeOK
<1>3. CASE task[r].ok
  <2>1. lost'
      BY <1>1, <1>3
  <2> QED
      BY <2>1 DEF StorageInv
<1>4. CASE ~task[r].ok
  <2>1. PICK u : u = task'[r]
      OBVIOUS
  <2>2. SUFFICES ASSUME Fits(task[r]) PROVE Fits(u)'
    <3>1. lost' = FALSE => lost = FALSE
        BY <1>1 DEF Inv, TypeOK
    <3> QED
        BY <1>1, <2>1, <3>1, StorageStep
  <2>3. /\ Presents(task[r]) /\ TakenFrom(task[r]) /\ task[r].tab \in Tabs /\ stored \notin sessions
        /\ sessions \ displaced \subseteq {stored}
      BY <1>2, <1>4, <2>2 DEF Fits, Presents, TakenFrom, Starts
  <2>4. stored' = 0
    <3>1. task[r].tab # NoTab
        BY <2>3, AccountsAssumption
    <3> QED
        BY <2>3, <3>1 DEF Failed, Presents
  <2>5. sessions' \ displaced' \subseteq {stored'}
      BY <1>1, <2>3
  <2>6. u = Resting
    <3>1. Tail(task[r].todo) = <<>>
        BY <1>2, TailOf DEF Starts
    <3> QED
        BY <1>1, <1>2, <2>1, <3>1 DEF Continue, Rest
  <2>7. ~u.ok /\ ~Presents(u) /\ ~TakenFrom(u) /\ (\A S : ~Starts(u, S))
        /\ u.kind # "logout" /\ u.kind \notin Exchanges
      BY <2>6 DEF Resting, Presents, TakenFrom, Exchanges, Starts
  <2> QED
      BY <2>4, <2>5, <2>7 DEF Fits, Presents, TakenFrom
<1> QED
    BY <1>3, <1>4

\* A request that starts when nothing runs presents the stored token, or has none.
LEMMA StartStorage ==
    ASSUME Inv, SerialInv, StorageInv, NEW r \in Requests, Start(r)
    PROVE  StorageInv'
<1> USE DEF redisVars, tokenVars, userVars, webVars
<1>1. ASSUME NEW t, Begin(r, t), ~t.ok, t.todo # <<>>,
             \/ t.kind = "logout" /\ Head(t.todo) = "revoke" /\ t.token = stored /\ t.tab \in Tabs
             \/ t.kind = "logout" /\ Head(t.todo) = "reply" /\ t.token = stored /\ t.tab \in Tabs /\ stored = 0
             \/ t.kind \in Exchanges /\ Head(t.todo) = "claimSession" /\ t.token = stored /\ t.tab \in Tabs
             \/ t.kind \in {"verify", "login"} /\ Head(t.todo) \in {"verifyCode", "issueTokens"} /\ t.tab \in Tabs
             \/ /\ t.kind \in {"register", "resend", "forgot", "reset", "lock", "unlock"}
                /\ Head(t.todo) \in {"claimSend", "forgot", "reset", "lock", "unlock"}
      PROVE  StorageInv'
  <2>1. /\ task'[r] = t /\ \A q \in Requests : q # r => task'[q] = task[q]
        /\ UNCHANGED <<stored, sessions, displaced, tokens, revs, lost>>
        /\ IF Quiet THEN overlaps' = overlaps ELSE overlaps' = overlaps + 1
      BY <1>1 DEF Begin, Inv, TypeOK
  <2>2. SUFFICES ASSUME Alone', ~lost'
                 PROVE  /\ Quiet' => Fits(Resting)'
                        /\ \A q \in Requests : ~Idle(q)' => Fits(task[q])'
      BY DEF StorageInv
  <2>3. Alone /\ Quiet /\ ~lost
      BY <2>1, <2>2 DEF Alone, Inv, TypeOK
  <2>4. /\ \A q \in Requests : ~Idle(q)' => q = r
        /\ ~Quiet'
      BY <1>1, <2>1, <2>3 DEF Quiet, Idle
  <2>5. /\ stored # 0 => Live(stored)
        /\ sessions \ displaced \subseteq {stored}
        /\ 0 \notin sessions
    <3>1. Fits(Resting)
        BY <2>3 DEF StorageInv
    <3>2. ~Resting.ok /\ ~TakenFrom(Resting)
        BY DEF Resting, TakenFrom, Starts
    <3>3. 0 \notin sessions
        BY ConstantTypes DEF Inv, TypeOK, Tokens
    <3> QED
        BY <3>1, <3>2, <3>3 DEF Fits
  <2>6. IF TakenFrom(t) THEN stored \notin sessions ELSE stored # 0 => Live(stored)
    <3>1. TakenFrom(t) => stored = 0
        BY <1>1 DEF TakenFrom, Presents, Starts, Exchanges
    <3> QED
        BY <2>5, <3>1
  <2>7. /\ t.kind = "logout" => Starts(t, {"revoke", "reply"})
        /\ t.kind \in Exchanges => Starts(t, {"claimSession", "active", "issueTokens", "reply"})
        /\ Starts(t, {"revoke"}) => t.kind = "logout"
        /\ Presents(t) \/ Starts(t, {"verifyCode", "recheck", "create", "issueTokens", "reply"}) => t.tab \in Tabs
        /\ Starts(t, {"reply"}) => Presents(t)
        /\ Presents(t) => t.token = stored
      BY <1>1 DEF Presents, Starts, Exchanges
  <2>8. Fits(t)
      BY <1>1, <2>5, <2>6, <2>7 DEF Fits
  <2>9. Fits(t)'
      BY <2>1, <2>8, FitsStays
  <2>10. Fits(task[r])'
      BY <2>1, <2>9 DEF Fits, Presents, TakenFrom, Live
  <2> QED
      BY <2>4, <2>10
<1>2. /\ <<"claimSend", "issue", "send">> # <<>> /\ <<"reply">> # <<>>
      /\ <<"verifyCode", "recheck", "create", "issueTokens", "reply">> # <<>>
      /\ <<"issueTokens", "reply">> # <<>> /\ <<"revoke", "reply">> # <<>>
      /\ <<"claimSession", "active", "issueTokens", "reply">> # <<>>
      /\ Head(<<"claimSend", "issue", "send">>) = "claimSend"
      /\ Head(<<"verifyCode", "recheck", "create", "issueTokens", "reply">>) = "verifyCode"
      /\ Head(<<"claimSession", "active", "issueTokens", "reply">>) = "claimSession"
    OBVIOUS
<1>3. CASE \E h \in Handles : Register(r, h) \/ Resend(r, h)
  <2>1. PICK h \in Handles, kind \in {"register", "resend"} :
            Begin(r, [Resting EXCEPT !.kind = kind, !.handle = h, !.todo = <<"claimSend", "issue", "send">>])
      BY <1>3 DEF Register, Resend
  <2> DEFINE t == [Resting EXCEPT !.kind = kind, !.handle = h, !.todo = <<"claimSend", "issue", "send">>]
  <2>2. t.todo = <<"claimSend", "issue", "send">> /\ t.kind = kind /\ ~t.ok /\ Begin(r, t)
      BY <2>1 DEF Resting
  <2> HIDE DEF t
  <2> QED
      BY <1>1, <1>2, <2>2
<1>4. ASSUME NEW h \in Handles, NEW tab \in Tabs, NEW c \in 0 .. ncodes, VerifyEmailOtp(r, tab, h, c)
      PROVE  StorageInv'
  <2> DEFINE t == [Resting EXCEPT !.kind = "verify", !.tab = tab, !.handle = h, !.code = c,
                                  !.todo = <<"verifyCode", "recheck", "create", "issueTokens", "reply">>]
  <2>1. /\ t.todo = <<"verifyCode", "recheck", "create", "issueTokens", "reply">>
        /\ t.kind = "verify" /\ t.tab = tab /\ ~t.ok /\ Begin(r, t)
      BY <1>4 DEF VerifyEmailOtp, Resting
  <2> HIDE DEF t
  <2> QED
      BY <1>1, <1>2, <2>1
<1>5. ASSUME NEW tab \in Tabs, Refresh(r, tab)
      PROVE  StorageInv'
  <2> DEFINE t == [Resting EXCEPT !.kind = IF tab \in signedIn THEN "refresh" ELSE "bootstrap", !.tab = tab,
                                  !.token = stored, !.user = tokens[stored].user,
                                  !.since = revs[tokens[stored].user], !.todo = <<"claimSession", "active", "issueTokens", "reply">>]
  <2>1. /\ t.todo = <<"claimSession", "active", "issueTokens", "reply">>
        /\ t.kind \in Exchanges /\ t.tab = tab /\ t.token = stored /\ ~t.ok /\ Begin(r, t)
      BY <1>5 DEF Refresh, Resting, Exchanges
  <2> HIDE DEF t
  <2> QED
      BY <1>1, <1>2, <2>1
<1>6. ASSUME NEW tab \in Tabs, Logout(r, tab)
      PROVE  StorageInv'
  <2> DEFINE t == [Resting EXCEPT !.kind = "logout", !.tab = tab, !.token = stored,
                                  !.todo = IF stored = 0 THEN <<"reply">> ELSE <<"revoke", "reply">>]
  <2>1. /\ IF stored = 0 THEN t.todo = <<"reply">> ELSE t.todo = <<"revoke", "reply">>
        /\ t.kind = "logout" /\ t.tab = tab /\ t.token = stored /\ ~t.ok /\ Begin(r, t)
      BY <1>6 DEF Logout, Resting
  <2> HIDE DEF t
  <2>2. t.todo # <<>> /\ (Head(t.todo) = "revoke" \/ (Head(t.todo) = "reply" /\ stored = 0))
      BY <1>2, <2>1
  <2> QED
      BY <1>1, <2>1, <2>2
<1>7. ASSUME NEW tab \in Tabs, NEW a \in Users, Login(r, tab, a)
      PROVE  StorageInv'
  <2> DEFINE t == [Resting EXCEPT !.kind = "login", !.tab = tab, !.user = a, !.since = revs[a],
                                  !.todo = <<"issueTokens", "reply">>]
  <2>1. t.todo = <<"issueTokens", "reply">> /\ t.kind = "login" /\ t.tab = tab /\ ~t.ok /\ Begin(r, t)
      BY <1>7 DEF Login, Resting
  <2> HIDE DEF t
  <2> QED
      BY <1>1, <1>2, <2>1
<1>8. ASSUME NEW kind \in {"forgot", "reset"}, NEW l \in Links, NEW a,
             Begin(r, [Resting EXCEPT !.kind = kind, !.link = l, !.user = a, !.todo = <<kind>>])
      PROVE  StorageInv'
  <2> DEFINE t == [Resting EXCEPT !.kind = kind, !.link = l, !.user = a, !.todo = <<kind>>]
  <2>1. t.todo = <<kind>> /\ t.kind = kind /\ ~t.ok /\ Begin(r, t)
      BY <1>8 DEF Resting
  <2> HIDE DEF t
  <2>2. t.todo # <<>> /\ Head(t.todo) = kind
      BY <2>1
  <2> QED
      BY <1>1, <2>1, <2>2
<1>9. CASE \E a \in Users : Deactivate(r, a) \/ Reactivate(r, a)
  <2>1. PICK a \in Users, kind \in {"lock", "unlock"} :
            Begin(r, [Resting EXCEPT !.kind = kind, !.user = a, !.todo = <<kind>>])
      BY <1>9 DEF Deactivate, Reactivate
  <2> DEFINE t == [Resting EXCEPT !.kind = kind, !.user = a, !.todo = <<kind>>]
  <2>2. t.todo = <<kind>> /\ t.kind = kind /\ ~t.ok /\ Begin(r, t)
      BY <2>1 DEF Resting
  <2> HIDE DEF t
  <2>3. t.todo # <<>> /\ Head(t.todo) = kind
      BY <2>2
  <2> QED
      BY <1>1, <2>2, <2>3
<1>10. CASE \E l \in Links : ResetPassword(r, l) \/ \E a \in Users : ForgotPassword(r, l, a)
    BY <1>8, <1>10 DEF ResetPassword, ForgotPassword
<1> QED
    BY <1>3, <1>4, <1>5, <1>6, <1>7, <1>9, <1>10 DEF Start

\* A reload or a restart while a request runs loses its answer; nothing else outside the
\* handlers touches sessions, and only bootstrap's failure the storage.
LEMMA OutsideStorage ==
    ASSUME Inv, SerialInv, StorageInv,
           \/ UNCHANGED vars
           \/ \E t \in Tabs : Bounce(t) \/ Reload(t) \/ BootstrapFails(t)
           \/ \E h \in Handles : CodeExpires(h)
           \/ \E l \in Links : LinkExpires(l)
           \/ CooldownExpires
           \/ Restart
    PROVE  StorageInv'
<1> USE DEF redisVars, tokenVars, userVars, webVars
<1>1. CASE lost'
    BY <1>1 DEF StorageInv
<1>2. CASE ~lost'
  <2>1. UNCHANGED <<stored, sessions, displaced, tokens, revs, overlaps>>
      BY <1>2 DEF vars, Bounce, Reload, BootstrapFails, CodeExpires, LinkExpires, CooldownExpires, Restart
  <2>2. ~lost /\ \A r \in Requests : task'[r] = task[r]
    <3>1. CASE \E t \in Tabs : Reload(t)
        BY <1>2, <3>1 DEF Reload
    <3>2. CASE ~ \E t \in Tabs : Reload(t)
      <4>1. lost' = lost /\ task' = task
          BY <1>2, <3>2 DEF vars, Bounce, BootstrapFails, CodeExpires, LinkExpires, CooldownExpires, Restart
      <4> QED
          BY <1>2, <4>1, Zenon
    <3> QED
        BY <3>1, <3>2
  <2>3. SUFFICES ASSUME Alone'
                 PROVE  /\ Quiet' => Fits(Resting)'
                        /\ \A r \in Requests : ~Idle(r)' => Fits(task[r])'
      BY DEF StorageInv
  <2>4. /\ Quiet => Fits(Resting)
        /\ \A r \in Requests : ~Idle(r) => Fits(task[r])
      BY <2>1, <2>2, <2>3 DEF StorageInv, Alone
  <2>5. (Quiet' => Quiet) /\ \A r \in Requests : Idle(r)' <=> Idle(r)
      BY <2>2 DEF Quiet, Idle
  <2>6. Fits(Resting) => Fits(Resting)'
      BY <2>1, FitsStays
  <2>7. ASSUME NEW r \in Requests, Fits(task[r]) PROVE Fits(task[r])'
    <3>1. PICK u : u = task[r]
        OBVIOUS
    <3>2. Fits(u)'
        BY <2>1, <2>7, <3>1, FitsStays
    <3> QED
        BY <2>2, <3>1, <3>2 DEF Fits, Presents, TakenFrom, Live
  <2> QED
      BY <2>4, <2>5, <2>6, <2>7
<1> QED
    BY <1>1, <1>2

LEMMA StorageAlways == Spec => [](Inv /\ SerialInv /\ StorageInv)
<1>1. Init => SerialInv /\ StorageInv
  <2> SUFFICES ASSUME Init PROVE SerialInv /\ StorageInv
      OBVIOUS
  <2>1. SerialInv
      BY DEF Init, SerialInv, At, Idle, Resting, Exists
  <2>2. stored = 0 /\ sessions = {} /\ \A r \in Requests : Idle(r)
      BY DEF Init, Idle, Resting
  <2>3. ~Resting.ok /\ Resting.kind = "none" /\ (\A S : ~Starts(Resting, S))
      BY DEF Resting, Starts
  <2>4. Fits(Resting)
      BY <2>2, <2>3 DEF Fits, Presents, TakenFrom, Exchanges
  <2> QED
      BY <2>1, <2>2, <2>4 DEF StorageInv
<1>2. Inv /\ SerialInv /\ StorageInv /\ [Next]_vars => SerialInv' /\ StorageInv'
  <2> SUFFICES ASSUME Inv, SerialInv, StorageInv, [Next]_vars PROVE SerialInv' /\ StorageInv'
      OBVIOUS
  <2>1. SerialInv'
      BY StartKeepsSerial, StepKeepsSerial, OutsideKeepsSerial DEF Next
  <2>2. ASSUME NEW r \in Requests, Step(r) PROVE StorageInv'
      BY <2>2, PlainStorage, ClaimStorage, RevokeStorage, RevocationStorage, IssueStorage, SucceededStorage,
         FailedStorage DEF Step
  <2>3. StorageInv'
      BY <2>2, StartStorage, OutsideStorage DEF Next
  <2> QED
      BY <2>1, <2>3
<1> QED
    BY <1>1, <1>2, InvAlways, PTL DEF Spec

\* Without overlaps, lost answers or reloads in flight, the token a browser keeps is live
\* unless its account was revoked since, for any number of tabs, accounts and sign-ins.
THEOREM StoredTokenIsLive == Spec => []StoredIsLive
<1>1. StorageInv => StoredIsLive
  <2> SUFFICES ASSUME StorageInv, Alone, ~lost, Quiet, stored # 0 PROVE Live(stored)
      BY DEF StoredIsLive, Live
  <2>1. Fits(Resting) /\ ~TakenFrom(Resting)
      BY DEF StorageInv, Resting, TakenFrom, Starts
  <2> QED
      BY <2>1 DEF Fits
<1> QED
    BY <1>1, StorageAlways, PTL

\* Under the same conditions a browser leaves no session behind: what is live is what it
\* stores, or was stored before a later sign-in. In particular logging out revokes.
THEOREM LogoutRevokes == Spec => []LoggedOutIsRevoked
<1>1. StorageInv => LoggedOutIsRevoked
  <2> SUFFICES ASSUME StorageInv, Alone, ~lost, Quiet PROVE sessions \ displaced \subseteq {stored}
      BY DEF LoggedOutIsRevoked
  <2>1. Fits(Resting) /\ ~Resting.ok
      BY DEF StorageInv, Resting
  <2> QED
      BY <2>1 DEF Fits
<1> QED
    BY <1>1, StorageAlways, PTL
=============================================================================
