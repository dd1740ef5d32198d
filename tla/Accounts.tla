------------------------------ MODULE Accounts ------------------------------
(***************************************************************************)
(* The accounts of one address: sign-up with an emailed one-time code      *)
(* (modules/auth/otp.service.ts in Redis, auth.service.ts), sign-in and    *)
(* the rotation of refresh tokens, revocation by logout, password reset    *)
(* and deactivation (admin.service.ts, candidates.service.ts), and the     *)
(* browser that keeps one refresh token for all its tabs (the web          *)
(* application's axios.ts, tokenStorage.ts and auth.store.ts).             *)
(*                                                                         *)
(* As in Referral.tla a request is the list of Redis commands and database *)
(* statements it has still to execute; other requests run between two of   *)
(* them. Codes, tokens and accounts are numbered as they are made.         *)
(***************************************************************************)
EXTENDS Naturals, Sequences, FiniteSets, Functions

CONSTANTS
    Requests,        \* concurrent HTTP requests
    Tabs,            \* tabs of the candidate's browser
    NoTab,           \* the caller is not a tab of it
    Handles,         \* registration handles, one for each form sent
    NoHandle,
    Links,           \* password reset links, used again when they are spent
    NoLink,
    MaxAttempts,     \* OTP_MAX_ATTEMPTS
    MaxCodes,        \* bound on the codes issued
    MaxUsers,        \* bound on the accounts created
    MaxTokens,       \* bound on the refresh tokens issued
    MaxRevocations,  \* bound on the resets and deactivations
    MaxOverlaps      \* bound on the requests that start while another one runs

ASSUME AccountsAssumption ==
    /\ IsFiniteSet(Requests)
    /\ NoTab \notin Tabs /\ NoHandle \notin Handles /\ NoLink \notin Links
    /\ {MaxAttempts, MaxCodes, MaxUsers, MaxTokens} \subseteq Nat \ {0}
    /\ {MaxRevocations, MaxOverlaps} \subseteq Nat

VARIABLES
    otp,         \* the Redis hash of each handle; code 0: no key; history: guesses compared
    cooldown,    \* the address's cooldown key exists
    ncodes,      \* codes issued
    matched,     \* history: guesses that matched each code
    users,       \* tblSecUser by account
    links,       \* tblAuthPasswordReset: whose password each link resets; 0: none, spent, expired
    sessions,    \* tblSecActiveSessions: the tokens that are live
    tokens,      \* the refresh tokens issued: whose, of which sign-in, how late
    ntokens,     \* how many
    revs,        \* history: resets and deactivations of each account
    stored,      \* the browser's localStorage: a refresh token, or 0
    signedIn,    \* tabs whose store has a user
    displaced,   \* history: stored tokens another sign-in overwrote
    task,        \* what each request is executing
    overlaps,    \* history: requests started while another one ran
    lost         \* history: a reply never reached its tab

redisVars == <<otp, cooldown, ncodes, matched>>
tokenVars == <<sessions, tokens, ntokens>>
userVars == <<users, links, revs>>
webVars == <<stored, signedIn, displaced, lost>>
vars == <<redisVars, tokenVars, userVars, webVars, overlaps, task>>

Codes == 1 .. MaxCodes
Users == 1 .. MaxUsers
Tokens == 1 .. MaxTokens

Otp == [code : 0 .. MaxCodes, attempts : Nat, guesses : Nat]
NoOtp == [code |-> 0, attempts |-> 0, guesses |-> 0]
Token == [user : 0 .. MaxUsers, line : 0 .. MaxTokens, after : Nat]
NoToken == [user |-> 0, line |-> 0, after |-> 0]

Statements == {"claimSend", "ttl", "issue", "send", "release", "verifyCode", "recheck", "create",
               "issueTokens", "claimSession", "active", "revoke", "forgot", "reset", "lock", "unlock", "reply"}
Kinds == {"none", "register", "resend", "verify", "login", "refresh", "bootstrap", "logout",
          "forgot", "reset", "lock", "unlock"}
Task == [kind : Kinds, tab : Tabs \union {NoTab}, handle : Handles \union {NoHandle},
         link : Links \union {NoLink},
         code : 0 .. MaxCodes,     \* the guess; 0: a wrong one, or none
         user : 0 .. MaxUsers,
         token : 0 .. MaxTokens,   \* presented, then issued
         since : Nat,              \* history: revocations of the account when the request began
         ok : BOOLEAN,             \* the answer is a success
         todo : Seq(Statements)]
Resting ==
    [kind |-> "none", tab |-> NoTab, handle |-> NoHandle, link |-> NoLink, code |-> 0,
     user |-> 0, token |-> 0, since |-> 0, ok |-> FALSE, todo |-> <<>>]

Init ==
    /\ otp = [h \in Handles |-> NoOtp]
    /\ cooldown = FALSE
    /\ ncodes = 0
    /\ matched = [c \in Codes |-> 0]
    /\ users = [u \in Users |-> "none"]
    /\ links = [l \in Links |-> 0]
    /\ sessions = {}
    /\ tokens = [k \in Tokens |-> NoToken]
    /\ ntokens = 0
    /\ revs = [u \in Users |-> 0]
    /\ stored = 0
    /\ signedIn = {}
    /\ displaced = {}
    /\ task = [r \in Requests |-> Resting]
    /\ overlaps = 0
    /\ lost = FALSE

-----------------------------------------------------------------------------
(* Starting a handler: its reads and guards, and the statements to come.   *)

Idle(r) == task[r].todo = <<>>
Quiet == \A r \in Requests : Idle(r)
Alone == overlaps = 0

\* The bounds count what running requests are still going to do.
Doing(s) == {r \in Requests : \E k \in DOMAIN task[r].todo : task[r].todo[k] = s}
Coming(s) == Cardinality(Doing(s))

Begin(r, t) ==
    /\ Idle(r)
    /\ IF Quiet THEN UNCHANGED overlaps ELSE overlaps < MaxOverlaps /\ overlaps' = overlaps + 1
    /\ task' = [task EXCEPT ![r] = t]
    /\ UNCHANGED <<redisVars, tokenVars, userVars, webVars>>

Exists(u) == users[u] # "none"
\* assertEmailAvailable and assertMobileAvailable, for the one address and number.
AddressTaken == \E u \in Users : Exists(u)
HandleUnused(h) == \A r \in Requests : task[r].handle # h
CanIssueCode == ncodes + Coming("issue") < MaxCodes
CanIssueTokens == ntokens + Coming("issueTokens") < MaxTokens
CanRevoke ==
    FoldFunction(+, 0, revs) + Coming("reset") + Coming("lock") < MaxRevocations

Register(r, h) ==
    /\ otp[h] = NoOtp /\ HandleUnused(h)
    /\ ~AddressTaken
    /\ CanIssueCode
    /\ Begin(r, [Resting EXCEPT !.kind = "register", !.handle = h, !.todo = <<"claimSend", "issue", "send">>])

\* peekPayload, then as register.
Resend(r, h) ==
    /\ otp[h] # NoOtp
    /\ CanIssueCode
    /\ Begin(r, [Resting EXCEPT !.kind = "resend", !.handle = h, !.todo = <<"claimSend", "issue", "send">>])

\* Whoever sent the form types a code they were mailed or guessed, or a wrong one.
VerifyEmailOtp(r, t, h, c) ==
    /\ t \notin signedIn
    /\ otp[h] # NoOtp
    /\ CanIssueTokens
    /\ Begin(r, [Resting EXCEPT !.kind = "verify", !.tab = t, !.handle = h, !.code = c,
                                !.todo = <<"verifyCode", "recheck", "create", "issueTokens", "reply">>])

\* The account is read and the password compared; the tokens come later.
Login(r, t, u) ==
    /\ t \notin signedIn
    /\ users[u] = "active"
    /\ CanIssueTokens
    /\ Begin(r, [Resting EXCEPT !.kind = "login", !.tab = t, !.user = u, !.since = revs[u],
                                !.todo = <<"issueTokens", "reply">>])

\* A request of the tab was answered 401, or the tab was reloaded; `refreshing` lets one
\* exchange serve all requests that wait.
Exchanges == {"refresh", "bootstrap"}
Exchanging(t) == \E q \in Requests : task[q].kind \in Exchanges /\ task[q].tab = t
Refresh(r, t) ==
    /\ stored # 0
    /\ ~Exchanging(t)
    /\ CanIssueTokens
    /\ Begin(r, [Resting EXCEPT !.kind = IF t \in signedIn THEN "refresh" ELSE "bootstrap", !.tab = t,
                                !.token = stored, !.user = tokens[stored].user, !.since = revs[tokens[stored].user],
                                !.todo = <<"claimSession", "active", "issueTokens", "reply">>])

\* Mutant of Logout: the refresh token is not handed back.
LogoutWithoutToken(r, t) ==
    /\ t \in signedIn
    /\ Begin(r, [Resting EXCEPT !.kind = "logout", !.tab = t, !.todo = <<"reply">>])

\* Without a stored token there is nothing to revoke.
Logout(r, t) ==
    /\ t \in signedIn
    /\ Begin(r, [Resting EXCEPT !.kind = "logout", !.tab = t, !.token = stored,
                                !.todo = IF stored = 0 THEN <<"reply">> ELSE <<"revoke", "reply">>])

ForgotPassword(r, l, u) ==
    /\ links[l] = 0
    /\ \A q \in Requests : task[q].link # l
    /\ users[u] = "active"
    /\ Begin(r, [Resting EXCEPT !.kind = "forgot", !.link = l, !.user = u, !.todo = <<"forgot">>])

\* The link is checked here and spent in the transaction.
ResetPassword(r, l) ==
    /\ links[l] # 0
    /\ CanRevoke
    /\ Begin(r, [Resting EXCEPT !.kind = "reset", !.link = l, !.user = links[l], !.todo = <<"reset">>])

\* applyUserChanges with isActive, and requestDeletion.
Deactivate(r, u) ==
    /\ Exists(u)
    /\ CanRevoke
    /\ Begin(r, [Resting EXCEPT !.kind = "lock", !.user = u, !.todo = <<"lock">>])
Reactivate(r, u) ==
    /\ users[u] = "inactive"
    /\ Begin(r, [Resting EXCEPT !.kind = "unlock", !.user = u, !.todo = <<"unlock">>])

Start(r) ==
    \/ \E h \in Handles :
           \/ Register(r, h) \/ Resend(r, h)
           \/ \E t \in Tabs, c \in 0 .. ncodes : VerifyEmailOtp(r, t, h, c)
    \/ \E t \in Tabs : Refresh(r, t) \/ Logout(r, t) \/ \E u \in Users : Login(r, t, u)
    \/ \E l \in Links : ResetPassword(r, l) \/ \E u \in Users : ForgotPassword(r, l, u)
    \/ \E u \in Users : Deactivate(r, u) \/ Reactivate(r, u)

-----------------------------------------------------------------------------
(* The statements of a running handler.                                    *)

At(r, s) == task[r].todo # <<>> /\ Head(task[r].todo) = s
Rest(t) == IF Tail(t.todo) = <<>> THEN Resting ELSE [t EXCEPT !.todo = Tail(@)]
Continue(r) == task' = [task EXCEPT ![r] = Rest(@)]
\* The handler throws: an exchange is answered 401, which the tab acts on; a refused form
\* changes nothing.
Refused(t) == IF t.kind \in Exchanges THEN [t EXCEPT !.ok = FALSE, !.todo = <<"reply">>] ELSE Resting
Abort(r) == task' = [task EXCEPT ![r] = Refused(@)]

\* SET NX: claiming and checking in one command.
ClaimSend(r) ==
    /\ At(r, "claimSend")
    /\ cooldown' = TRUE
    /\ task' = [task EXCEPT ![r].todo = IF cooldown THEN <<"ttl">> \o Tail(@) ELSE Tail(@)]
    /\ UNCHANGED <<otp, ncodes, matched, tokenVars, userVars, webVars, overlaps>>

\* A key that lapsed meanwhile reports no wait, and the caller sends.
Ttl(r) ==
    /\ At(r, "ttl")
    /\ IF cooldown THEN Abort(r) ELSE Continue(r)
    /\ UNCHANGED <<redisVars, tokenVars, userVars, webVars, overlaps>>

Issue(r) ==
    /\ At(r, "issue")
    /\ ncodes' = ncodes + 1
    /\ otp' = [otp EXCEPT ![task[r].handle] = [code |-> ncodes + 1, attempts |-> 0, guesses |-> 0]]
    /\ Continue(r)
    /\ UNCHANGED <<cooldown, matched, tokenVars, userVars, webVars, overlaps>>

\* sendEmailOtp queues the mail, or fails and the claim is rolled back.
Send(r) ==
    /\ At(r, "send")
    /\ Continue(r) \/ task' = [task EXCEPT ![r].todo = <<"release">>]
    /\ UNCHANGED <<redisVars, tokenVars, userVars, webVars, overlaps>>

ReleaseSend(r) ==
    /\ At(r, "release")
    /\ cooldown' = FALSE
    /\ Continue(r)
    /\ UNCHANGED <<otp, ncodes, matched, tokenVars, userVars, webVars, overlaps>>

\* Mutants of Verdict: a matched code is not destroyed; one guess too many.
VerdictKept(o, guess) ==
    IF o.code = 0 \/ o.attempts + 1 > MaxAttempts THEN [left |-> NoOtp, match |-> FALSE]
    ELSE [left |-> [o EXCEPT !.attempts = @ + 1, !.guesses = @ + 1], match |-> o.code = guess]
VerdictLenient(o, guess) ==
    IF o.code = 0 \/ o.attempts > MaxAttempts THEN [left |-> NoOtp, match |-> FALSE]
    ELSE IF o.code = guess THEN [left |-> NoOtp, match |-> TRUE]
    ELSE [left |-> [o EXCEPT !.attempts = @ + 1, !.guesses = @ + 1], match |-> FALSE]

\* The answer of VERIFY_SCRIPT to a guess: the record it leaves, and whether it matched.
Verdict(o, guess) ==
    IF o.code = 0 \/ o.attempts + 1 > MaxAttempts THEN [left |-> NoOtp, match |-> FALSE]
    ELSE IF o.code = guess THEN [left |-> NoOtp, match |-> TRUE]
    ELSE [left |-> [o EXCEPT !.attempts = @ + 1, !.guesses = @ + 1], match |-> FALSE]

VerifyCode(r) ==
    LET h == task[r].handle
        v == Verdict(otp[h], task[r].code)
    IN  /\ At(r, "verifyCode")
        /\ otp' = [otp EXCEPT ![h] = v.left]
        /\ matched' = [c \in Codes |-> IF v.match /\ c = otp[h].code THEN matched[c] + 1 ELSE matched[c]]
        /\ IF v.match THEN task' = [task EXCEPT ![r] = [Rest(@) EXCEPT !.code = 0]] ELSE Abort(r)
        /\ UNCHANGED <<cooldown, ncodes, tokenVars, userVars, webVars, overlaps>>

\* Mutant of Recheck: the address was checked when the form was sent.
RecheckNever(r) ==
    /\ At(r, "recheck")
    /\ Continue(r)
    /\ UNCHANGED <<redisVars, tokenVars, userVars, webVars, overlaps>>

\* The address is checked a second time, still before the transaction.
Recheck(r) ==
    /\ At(r, "recheck")
    /\ IF AddressTaken THEN Abort(r) ELSE Continue(r)
    /\ UNCHANGED <<redisVars, tokenVars, userVars, webVars, overlaps>>

\* Five inserts in one transaction: registration, profile, history, login, role.
CreateAccount(r) ==
    \E u \in Users :
        /\ At(r, "create")
        /\ ~Exists(u) /\ \A v \in 1 .. u - 1 : Exists(v)
        /\ users' = [users EXCEPT ![u] = "active"]
        /\ task' = [task EXCEPT ![r] = [Rest(@) EXCEPT !.user = u]]
        /\ UNCHANGED <<links, revs, redisVars, tokenVars, webVars, overlaps>>

\* An exchange continues the sign-in of the token it was given, any other begins one.
IssueTokens(r) ==
    LET k == ntokens + 1
        u == task[r].user
    IN  /\ At(r, "issueTokens")
        /\ ntokens' = k
        /\ tokens' = [tokens EXCEPT ![k] =
                         [user |-> u, after |-> revs[u],
                          line |-> IF task[r].kind \in Exchanges THEN tokens[task[r].token].line ELSE k]]
        /\ sessions' = sessions \union {k}
        /\ task' = [task EXCEPT ![r] = [Rest(@) EXCEPT !.token = k, !.ok = TRUE]]
        /\ UNCHANGED <<redisVars, userVars, webVars, overlaps>>

\* Mutant of ClaimSession: a read of the row, and a delete that does not look at its count.
ClaimSessionUncounted(r) ==
    /\ At(r, "claimSession")
    /\ sessions' = sessions \ {task[r].token}
    /\ Continue(r)
    /\ UNCHANGED <<tokens, ntokens, redisVars, userVars, webVars, overlaps>>

\* deleteMany by jti, and its count.
ClaimSession(r) ==
    /\ At(r, "claimSession")
    /\ sessions' = sessions \ {task[r].token}
    /\ IF task[r].token \in sessions THEN Continue(r) ELSE Abort(r)
    /\ UNCHANGED <<tokens, ntokens, redisVars, userVars, webVars, overlaps>>

\* Mutant of CheckActive: the account's flag is not looked at.
CheckActiveNever(r) ==
    /\ At(r, "active")
    /\ Continue(r)
    /\ UNCHANGED <<redisVars, tokenVars, userVars, webVars, overlaps>>

CheckActive(r) ==
    /\ At(r, "active")
    /\ IF users[task[r].user] = "active" THEN Continue(r) ELSE Abort(r)
    /\ UNCHANGED <<redisVars, tokenVars, userVars, webVars, overlaps>>

Revoke(r) ==
    /\ At(r, "revoke")
    /\ sessions' = sessions \ {task[r].token}
    /\ Continue(r)
    /\ UNCHANGED <<tokens, ntokens, redisVars, userVars, webVars, overlaps>>

CreateLink(r) ==
    /\ At(r, "forgot")
    /\ links' = [links EXCEPT ![task[r].link] = task[r].user]
    /\ Continue(r)
    /\ UNCHANGED <<users, revs, redisVars, tokenVars, webVars, overlaps>>

SessionsOf(u) == {k \in sessions : tokens[k].user = u}

\* The new password, the spent link and the end of the sessions, in one transaction.
Reset(r) ==
    LET u == task[r].user IN
    /\ At(r, "reset")
    /\ links' = [links EXCEPT ![task[r].link] = 0]
    /\ sessions' = sessions \ SessionsOf(u)
    /\ revs' = [revs EXCEPT ![u] = @ + 1]
    /\ Continue(r)
    /\ UNCHANGED <<users, tokens, ntokens, redisVars, webVars, overlaps>>

\* Mutant of Lock: the sessions are left to their expiry.
LockOnly(r) ==
    LET u == task[r].user IN
    /\ At(r, "lock")
    /\ users' = [users EXCEPT ![u] = "inactive"]
    /\ revs' = [revs EXCEPT ![u] = @ + 1]
    /\ Continue(r)
    /\ UNCHANGED <<links, tokenVars, redisVars, webVars, overlaps>>

Lock(r) ==
    LET u == task[r].user IN
    /\ At(r, "lock")
    /\ users' = [users EXCEPT ![u] = "inactive"]
    /\ sessions' = sessions \ SessionsOf(u)
    /\ revs' = [revs EXCEPT ![u] = @ + 1]
    /\ Continue(r)
    /\ UNCHANGED <<links, tokens, ntokens, redisVars, webVars, overlaps>>

Unlock(r) ==
    /\ At(r, "unlock")
    /\ users' = [users EXCEPT ![task[r].user] = "active"]
    /\ Continue(r)
    /\ UNCHANGED <<links, revs, tokenVars, redisVars, webVars, overlaps>>

-----------------------------------------------------------------------------
(* The browser, time, and a restart.                                       *)

\* Mutants of Succeeded: an answer nobody waits for signs in all the same; the rotated
\* refresh token is not kept.
SucceededAnyway(r) ==
    LET t == task[r] IN
    /\ At(r, "reply") /\ t.ok
    /\ stored' = t.token
    /\ displaced' = displaced \union ({stored} \ {0})
    /\ signedIn' = signedIn \union {t.tab}
    /\ Continue(r)
    /\ UNCHANGED <<lost, redisVars, tokenVars, userVars, overlaps>>
SucceededAccessOnly(r) ==
    LET t == task[r] IN
    /\ At(r, "reply") /\ t.ok
    /\ IF t.tab = NoTab \/ t.kind \in Exchanges THEN UNCHANGED webVars
       ELSE /\ stored' = t.token
            /\ displaced' = displaced \union ({stored} \ {0})
            /\ signedIn' = signedIn \union {t.tab}
            /\ UNCHANGED lost
    /\ Continue(r)
    /\ UNCHANGED <<redisVars, tokenVars, userVars, overlaps>>

\* setSession, or the refresh token kept by the interceptor and, in a fresh tab, the user of
\* the replayed request. A tab that was reloaded hears nothing.
Succeeded(r) ==
    LET t == task[r] IN
    /\ At(r, "reply") /\ t.ok
    /\ IF t.tab = NoTab THEN UNCHANGED webVars
       ELSE /\ stored' = t.token
            /\ displaced' = displaced \union ({stored} \ {0})
            /\ signedIn' = IF t.kind = "refresh" THEN signedIn ELSE signedIn \union {t.tab}
            /\ UNCHANGED lost
    /\ Continue(r)
    /\ UNCHANGED <<redisVars, tokenVars, userVars, overlaps>>

\* A refusal, an answer that never arrives, or a logout, which takes any answer for one: an
\* exchange and a logout clear the storage all tabs share.
Failed(r) ==
    LET t == task[r] IN
    /\ At(r, "reply")
    /\ lost' = (lost \/ t.ok)
    /\ IF t.tab # NoTab /\ t.kind \in Exchanges \union {"logout"}
       THEN stored' = 0 /\ signedIn' = signedIn \ {t.tab}
       ELSE UNCHANGED <<stored, signedIn>>
    /\ Continue(r)
    /\ UNCHANGED <<displaced, redisVars, tokenVars, userVars, overlaps>>

\* A 401 in a tab whose storage another one cleared: nothing to exchange, back to /login.
Bounce(t) ==
    /\ t \in signedIn /\ stored = 0 /\ ~Exchanging(t)
    /\ signedIn' = signedIn \ {t}
    /\ UNCHANGED <<stored, displaced, lost, redisVars, tokenVars, userVars, overlaps, task>>

\* The page is reloaded: the store's user is gone, and nobody waits for the tab's requests.
Reload(t) ==
    /\ t \in signedIn
    /\ signedIn' = signedIn \ {t}
    /\ lost' = (lost \/ \E r \in Requests : task[r].tab = t)
    /\ task' = [r \in Requests |-> IF task[r].tab = t THEN [task[r] EXCEPT !.tab = NoTab] ELSE task[r]]
    /\ UNCHANGED <<stored, displaced, redisVars, tokenVars, userVars, overlaps>>

\* bootstrap's me() fails with anything but a 401: the token is thrown away, unrevoked.
BootstrapFails(t) ==
    /\ t \notin signedIn /\ stored # 0 /\ ~Exchanging(t)
    /\ stored' = 0
    /\ lost' = TRUE
    /\ UNCHANGED <<signedIn, displaced, redisVars, tokenVars, userVars, overlaps, task>>

\* Ten minutes, a minute and an hour pass.
CodeExpires(h) ==
    /\ otp[h] # NoOtp
    /\ otp' = [otp EXCEPT ![h] = NoOtp]
    /\ UNCHANGED <<cooldown, ncodes, matched, tokenVars, userVars, webVars, overlaps, task>>
CooldownExpires ==
    /\ cooldown
    /\ cooldown' = FALSE
    /\ UNCHANGED <<otp, ncodes, matched, tokenVars, userVars, webVars, overlaps, task>>
LinkExpires(l) ==
    /\ links[l] # 0
    /\ links' = [links EXCEPT ![l] = 0]
    /\ UNCHANGED <<users, revs, redisVars, tokenVars, webVars, overlaps, task>>

\* The process stops: what the running handlers had not executed never happens, and the tabs
\* that wait see a failed request.
Restart ==
    /\ ~Quiet
    /\ lost' = TRUE
    /\ task' = [r \in Requests |->
                   IF task[r].kind \in Exchanges \union {"logout"}
                   THEN [task[r] EXCEPT !.ok = FALSE, !.todo = <<"reply">>]
                   ELSE Resting]
    /\ UNCHANGED <<stored, signedIn, displaced, overlaps, redisVars, tokenVars, userVars>>

Step(r) ==
    \/ ClaimSend(r) \/ Ttl(r) \/ Issue(r) \/ Send(r) \/ ReleaseSend(r)
    \/ VerifyCode(r) \/ Recheck(r) \/ CreateAccount(r) \/ IssueTokens(r)
    \/ ClaimSession(r) \/ CheckActive(r) \/ Revoke(r)
    \/ CreateLink(r) \/ Reset(r) \/ Lock(r) \/ Unlock(r)
    \/ Succeeded(r) \/ Failed(r)

Next ==
    \/ \E r \in Requests : Start(r) \/ Step(r)
    \/ \E t \in Tabs : Bounce(t) \/ Reload(t) \/ BootstrapFails(t)
    \/ \E h \in Handles : CodeExpires(h)
    \/ \E l \in Links : LinkExpires(l)
    \/ CooldownExpires
    \/ Restart

Spec == Init /\ [][Next]_vars

-----------------------------------------------------------------------------
(* Properties.                                                             *)

\* Every variable holds values the program can give it.
TypeOK ==
    /\ otp \in [Handles -> Otp]
    /\ cooldown \in BOOLEAN
    /\ ncodes \in 0 .. MaxCodes
    /\ matched \in [Codes -> Nat]
    /\ users \in [Users -> {"none", "active", "inactive"}]
    /\ links \in [Links -> 0 .. MaxUsers]
    /\ sessions \subseteq Tokens
    /\ tokens \in [Tokens -> Token]
    /\ ntokens \in 0 .. MaxTokens
    /\ revs \in [Users -> Nat]
    /\ stored \in 0 .. MaxTokens
    /\ signedIn \subseteq Tabs
    /\ displaced \subseteq Tokens
    /\ task \in [Requests -> Task]
    /\ overlaps \in Nat /\ lost \in BOOLEAN

\* However guesses, resends and expiries interleave, no code is ever compared with more than
\* MaxAttempts guesses: VERIFY_SCRIPT counts before it compares, and a resent code is a new
\* one under the same key.
GuessesBounded == \A h \in Handles : otp[h].guesses <= MaxAttempts

\* Of all the requests that carry the right code, one is answered that it is right: the
\* script destroys the record with the match.
CodeUsedOnce == \A c \in Codes : matched[c] <= 1

\* Without overlapping requests an address never gets a second account, however many forms
\* were sent for it and whichever of their codes is typed in later.
OneAccountPerAddress == Alone => \A u, v \in Users : Exists(u) /\ Exists(v) => u = v

\* A listed session was issued after the last reset or deactivation of its account, whatever
\* ran at the same time: the revocation deletes every row that stands, in one transaction.
SessionsPostdateRevocation == \A k \in sessions : tokens[k].after = revs[tokens[k].user]

\* A request about to issue tokens for a deactivated account began before the deactivation:
\* login and refresh both read the flag, refresh after it has claimed its session.
LockedOutOnlyInFlight ==
    \A r \in Requests :
        At(r, "issueTokens") /\ users[task[r].user] = "inactive" => task[r].since < revs[task[r].user]

\* Without overlaps, lost answers or reloads in flight, the token a browser keeps is live
\* unless its account was revoked since: every rotation reaches the storage.
StoredIsLive ==
    Alone /\ ~lost /\ Quiet /\ stored # 0 =>
        stored \in sessions \/ tokens[stored].after < revs[tokens[stored].user]

\* Under the same conditions a browser leaves no session behind: what is live is what it
\* stores, or was stored under a later sign-in. In particular logging out revokes.
LoggedOutIsRevoked ==
    Alone /\ ~lost /\ Quiet => sessions \ displaced \subseteq {stored}

\* The state of a sign-in, told from its bearers: live tokens, and exchanges between the
\* claim of one token and the issue of the next.
LiveOf(i) == {k \in sessions : tokens[k].line = i}
InExchange(i) ==
    {r \in Requests : /\ task[r].kind \in Exchanges
                      /\ At(r, "active") \/ At(r, "issueTokens")
                      /\ tokens[task[r].token].line = i}
SignInPhase(i) ==
    LET bearers == Cardinality(LiveOf(i)) + Cardinality(InExchange(i)) IN
    IF tokens[i].line # i THEN "new"
    ELSE IF bearers = 0 THEN "ended"
    ELSE IF bearers > 1 THEN "shared"
    ELSE IF LiveOf(i) # {} THEN "held" ELSE "exchanging"

SignIn == INSTANCE SignIns WITH Ids <- Tokens, phase <- [i \in Tokens |-> SignInPhase(i)]

\* The session table keeps the promise of SignIns.tla under every interleaving, restart and
\* lost answer: one bearer per sign-in, and no way back once it has ended.
ImplementsSignIns == SignIn!Spec
=============================================================================
