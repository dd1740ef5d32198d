---------------------------- MODULE HiringProofs ----------------------------
(***************************************************************************)
(* Theorems about Hiring.tla for any number of requests, applications and  *)
(* documents. Inv relates what a running handler is going to write to what *)
(* stands in the tables, under every interleaving and restart; Serial adds *)
(* what holds while requests do not overlap.                               *)
(***************************************************************************)
EXTENDS Hiring, TLAPS

\* What a handler has still to execute when it is about to execute the first of it.
MoveLists ==
    {<<"select", "askDefaults", "latest", "move">>, <<"askDefaults", "latest", "move">>,
     <<"latest", "move">>, <<"move">>,
     <<"checkOffer", "draft", "send", "latest", "move">>, <<"draft", "send", "latest", "move">>,
     <<"send", "latest", "move">>, <<"answer", "latest", "move">>, <<"join", "latest", "move">>}
OtherLists ==
    {<<"logVerdict", "verdict", "handOff">>, <<"verdict", "handOff">>, <<"verdict">>, <<"handOff">>,
     <<"withdraw">>, <<"settle">>, <<"forward">>, <<"approve">>, <<"draft">>, <<"answer">>}
Lists == MoveLists \union OtherLists

Starts(t, S) == t.todo # <<>> /\ Head(t.todo) \in S

\* What the task of a running handler may rely on.
Agrees(t) ==
    /\ t.todo \in Lists \union {<<>>}
    /\ t.todo = <<>> => t.doc = {}
    /\ t.todo \in Lists \ {<<"verdict">>} => t.app \in Apps
    /\ Starts(t, {"logVerdict", "verdict"}) => t.verdict \in Verdicts
    /\ t.todo \in MoveLists => t.to \in Stages /\ (t.to = "MARKED" => logged[t.app] # "none")
    /\ t.to = "SELECTED" /\ t.todo # <<>> => t.app \in selected \/ byHand
    /\ t.to = "JOINED" /\ t.todo # <<>> => t.app \in accepted \/ byHand
    /\ Starts(t, {"join"}) => t.to = "JOINED" /\ t.app \in accepted
    /\ Starts(t, {"draft"}) => t.app \in selected \/ byHand
    /\ Starts(t, {"send"}) => offer[t.app] # "none"
    /\ Starts(t, {"answer"}) => offer[t.app] \notin {"none", "Draft"}
TasksAgree == \A r \in Requests : Agrees(task[r])

\* What the tables and the status log say of a selection, an offer and a joining.
Recorded ==
    /\ \A a \in Apps : offer[a] # "none" => a \in selected \/ byHand
    /\ \A a \in Apps : offer[a] = "Accepted" => a \in accepted
    /\ joined \subseteq accepted
    /\ \A a \in Apps : status[a] = "SELECTED" \/ logged[a] = "SELECTED" => a \in selected \/ byHand
    /\ \A a \in Apps : status[a] = "JOINED" \/ logged[a] = "JOINED" => a \in accepted \/ byHand
    /\ \A a \in Apps : status[a] # "none" => logged[a] # "none"

\* TypeOK, but for the running handlers.
DataOK ==
    /\ status \in [Apps -> Stages \union {"none"}]
    /\ logged \in [Apps -> (Stages \ {"MARKED"}) \union {"none"}]
    /\ aside \subseteq Apps
    /\ latest \in [app : Apps \union {NoApp}, status : Stages \union {"none"}]
    /\ owner \in [Docs -> Apps \union {Candidate, NotAsked}]
    /\ flag \in [Docs -> Flags]
    /\ stale \subseteq Docs
    /\ selected \subseteq Apps /\ forwarded \subseteq Apps /\ approved \subseteq Apps /\ joined \subseteq Apps
    /\ newest \in Apps \union {NoApp}
    /\ approvals \in [Apps -> SUBSET Docs]
    /\ offer \in [Apps -> {"none", "Draft", "Sent", "Accepted", "Rejected"}]
    /\ accepted \subseteq Apps
    /\ overlaps \in Nat /\ stopped \in BOOLEAN /\ byHand \in BOOLEAN /\ beyond \subseteq Detours

Inv == DataOK /\ task \in [Requests -> Task] /\ TasksAgree /\ Recorded

\* What running handlers rely on is never taken back.
Grows ==
    /\ selected \subseteq selected' /\ accepted \subseteq accepted' /\ (byHand => byHand')
    /\ \A a \in Apps : offer[a] # "none" => offer'[a] # "none"
    /\ \A a \in Apps : offer[a] \notin {"none", "Draft"} => offer'[a] \notin {"none", "Draft"}
    /\ \A a \in Apps : logged[a] # "none" => logged'[a] # "none"

-----------------------------------------------------------------------------
(* Lists of statements.                                                    *)

LEMMA ListOf ==
    ASSUME NEW l \in Lists
    PROVE  /\ l # <<>>
           /\ Head(l) = "select" => l = <<"select", "askDefaults", "latest", "move">>
           /\ Head(l) = "askDefaults" => l = <<"askDefaults", "latest", "move">>
           /\ Head(l) = "latest" => l = <<"latest", "move">>
           /\ Head(l) = "move" => l = <<"move">>
           /\ Head(l) = "logVerdict" => l = <<"logVerdict", "verdict", "handOff">>
           /\ Head(l) = "verdict" => l = <<"verdict">> \/ l = <<"verdict", "handOff">>
           /\ Head(l) = "checkOffer" => l = <<"checkOffer", "draft", "send", "latest", "move">>
           /\ Head(l) = "draft" => l = <<"draft">> \/ l = <<"draft", "send", "latest", "move">>
           /\ Head(l) = "send" => l = <<"send", "latest", "move">>
           /\ Head(l) = "answer" => l = <<"answer">> \/ l = <<"answer", "latest", "move">>
           /\ Head(l) = "join" => l = <<"join", "latest", "move">>
           /\ Head(l) \in {"handOff", "withdraw", "settle", "forward", "approve"} => l = <<Head(l)>>
           /\ Head(l) \in Statements
BY DEF Lists, MoveLists, OtherLists, Statements

LEMMA ListType == \A l \in Lists \union {<<>>} : l \in Seq(Statements)
<1>1. /\ <<>> \in Seq(Statements)
      /\ <<"select", "askDefaults", "latest", "move">> \in Seq(Statements)
      /\ <<"askDefaults", "latest", "move">> \in Seq(Statements)
      /\ <<"latest", "move">> \in Seq(Statements) /\ <<"move">> \in Seq(Statements)
      /\ <<"checkOffer", "draft", "send", "latest", "move">> \in Seq(Statements)
      /\ <<"draft", "send", "latest", "move">> \in Seq(Statements)
      /\ <<"send", "latest", "move">> \in Seq(Statements)
      /\ <<"answer", "latest", "move">> \in Seq(Statements)
      /\ <<"join", "latest", "move">> \in Seq(Statements)
      /\ <<"logVerdict", "verdict", "handOff">> \in Seq(Statements)
      /\ <<"verdict", "handOff">> \in Seq(Statements) /\ <<"verdict">> \in Seq(Statements)
      /\ <<"handOff">> \in Seq(Statements) /\ <<"withdraw">> \in Seq(Statements)
      /\ <<"settle">> \in Seq(Statements) /\ <<"forward">> \in Seq(Statements)
      /\ <<"approve">> \in Seq(Statements) /\ <<"draft">> \in Seq(Statements)
      /\ <<"answer">> \in Seq(Statements)
    BY DEF Statements
<1> QED
    BY <1>1 DEF Lists, MoveLists, OtherLists

\* What remains of a list when its first statement was executed.
LEMMA TailOf ==
    ASSUME NEW l \in Lists
    PROVE  /\ Head(l) = "select" => Tail(l) = <<"askDefaults", "latest", "move">>
           /\ Head(l) \in {"askDefaults", "send", "join"} => Tail(l) = <<"latest", "move">>
           /\ Head(l) = "latest" => Tail(l) = <<"move">>
           /\ Head(l) = "logVerdict" => Tail(l) = <<"verdict", "handOff">>
           /\ Head(l) = "verdict" => Tail(l) = <<>> \/ Tail(l) = <<"handOff">>
           /\ Head(l) = "checkOffer" => Tail(l) = <<"draft", "send", "latest", "move">>
           /\ Head(l) = "draft" => Tail(l) = <<>> \/ (Tail(l) = <<"send", "latest", "move">> /\ l \in MoveLists)
           /\ Head(l) = "answer" => Tail(l) = <<>> \/ (Tail(l) = <<"latest", "move">> /\ l \in MoveLists)
           /\ Head(l) \in {"move", "handOff", "withdraw", "settle", "forward", "approve"} => Tail(l) = <<>>
<1>1. /\ Tail(<<"select", "askDefaults", "latest", "move">>) = <<"askDefaults", "latest", "move">>
      /\ Tail(<<"askDefaults", "latest", "move">>) = <<"latest", "move">>
      /\ Tail(<<"send", "latest", "move">>) = <<"latest", "move">>
      /\ Tail(<<"join", "latest", "move">>) = <<"latest", "move">>
      /\ Tail(<<"answer", "latest", "move">>) = <<"latest", "move">>
      /\ Tail(<<"latest", "move">>) = <<"move">>
      /\ Tail(<<"logVerdict", "verdict", "handOff">>) = <<"verdict", "handOff">>
      /\ Tail(<<"verdict", "handOff">>) = <<"handOff">>
      /\ Tail(<<"checkOffer", "draft", "send", "latest", "move">>) = <<"draft", "send", "latest", "move">>
      /\ Tail(<<"draft", "send", "latest", "move">>) = <<"send", "latest", "move">>
      /\ \A s : Tail(<<s>>) = <<>>
    OBVIOUS
<1>2. /\ Head(l) = "select" => Tail(l) = <<"askDefaults", "latest", "move">>
      /\ Head(l) \in {"askDefaults", "send", "join"} => Tail(l) = <<"latest", "move">>
      /\ Head(l) = "latest" => Tail(l) = <<"move">>
    BY <1>1, ListOf
<1>3. /\ Head(l) = "logVerdict" => Tail(l) = <<"verdict", "handOff">>
      /\ Head(l) = "verdict" => Tail(l) = <<>> \/ Tail(l) = <<"handOff">>
      /\ Head(l) = "checkOffer" => Tail(l) = <<"draft", "send", "latest", "move">>
    BY <1>1, ListOf
<1>4. Head(l) = "draft" => Tail(l) = <<>> \/ (Tail(l) = <<"send", "latest", "move">> /\ l \in MoveLists)
    BY <1>1, ListOf DEF MoveLists
<1>5. Head(l) = "answer" => Tail(l) = <<>> \/ (Tail(l) = <<"latest", "move">> /\ l \in MoveLists)
    BY <1>1, ListOf DEF MoveLists
<1>6. Head(l) \in {"move", "handOff", "withdraw", "settle", "forward", "approve"} => Tail(l) = <<>>
    BY <1>1, ListOf
<1> QED
    BY <1>2, <1>3, <1>4, <1>5, <1>6

\* A list that remains is for an application, and moves it if the whole list did.
LEMMA TailList ==
    ASSUME NEW l \in Lists
    PROVE  /\ Tail(l) \in Lists \union {<<>>}
           /\ Tail(l) # <<>> => l # <<"verdict">> /\ Tail(l) # <<"verdict">>
           /\ Tail(l) \in MoveLists => l \in MoveLists
<1>1. Head(l) \in Statements /\ l # <<>>
    BY ListOf
<1>2. Tail(l) \in Lists \union {<<>>}
    BY <1>1, TailOf DEF Lists, MoveLists, OtherLists, Statements
<1>3. Tail(<<"verdict">>) = <<>>
    OBVIOUS
<1>4. Tail(l) # <<"verdict">>
  <2>1. /\ <<"verdict", "handOff">> # <<"verdict">> /\ <<"handOff">> # <<"verdict">>
        /\ <<"askDefaults", "latest", "move">> # <<"verdict">> /\ <<"latest", "move">> # <<"verdict">>
        /\ <<"draft", "send", "latest", "move">> # <<"verdict">> /\ <<"move">> # <<"verdict">>
        /\ <<"send", "latest", "move">> # <<"verdict">> /\ <<>> # <<"verdict">>
      OBVIOUS
  <2> QED
      BY <1>1, <2>1, TailOf DEF Statements
<1>5. ASSUME Tail(l) \in MoveLists PROVE l \in MoveLists
  <2>1. Tail(l) # <<>> /\ Tail(l) # <<"handOff">> /\ Tail(l) # <<"verdict", "handOff">>
    <3>1. \A m \in MoveLists : m # <<>> /\ Head(m) \notin {"handOff", "verdict"}
        BY DEF MoveLists
    <3>2. Head(<<"handOff">>) = "handOff" /\ Head(<<"verdict", "handOff">>) = "verdict"
        OBVIOUS
    <3> QED
        BY <1>5, <3>1, <3>2
  <2>2. Head(l) \in {"select", "askDefaults", "send", "join", "latest", "checkOffer", "draft", "answer"}
      BY <1>1, <2>1, TailOf DEF Statements
  <2> QED
      BY <2>1, <2>2, ListOf, TailOf DEF MoveLists
<1> QED
    BY <1>2, <1>3, <1>4, <1>5

-----------------------------------------------------------------------------
(* Tasks.                                                                  *)

LEMMA RestingType == Resting \in Task /\ Resting.todo = <<>> /\ Resting.doc = {} /\ Agrees(Resting)
<1>1. Resting \in Task
    BY DEF Resting, Task
<1>2. Resting.todo = <<>> /\ Resting.doc = {}
    BY DEF Resting
<1>3. <<>> \notin Lists
    BY ListOf
<1> QED
    BY <1>1, <1>2, <1>3 DEF Agrees, Starts, Lists

LEMMA Running ==
    ASSUME Inv, NEW r \in Requests, NEW s, At(r, s)
    PROVE  /\ task[r] \in Task /\ Agrees(task[r])
           /\ task[r].todo \in Lists /\ Head(task[r].todo) = s /\ task[r].todo # <<>>
           /\ s # "verdict" => task[r].app \in Apps
<1>1. task[r] \in Task /\ Agrees(task[r]) /\ task[r].todo \in Lists /\ Head(task[r].todo) = s
    BY DEF Inv, TasksAgree, Agrees, At
<1>2. Head(<<"verdict">>) = "verdict"
    OBVIOUS
<1> QED
    BY <1>1, <1>2 DEF Agrees, At

LEMMA RestOf ==
    ASSUME Inv, NEW r \in Requests, NEW s, At(r, s)
    PROVE  /\ Rest(task[r]) \in Task
           /\ Rest(task[r]).todo = Tail(task[r].todo)
           /\ Tail(task[r].todo) = <<>> => Rest(task[r]) = Resting
           /\ Tail(task[r].todo) # <<>> =>
                  /\ Rest(task[r]).app = task[r].app /\ Rest(task[r]).to = task[r].to
                  /\ Rest(task[r]).verdict = task[r].verdict /\ Rest(task[r]).doc = task[r].doc
                  /\ Rest(task[r]).file = task[r].file /\ Rest(task[r]).points = task[r].points
                  /\ Rest(task[r]).accept = task[r].accept
<1>1. task[r] \in Task /\ task[r].todo \in Lists
    BY Running
<1>2. Tail(task[r].todo) \in Seq(Statements)
    BY <1>1, TailList, ListType
<1> QED
    BY <1>1, <1>2, RestingType DEF Rest, Task

\* What a task relies on stays as the tables grow.
LEMMA Stable ==
    ASSUME NEW t, Agrees(t), Grows
    PROVE  Agrees(t)'
<1>1. Starts(t, {"send", "answer"}) \/ t.todo \in MoveLists => t.app \in Apps
  <2>1. Head(<<"verdict">>) = "verdict" /\ <<"verdict">> \notin MoveLists
      BY DEF MoveLists
  <2> QED
      BY <2>1 DEF Agrees, Starts, Lists
<1> QED
    BY <1>1 DEF Agrees, Grows, Starts

\* Fields a task relies on.
LEMMA SameAgrees ==
    ASSUME NEW t, NEW x, Agrees(t)', x.todo = t.todo, x.app = t.app, x.verdict = t.verdict, x.to = t.to,
           x.todo = <<>> => x.doc = {}
    PROVE  Agrees(x)'
BY DEF Agrees, Starts

\* A handler that goes on may rely on what it did.
LEMMA RestAgrees ==
    ASSUME Inv, NEW r \in Requests, NEW s, At(r, s), Grows, NEW x, x = Rest(task[r]),
           s = "checkOffer" => task[r].app \in selected' \/ byHand',
           s = "draft" => offer'[task[r].app] # "none"
    PROVE  Agrees(x)'
<1> DEFINE l == task[r].todo
<1>1. task[r] \in Task /\ Agrees(task[r]) /\ l \in Lists /\ Head(l) = s /\ s \in Statements
    BY Running, ListOf
<1>2. x \in Task /\ x.todo = Tail(l)
    BY RestOf
<1>3. CASE Tail(l) = <<>>
  <2>1. x.todo = <<>> /\ x.doc = {}
      BY <1>3, RestOf, RestingType
  <2>2. <<>> \notin Lists /\ <<>> \notin MoveLists
      BY ListOf DEF Lists
  <2> QED
      BY <2>1, <2>2 DEF Agrees, Starts
<1>4. CASE Tail(l) # <<>>
  <2>1. x.app = task[r].app /\ x.to = task[r].to /\ x.verdict = task[r].verdict
      BY <1>4, RestOf
  <2>2. l # <<"verdict">> /\ x.todo \in Lists \ {<<"verdict">>} /\ (x.todo \in MoveLists => l \in MoveLists)
      BY <1>1, <1>2, <1>4, TailList
  <2>3. x.app \in Apps /\ (x.todo \in MoveLists => x.to \in Stages /\ (x.to = "MARKED" => logged'[x.app] # "none"))
      BY <1>1, <2>1, <2>2 DEF Agrees, Grows
  <2>4. /\ s = "select" => Head(x.todo) = "askDefaults"
        /\ s \in {"askDefaults", "send", "join", "answer"} => Head(x.todo) = "latest"
        /\ s = "latest" => Head(x.todo) = "move"
        /\ s = "logVerdict" => Head(x.todo) = "verdict"
        /\ s = "verdict" => Head(x.todo) = "handOff"
        /\ s = "checkOffer" => Head(x.todo) = "draft"
        /\ s = "draft" => Head(x.todo) = "send"
        /\ s \in {"select", "askDefaults", "send", "join", "answer", "latest", "logVerdict", "verdict",
                  "checkOffer", "draft"}
    <3>1. Head(<<"draft", "send", "latest", "move">>) = "draft"
          /\ Head(<<"askDefaults", "latest", "move">>) = "askDefaults"
        OBVIOUS
    <3>2. /\ s = "select" => x.todo = <<"askDefaults", "latest", "move">>
          /\ s \in {"askDefaults", "send", "join", "answer"} => x.todo = <<"latest", "move">>
          /\ s = "latest" => x.todo = <<"move">>
          /\ s = "logVerdict" => x.todo = <<"verdict", "handOff">>
          /\ s = "verdict" => x.todo = <<"handOff">>
          /\ s = "checkOffer" => x.todo = <<"draft", "send", "latest", "move">>
          /\ s = "draft" => x.todo = <<"send", "latest", "move">>
          /\ s \notin {"move", "handOff", "withdraw", "settle", "forward", "approve"}
        BY <1>1, <1>2, <1>4, TailOf
    <3> QED
        BY <1>1, <3>1, <3>2 DEF Statements
  <2>5. x.to = "SELECTED" => x.app \in selected' \/ byHand'
      BY <1>1, <2>1, ListOf DEF Agrees, Grows
  <2>6. x.to = "JOINED" => x.app \in accepted' \/ byHand'
      BY <1>1, <2>1, ListOf DEF Agrees, Grows
  <2>7. Starts(x, {"logVerdict", "verdict"}) => x.verdict \in Verdicts
    <3>1. Starts(x, {"logVerdict", "verdict"}) => s = "logVerdict"
        BY <2>4 DEF Starts
    <3> QED
        BY <1>1, <2>1, <3>1, ListOf DEF Agrees, Starts
  <2>8. ~Starts(x, {"join", "answer"})
      BY <2>4 DEF Starts
  <2>9. Starts(x, {"draft"}) => s = "checkOffer"
      BY <2>4 DEF Starts
  <2>10. Starts(x, {"send"}) => s = "draft"
      BY <2>4 DEF Starts
  <2>11. x.todo # <<>>
      BY <1>2, <1>4
  <2> QED
      BY <2>1, <2>2, <2>3, <2>5, <2>6, <2>7, <2>8, <2>9, <2>10, <2>11 DEF Agrees, Starts
<1> QED
    BY <1>3, <1>4

-----------------------------------------------------------------------------
(* Steps.                                                                  *)

LEMMA TaskStep ==
    ASSUME Inv, NEW r \in Requests, NEW t \in Task, Agrees(t)', Grows,
           task' = [task EXCEPT ![r] = t], DataOK', Recorded'
    PROVE  Inv'
<1>1. task' \in [Requests -> Task]
    BY DEF Inv
<1>2. ASSUME NEW q \in Requests PROVE Agrees(task[q])'
  <2>1. CASE q = r
    <3>1. task'[q] = t
        BY <2>1 DEF Inv
    <3> QED
        BY <3>1 DEF Agrees, Starts
  <2>2. CASE q # r
    <3>1. PICK u : u = task[q]
        OBVIOUS
    <3>2. Agrees(u)' /\ task'[q] = u
        BY <2>2, <3>1, Stable DEF Inv, TasksAgree
    <3> QED
        BY <3>2 DEF Agrees, Starts
  <2> QED
      BY <2>1, <2>2
<1> QED
    BY <1>1, <1>2 DEF Inv, TasksAgree

LEMMA GoOn ==
    ASSUME Inv, NEW r \in Requests, NEW s, At(r, s), Continue(r), Grows, DataOK', Recorded',
           s = "checkOffer" => task[r].app \in selected' \/ byHand',
           s = "draft" => offer'[task[r].app] # "none"
    PROVE  Inv'
<1>1. PICK x : x = Rest(task[r])
    OBVIOUS
<1>2. x \in Task /\ task' = [task EXCEPT ![r] = x]
    BY <1>1, RestOf DEF Continue
<1>3. Agrees(x)'
    BY <1>1, RestAgrees
<1> QED
    BY <1>2, <1>3, TaskStep

LEMMA GiveUp ==
    ASSUME Inv, NEW r \in Requests, Finish(r), Grows, DataOK', Recorded'
    PROVE  Inv'
<1>1. PICK x : x = Resting
    OBVIOUS
<1>2. x \in Task /\ Agrees(x) /\ task' = [task EXCEPT ![r] = x]
    BY <1>1, RestingType DEF Finish
<1>3. Agrees(x)'
    BY <1>2, Stable
<1> QED
    BY <1>2, <1>3, TaskStep

LEMMA Still ==
    ASSUME Inv, UNCHANGED <<statusVars, docVars, handOffVars, hiringVars, offerVars, byHand>>,
           overlaps' \in Nat, stopped' \in BOOLEAN, beyond' \subseteq Detours
    PROVE  Grows /\ DataOK' /\ Recorded'
BY DEF Inv, DataOK, Recorded, Grows, statusVars, docVars, handOffVars, hiringVars, offerVars

\* Writes to the status and selection; to the documents and hand-off; to the offer.
LEMMA ReadLatestKeeps == ASSUME Inv, NEW r \in Requests, ReadLatest(r) PROVE Inv'
<1>1. /\ At(r, "latest") /\ Grows /\ DataOK' /\ Recorded'
      /\ task' = [task EXCEPT ![r] = [Rest(@) EXCEPT !.points = (latest.app = task[r].app)]]
    BY Still DEF ReadLatest, runVars, Inv, DataOK
<1>2. PICK y : y = Rest(task[r])
    OBVIOUS
<1>3. PICK x : x = [y EXCEPT !.points = (latest.app = task[r].app)]
    OBVIOUS
<1>4. y \in Task /\ Agrees(y)'
    BY <1>1, <1>2, RestOf, RestAgrees
<1>5. x \in Task /\ x.todo = y.todo /\ x.app = y.app /\ x.verdict = y.verdict /\ x.to = y.to /\ x.doc = y.doc
    BY <1>3, <1>4 DEF Task
<1>6. Agrees(x)'
  <2>1. y.todo = <<>> => y.doc = {}
      BY <1>4 DEF Agrees
  <2> QED
      BY <1>4, <1>5, <2>1, SameAgrees
<1>7. task' = [task EXCEPT ![r] = x]
    BY <1>1, <1>2, <1>3
<1> QED
    BY <1>1, <1>5, <1>6, <1>7, TaskStep

LEMMA MoveKeeps == ASSUME Inv, NEW r \in Requests, Move(r) PROVE Inv'
<1>1. At(r, "move") /\ Continue(r)
    BY DEF Move
<1>2. /\ Agrees(task[r]) /\ task[r] \in Task /\ task[r].app \in Apps /\ task[r].to \in Stages
      /\ task[r].to = "SELECTED" => task[r].app \in selected \/ byHand
      /\ task[r].to = "JOINED" => task[r].app \in accepted \/ byHand
      /\ task[r].to = "MARKED" => logged[task[r].app] # "none"
  <2>1. Agrees(task[r]) /\ task[r] \in Task /\ task[r].app \in Apps /\ task[r].todo \in Lists
        /\ Head(task[r].todo) = "move" /\ task[r].todo # <<>>
      BY <1>1, Running
  <2>2. task[r].todo = <<"move">> /\ <<"move">> \in MoveLists
      BY <2>1, ListOf DEF MoveLists
  <2> QED
      BY <2>1, <2>2 DEF Agrees, Starts
<1>3. logged' \in [Apps -> (Stages \ {"MARKED"}) \union {"none"}] /\ aside' \subseteq Apps
    BY <1>2 DEF Move, Inv, DataOK
<1>4. Grows
  <2>1. \A a \in Apps : logged[a] # "none" => logged'[a] # "none"
      BY <1>2 DEF Move, Inv, DataOK, Stages, OfferStages
  <2> QED
      BY <2>1 DEF Move, Grows, hiringVars, offerVars
<1>5. DataOK'
  <2>1. status' \in [Apps -> Stages \union {"none"}]
      BY <1>2 DEF Move, Inv, DataOK
  <2>2. latest' \in [app : Apps \union {NoApp}, status : Stages \union {"none"}]
      BY <1>2 DEF Move, Inv, DataOK
  <2> QED
      BY <1>3, <2>1, <2>2 DEF Move, Inv, DataOK, docVars, handOffVars, hiringVars, offerVars, runVars
<1>6. Recorded'
  <2>1. /\ UNCHANGED <<selected, offer, accepted, joined, byHand>> /\ Recorded
        /\ status' = [status EXCEPT ![task[r].app] = task[r].to]
        /\ logged' = IF task[r].to = "MARKED" THEN logged ELSE [logged EXCEPT ![task[r].app] = task[r].to]
        /\ status \in [Apps -> Stages \union {"none"}]
        /\ logged \in [Apps -> (Stages \ {"MARKED"}) \union {"none"}]
      BY DEF Move, Inv, DataOK, hiringVars, offerVars
  <2>2. \A a \in Apps : /\ status'[a] # status[a] => a = task[r].app /\ status'[a] = task[r].to
                        /\ logged'[a] # logged[a] => a = task[r].app /\ logged'[a] = task[r].to
      BY <1>2, <2>1
  <2>3. \A a \in Apps : status'[a] # "none" => logged'[a] # "none"
      BY <1>2, <2>1 DEF Recorded, Stages, OfferStages
  <2>4. \A a \in Apps : status'[a] = "SELECTED" \/ logged'[a] = "SELECTED" => a \in selected' \/ byHand'
      BY <1>2, <2>1, <2>2 DEF Recorded
  <2>5. \A a \in Apps : status'[a] = "JOINED" \/ logged'[a] = "JOINED" => a \in accepted' \/ byHand'
      BY <1>2, <2>1, <2>2 DEF Recorded
  <2> QED
      BY <2>1, <2>3, <2>4, <2>5 DEF Recorded
<1> QED
    BY <1>1, <1>4, <1>5, <1>6, GoOn

LEMMA SelectionKeeps ==
    ASSUME Inv, NEW r \in Requests, MarkSelected(r) \/ AskDefaults(r)
    PROVE  Inv'
<1>1. CASE MarkSelected(r)
  <2>1. At(r, "select") /\ Continue(r) /\ task[r].app \in Apps
      BY <1>1, Running DEF MarkSelected
  <2>2. Grows
      BY <1>1 DEF MarkSelected, Grows, statusVars, offerVars
  <2>3. DataOK'
      BY <1>1, <2>1 DEF MarkSelected, Inv, DataOK, docVars, handOffVars, statusVars, offerVars, runVars
  <2>4. Recorded'
      BY <1>1 DEF MarkSelected, Inv, Recorded, statusVars, offerVars
  <2> QED
      BY <2>1, <2>2, <2>3, <2>4, GoOn
<1>2. CASE AskDefaults(r)
  <2>1. At(r, "askDefaults") /\ Continue(r) /\ task[r].app \in Apps
      BY <1>2, Running DEF AskDefaults
  <2>2. Grows
      BY <1>2 DEF AskDefaults, Grows, statusVars, offerVars, hiringVars
  <2>3. owner' \in [Docs -> Apps \union {Candidate, NotAsked}]
      BY <1>2, <2>1 DEF AskDefaults, AskedBy, Inv, DataOK
  <2>4. DataOK' /\ Recorded'
      BY <1>2, <2>3 DEF AskDefaults, Inv, DataOK, Recorded, handOffVars, hiringVars, statusVars, offerVars, runVars
  <2> QED
      BY <2>1, <2>2, <2>4, GoOn
<1> QED
    BY <1>1, <1>2

LEMMA VerdictKeeps ==
    ASSUME Inv, NEW r \in Requests, LogVerdict(r) \/ Verdict(r)
    PROVE  Inv'
<1>1. CASE LogVerdict(r)
  <2>1. At(r, "logVerdict") /\ Continue(r) /\ task[r].app \in Apps /\ task[r] \in Task
      BY <1>1, Running DEF LogVerdict
  <2>2. Grows
      BY <1>1 DEF LogVerdict, Grows, statusVars, offerVars, hiringVars
  <2>3. approvals' \in [Apps -> SUBSET Docs]
      BY <1>1, <2>1 DEF LogVerdict, Inv, DataOK, Task
  <2>4. DataOK' /\ Recorded'
      BY <1>1, <2>3 DEF LogVerdict, Inv, DataOK, Recorded, docVars, hiringVars, statusVars, offerVars, runVars
  <2> QED
      BY <2>1, <2>2, <2>4, GoOn
<1>2. CASE Verdict(r)
  <2>1. /\ At(r, "verdict") /\ task[r] \in Task /\ Agrees(task[r]) /\ task[r].todo \in Lists
        /\ Head(task[r].todo) = "verdict" /\ task[r].todo # <<>>
      BY <1>2, Running DEF Verdict
  <2>2. task[r].verdict \in {"verified", "unverified"} /\ task[r].doc \subseteq Docs
      BY <2>1 DEF Agrees, Starts, Verdicts, Task
  <2>3. Grows
      BY <1>2 DEF Verdict, Grows, statusVars, offerVars, hiringVars
  <2>4. flag' \in [Docs -> Flags] /\ stale' \subseteq Docs
      BY <1>2, <2>2 DEF Verdict, Inv, DataOK, Flags
  <2>5. DataOK' /\ Recorded'
      BY <1>2, <2>4 DEF Verdict, Inv, DataOK, Recorded, handOffVars, hiringVars, statusVars, offerVars, runVars
  <2>6. CASE Tail(task[r].todo) = <<>>
    <3>1. Finish(r)
        BY <1>2, <2>6 DEF Verdict, Finish
    <3> QED
        BY <2>3, <2>5, <3>1, GiveUp
  <2>7. CASE Tail(task[r].todo) # <<>>
    <3>1. PICK y : y = Rest(task[r])
        OBVIOUS
    <3>2. PICK x : x = [y EXCEPT !.doc = {}, !.file = "asSeen"]
        OBVIOUS
    <3>3. y \in Task /\ Agrees(y)'
        BY <2>1, <2>3, <3>1, RestOf, RestAgrees
    <3>4. x \in Task /\ x.todo = y.todo /\ x.app = y.app /\ x.verdict = y.verdict /\ x.to = y.to /\ x.doc = {}
        BY <3>2, <3>3 DEF Task
    <3>5. task' = [task EXCEPT ![r] = x]
        BY <1>2, <2>7, <3>1, <3>2 DEF Verdict
    <3> QED
        BY <2>3, <2>5, <3>3, <3>4, <3>5, SameAgrees, TaskStep
  <2> QED
      BY <2>6, <2>7
<1> QED
    BY <1>1, <1>2

\* A handler whose next statement was decided by what it read.
LEMMA TurnKeeps ==
    ASSUME Inv, NEW r \in Requests, NEW s \in {"handOff", "settle"}, At(r, s),
           NEW next \in {"settle", "withdraw", "approve"}, task' = [task EXCEPT ![r].todo = <<next>>],
           Grows, DataOK', Recorded'
    PROVE  Inv'
<1>1. /\ task[r] \in Task /\ Agrees(task[r]) /\ task[r].app \in Apps /\ task[r].todo \in Lists
      /\ Head(task[r].todo) = s /\ task[r].todo # <<>>
    BY Running
<1>2. PICK x : x = [task[r] EXCEPT !.todo = <<next>>]
    OBVIOUS
<1>3. <<next>> \in Lists /\ <<next>> \notin MoveLists /\ <<next>> # <<>> /\ Head(<<next>>) = next
      /\ <<next>> \in Seq(Statements)
    BY DEF Lists, OtherLists, MoveLists, Statements
<1>4. x \in Task /\ x.todo = <<next>> /\ x.app = task[r].app /\ x.to = task[r].to
    BY <1>1, <1>2, <1>3 DEF Task
<1>5. Agrees(x)
    BY <1>1, <1>3, <1>4 DEF Agrees, Starts
<1>6. Agrees(x)'
    BY <1>5, Stable
<1>7. task' = [task EXCEPT ![r] = x]
    BY <1>1, <1>2 DEF Inv
<1> QED
    BY <1>4, <1>6, <1>7, TaskStep

LEMMA HandOffKeeps ==
    ASSUME Inv, NEW r \in Requests,
           ReadHandOff(r) \/ Withdraw(r) \/ Settle(r) \/ WriteForward(r) \/ WriteApprove(r)
    PROVE  Inv'
<1>1. CASE ReadHandOff(r) \/ Settle(r)
  <2>1. Grows /\ DataOK' /\ Recorded'
      BY <1>1, Still DEF ReadHandOff, Settle, runVars, Inv, DataOK
  <2>2. CASE Finish(r)
      BY <2>1, <2>2, GiveUp
  <2>3. CASE ReadHandOff(r) /\ ~Finish(r)
    <3>1. PICK next \in {"settle", "withdraw"} : task' = [task EXCEPT ![r].todo = <<next>>]
        BY <2>3 DEF ReadHandOff
    <3> QED
        BY <2>1, <2>3, <3>1, TurnKeeps DEF ReadHandOff
  <2>4. CASE Settle(r) /\ ~Finish(r)
      BY <2>1, <2>4, TurnKeeps DEF Settle
  <2> QED
      BY <1>1, <2>2, <2>3, <2>4
<1>2. CASE Withdraw(r) \/ WriteForward(r) \/ WriteApprove(r)
  <2>1. PICK s \in {"withdraw", "forward", "approve"} : At(r, s) /\ Continue(r)
      BY <1>2 DEF Withdraw, WriteForward, WriteApprove
  <2>2. task[r].app \in Apps
      BY <2>1, Running
  <2>3. Grows /\ Recorded'
      BY <1>2 DEF Withdraw, WriteForward, WriteApprove, Grows, Recorded, Inv, offerVars, hiringVars, statusVars
  <2>4. forwarded' \subseteq Apps /\ approved' \subseteq Apps
      BY <1>2, <2>2 DEF Withdraw, WriteForward, WriteApprove, Inv, DataOK
  <2>5. approvals' \in [Apps -> SUBSET Docs]
      BY <1>2, <2>2 DEF Withdraw, WriteForward, WriteApprove, Inv, DataOK
  <2>6. DataOK'
      BY <1>2, <2>4, <2>5
      DEF Withdraw, WriteForward, WriteApprove, Inv, DataOK, docVars, hiringVars, statusVars, offerVars, runVars
  <2> QED
      BY <2>1, <2>3, <2>6, GoOn
<1> QED
    BY <1>1, <1>2

LEMMA OfferKeeps ==
    ASSUME Inv, NEW r \in Requests,
           CheckOffer(r) \/ WriteDraft(r) \/ WriteSend(r) \/ WriteAnswer(r) \/ WriteJoin(r)
    PROVE  Inv'
<1>1. CASE CheckOffer(r)
  <2>1. Grows /\ DataOK' /\ Recorded'
      BY <1>1, Still DEF CheckOffer, runVars, Inv, DataOK
  <2>2. At(r, "checkOffer") /\ task[r].app \in Apps
      BY <1>1, Running DEF CheckOffer
  <2>3. CASE MayOffer(task[r].app)
    <3>1. task[r].app \in selected \/ byHand
        BY <2>2, <2>3 DEF MayOffer, Inv, Recorded
    <3> QED
        BY <1>1, <2>1, <2>2, <2>3, <3>1, GoOn DEF CheckOffer, Grows
  <2>4. CASE ~MayOffer(task[r].app)
      BY <1>1, <2>1, <2>4, GiveUp DEF CheckOffer
  <2> QED
      BY <2>3, <2>4
<1>2. CASE WriteDraft(r)
  <2>1. At(r, "draft") /\ task[r].app \in Apps /\ (task[r].app \in selected \/ byHand)
    <3>1. At(r, "draft")
        BY <1>2 DEF WriteDraft
    <3> QED
        BY <3>1, Running DEF Agrees, Starts
  <2>2. CASE offer[task[r].app] = "none"
    <3>1. offer' = [offer EXCEPT ![task[r].app] = "Draft"] /\ Continue(r)
        BY <1>2, <2>2 DEF WriteDraft
    <3>2. Grows /\ offer'[task[r].app] # "none"
        BY <1>2, <2>1, <2>2, <3>1 DEF WriteDraft, Grows, Inv, DataOK, statusVars, hiringVars
    <3>3. DataOK'
        BY <1>2, <2>1, <3>1
        DEF WriteDraft, Inv, DataOK, docVars, handOffVars, hiringVars, statusVars, runVars
    <3>4. Recorded'
        BY <1>2, <2>1, <3>1 DEF WriteDraft, Inv, DataOK, Recorded, hiringVars, statusVars
    <3> QED
        BY <2>1, <3>1, <3>2, <3>3, <3>4, GoOn
  <2>3. CASE offer[task[r].app] # "none"
    <3>1. Grows /\ DataOK' /\ Recorded'
        BY <1>2, <2>3, Still DEF WriteDraft, runVars, offerVars, Inv, DataOK
    <3> QED
        BY <1>2, <2>3, <3>1, GiveUp DEF WriteDraft
  <2> QED
      BY <2>2, <2>3
<1>3. CASE WriteSend(r)
  <2>1. At(r, "send") /\ Continue(r) /\ task[r].app \in Apps /\ offer[task[r].app] # "none"
    <3>1. At(r, "send") /\ Continue(r)
        BY <1>3 DEF WriteSend
    <3> QED
        BY <3>1, Running DEF Agrees, Starts
  <2>2. Grows
      BY <1>3, <2>1 DEF WriteSend, Grows, Inv, DataOK, statusVars, hiringVars
  <2>3. DataOK'
      BY <1>3, <2>1 DEF WriteSend, Inv, DataOK, docVars, handOffVars, hiringVars, statusVars, runVars
  <2>4. Recorded'
      BY <1>3, <2>1 DEF WriteSend, Inv, DataOK, Recorded, hiringVars, statusVars
  <2> QED
      BY <2>1, <2>2, <2>3, <2>4, GoOn
<1>4. CASE WriteAnswer(r)
  <2>1. At(r, "answer") /\ Continue(r) /\ task[r].app \in Apps /\ offer[task[r].app] \notin {"none", "Draft"}
    <3>1. At(r, "answer") /\ Continue(r)
        BY <1>4 DEF WriteAnswer
    <3> QED
        BY <3>1, Running DEF Agrees, Starts
  <2>2. Grows
      BY <1>4, <2>1 DEF WriteAnswer, Grows, Inv, DataOK, statusVars, hiringVars
  <2>3. DataOK'
      BY <1>4, <2>1 DEF WriteAnswer, Inv, DataOK, docVars, handOffVars, hiringVars, statusVars, runVars
  <2>4. Recorded'
      BY <1>4, <2>1 DEF WriteAnswer, Inv, DataOK, Recorded, hiringVars, statusVars
  <2> QED
      BY <2>1, <2>2, <2>3, <2>4, GoOn
<1>5. CASE WriteJoin(r)
  <2>1. At(r, "join") /\ Continue(r) /\ task[r].app \in Apps /\ task[r].app \in accepted
    <3>1. At(r, "join") /\ Continue(r)
        BY <1>5 DEF WriteJoin
    <3> QED
        BY <3>1, Running DEF Agrees, Starts
  <2>2. Grows
      BY <1>5 DEF WriteJoin, Grows, statusVars, hiringVars
  <2>3. DataOK' /\ Recorded'
      BY <1>5, <2>1 DEF WriteJoin, Inv, DataOK, Recorded, docVars, handOffVars, hiringVars, statusVars, runVars
  <2> QED
      BY <2>1, <2>2, <2>3, GoOn
<1> QED
    BY <1>1, <1>2, <1>3, <1>4, <1>5

-----------------------------------------------------------------------------
(* Starting a handler, and what takes one step.                            *)

LEMMA ArriveType == ASSUME Inv, Arrive PROVE overlaps' \in Nat
BY DEF Arrive, Inv, DataOK

LEMMA LaunchKeeps ==
    ASSUME Inv, NEW r \in Requests, NEW t \in Task, Launch(r, t), Agrees(t)',
           selected \subseteq selected', selected' \subseteq Apps, beyond' \subseteq Detours
    PROVE  Inv'
<1>1. Grows
    BY DEF Launch, Grows, statusVars, offerVars
<1>2. DataOK'
    BY ArriveType DEF Launch, Inv, DataOK, statusVars, docVars, handOffVars, offerVars
<1>3. Recorded'
    BY DEF Launch, Inv, Recorded, statusVars, offerVars
<1> QED
    BY <1>1, <1>2, <1>3, TaskStep DEF Launch

LEMMA BeginKeeps ==
    ASSUME Inv, NEW r \in Requests, NEW t \in Task, Agrees(t), Begin(r, t)
    PROVE  Inv'
<1>1. Launch(r, t) /\ UNCHANGED <<selected, beyond, accepted, byHand, offer, logged>>
    BY DEF Begin, Launch, statusVars, offerVars
<1>2. Grows
    BY <1>1 DEF Grows
<1>3. Agrees(t)'
    BY <1>2, Stable
<1> QED
    BY <1>1, <1>3, LaunchKeeps DEF Inv, DataOK

LEMMA StartKeeps ==
    ASSUME Inv, NEW r \in Requests, Start(r)
    PROVE  Inv'
<1> USE DEF Resting
<1>0. /\ <<>> \notin Lists /\ <<"handOff">> # <<"verdict">>
      /\ \A l \in {<<"select", "askDefaults", "latest", "move">>, <<"send", "latest", "move">>,
                   <<"checkOffer", "draft", "send", "latest", "move">>, <<"latest", "move">>,
                   <<"answer", "latest", "move">>, <<"join", "latest", "move">>} :
             l \in MoveLists /\ l \in Lists
      /\ \A l \in {<<"logVerdict", "verdict", "handOff">>, <<"verdict", "handOff">>, <<"verdict">>,
                   <<"forward">>, <<"approve">>, <<"draft">>, <<"answer">>} :
             l \notin MoveLists /\ l \in Lists
    BY ListOf DEF Lists, MoveLists, OtherLists
<1>1. ASSUME NEW a \in Apps, Select(r, a) PROVE Inv'
  <2>1. PICK t : t = [Resting EXCEPT !.app = a, !.to = "SELECTED",
                                     !.todo = <<"select", "askDefaults", "latest", "move">>]
      OBVIOUS
  <2>2. Launch(r, t) /\ selected' = selected \union {a} /\ UNCHANGED beyond
      BY <1>1, <2>1 DEF Select, Decided
  <2>3. /\ t.app = a /\ t.to = "SELECTED" /\ t.todo = <<"select", "askDefaults", "latest", "move">>
        /\ t.file = "asSeen" /\ t.doc = {} /\ t.verdict = "none" /\ t.points = FALSE /\ t.accept = FALSE
        /\ t \in Task
      BY <1>0, <2>1, ListType DEF Task, Stages, OfferStages
  <2>4. Head(t.todo) = "select" /\ t.todo # <<>>
      BY <2>3
  <2>5. Agrees(t)'
      BY <1>0, <2>2, <2>3, <2>4 DEF Agrees, Starts, Stages, OfferStages
  <2> QED
      BY <2>2, <2>3, <2>5, LaunchKeeps DEF Inv, DataOK
<1>2. ASSUME NEW a \in Apps, GenerateOffer(r, a) PROVE Inv'
  <2> DEFINE t == [Resting EXCEPT !.app = a, !.to = "OFFER_SENT",
                                  !.todo = <<"checkOffer", "draft", "send", "latest", "move">>]
  <2>1. Begin(r, t)
      BY <1>2 DEF GenerateOffer
  <2>2. /\ t.app = a /\ t.to = "OFFER_SENT" /\ t.todo = <<"checkOffer", "draft", "send", "latest", "move">>
        /\ t.file = "asSeen" /\ t.doc = {} /\ t.verdict = "none" /\ t.points = FALSE /\ t.accept = FALSE
        /\ t \in Task
      BY <1>0, ListType DEF Task, Stages, OfferStages
  <2> HIDE DEF t
  <2>3. Head(t.todo) = "checkOffer" /\ t.todo # <<>>
    <3>1. Head(<<"checkOffer", "draft", "send", "latest", "move">>) = "checkOffer"
          /\ <<"checkOffer", "draft", "send", "latest", "move">> # <<>>
        OBVIOUS
    <3> QED
        BY <2>2, <3>1
  <2>4. Agrees(t)
      BY <1>0, <2>2, <2>3 DEF Agrees, Starts, Stages, OfferStages
  <2> QED
      BY <2>1, <2>2, <2>4, BeginKeeps
<1>3. ASSUME NEW a \in Apps, SendOffer(r, a) PROVE Inv'
  <2> DEFINE t == [Resting EXCEPT !.app = a, !.to = "OFFER_SENT", !.todo = <<"send", "latest", "move">>]
  <2>1. Begin(r, t) /\ offer[a] # "none"
      BY <1>3 DEF SendOffer
  <2>2. /\ t.app = a /\ t.to = "OFFER_SENT" /\ t.todo = <<"send", "latest", "move">>
        /\ t.file = "asSeen" /\ t.doc = {} /\ t.verdict = "none" /\ t.points = FALSE /\ t.accept = FALSE
        /\ t \in Task
      BY <1>0, ListType DEF Task, Stages, OfferStages
  <2> HIDE DEF t
  <2>3. Head(t.todo) = "send" /\ t.todo # <<>>
      BY <2>2
  <2>4. Agrees(t)
      BY <1>0, <2>1, <2>2, <2>3 DEF Agrees, Starts, Stages, OfferStages
  <2> QED
      BY <2>1, <2>2, <2>4, BeginKeeps
<1>4. ASSUME NEW a \in Apps, NEW accept \in BOOLEAN, RespondToOffer(r, a, accept) PROVE Inv'
  <2> DEFINE t == [Resting EXCEPT !.app = a, !.accept = accept, !.to = IF accept THEN "OFFER_ACCEPTED" ELSE "none",
                                  !.todo = IF accept THEN <<"answer", "latest", "move">> ELSE <<"answer">>]
  <2>1. Begin(r, t) /\ offer[a] = "Sent"
      BY <1>4 DEF RespondToOffer
  <2>2. /\ t.app = a /\ t.to = (IF accept THEN "OFFER_ACCEPTED" ELSE "none")
        /\ t.todo = (IF accept THEN <<"answer", "latest", "move">> ELSE <<"answer">>)
        /\ t.file = "asSeen" /\ t.doc = {} /\ t.verdict = "none" /\ t.points = FALSE /\ t.accept = accept
        /\ t \in Task
      BY <1>0, ListType DEF Task, Stages, OfferStages
  <2> HIDE DEF t
  <2>3. Head(t.todo) = "answer" /\ t.todo # <<>>
    <3>1. /\ Head(<<"answer", "latest", "move">>) = "answer" /\ <<"answer", "latest", "move">> # <<>>
          /\ Head(<<"answer">>) = "answer" /\ <<"answer">> # <<>>
        OBVIOUS
    <3> QED
        BY <2>2, <3>1
  <2>4. t.todo \in Lists /\ (t.todo \in MoveLists => t.to \in Stages)
      BY <1>0, <2>2 DEF Stages, OfferStages
  <2>5. t.to \in Stages \union {"none"} /\ t.to \notin {"SELECTED", "JOINED"}
      BY <2>2 DEF Stages, OfferStages
  <2>6. Agrees(t)
      BY <2>1, <2>2, <2>3, <2>4, <2>5 DEF Agrees, Starts
  <2> QED
      BY <2>1, <2>2, <2>6, BeginKeeps
<1>5. ASSUME NEW a \in Apps, Joined(r, a) PROVE Inv'
  <2> DEFINE t == [Resting EXCEPT !.app = a, !.to = "JOINED", !.todo = <<"join", "latest", "move">>]
  <2>1. Begin(r, t) /\ a \in accepted
      BY <1>5 DEF Joined, Inv, Recorded
  <2>2. /\ t.app = a /\ t.to = "JOINED" /\ t.todo = <<"join", "latest", "move">>
        /\ t.file = "asSeen" /\ t.doc = {} /\ t.verdict = "none" /\ t.points = FALSE /\ t.accept = FALSE
        /\ t \in Task
      BY <1>0, ListType DEF Task, Stages, OfferStages
  <2> HIDE DEF t
  <2>3. Head(t.todo) = "join" /\ t.todo # <<>>
      BY <2>2
  <2>4. Agrees(t)
      BY <1>0, <2>1, <2>2, <2>3 DEF Agrees, Starts, Stages, OfferStages
  <2> QED
      BY <2>1, <2>2, <2>4, BeginKeeps
<1>6. ASSUME NEW a \in Apps, MarkJoined(r, a) PROVE Inv'
  <2> DEFINE t == [Resting EXCEPT !.app = a, !.to = "JOINED", !.todo = <<"latest", "move">>]
  <2>1. Begin(r, t) /\ a \in accepted
      BY <1>6 DEF MarkJoined, Inv, Recorded
  <2>2. /\ t.app = a /\ t.to = "JOINED" /\ t.todo = <<"latest", "move">>
        /\ t.file = "asSeen" /\ t.doc = {} /\ t.verdict = "none" /\ t.points = FALSE /\ t.accept = FALSE
        /\ t \in Task
      BY <1>0, ListType DEF Task, Stages, OfferStages
  <2> HIDE DEF t
  <2>3. Head(t.todo) = "latest" /\ t.todo # <<>>
      BY <2>2
  <2>4. Agrees(t)
      BY <1>0, <2>1, <2>2, <2>3 DEF Agrees, Starts, Stages, OfferStages
  <2> QED
      BY <2>1, <2>2, <2>4, BeginKeeps
<1>7. ASSUME NEW a \in Apps, NEW s \in {"forward", "approve"},
             Begin(r, [Resting EXCEPT !.app = a, !.todo = <<s>>])
      PROVE  Inv'
  <2> DEFINE t == [Resting EXCEPT !.app = a, !.todo = <<s>>]
  <2>2. /\ t.app = a /\ t.to = "none" /\ t.todo = <<s>>
        /\ t.file = "asSeen" /\ t.doc = {} /\ t.verdict = "none" /\ t.points = FALSE /\ t.accept = FALSE
        /\ t \in Task
      BY <1>0, ListType DEF Task, Stages, OfferStages
  <2> HIDE DEF t
  <2>3. Head(t.todo) = s /\ t.todo # <<>> /\ t.todo \in Lists /\ t.todo \notin MoveLists
      BY <1>0, <2>2
  <2>4. Agrees(t)
      BY <2>2, <2>3 DEF Agrees, Starts
  <2> QED
      BY <1>7, <2>2, <2>4, BeginKeeps DEF t
<1>8. ASSUME NEW a \in Apps, CreateOffer(r, a) PROVE Inv'
  <2> DEFINE t == [Resting EXCEPT !.app = a, !.todo = <<"draft">>]
  <2>1. Begin(r, t) /\ (a \in selected \/ byHand)
      BY <1>8 DEF CreateOffer, MayOffer, Inv, Recorded
  <2>2. /\ t.app = a /\ t.to = "none" /\ t.todo = <<"draft">>
        /\ t.file = "asSeen" /\ t.doc = {} /\ t.verdict = "none" /\ t.points = FALSE /\ t.accept = FALSE
        /\ t \in Task
      BY <1>0, ListType DEF Task, Stages, OfferStages
  <2> HIDE DEF t
  <2>3. Head(t.todo) = "draft" /\ t.todo # <<>> /\ t.todo \in Lists /\ t.todo \notin MoveLists
      BY <1>0, <2>2
  <2>4. Agrees(t)
      BY <2>1, <2>2, <2>3 DEF Agrees, Starts
  <2> QED
      BY <2>1, <2>2, <2>4, BeginKeeps
<1>9. ASSUME NEW a \in Apps \union {NoApp}, NEW d \in Docs, NEW v \in Verdicts,
             NEW l \in {<<"logVerdict", "verdict", "handOff">>, <<"verdict", "handOff">>, <<"verdict">>},
             a = NoApp => l = <<"verdict">>,
             Begin(r, [Resting EXCEPT !.app = a, !.doc = {d}, !.verdict = v, !.todo = l])
      PROVE  Inv'
  <2> DEFINE t == [Resting EXCEPT !.app = a, !.doc = {d}, !.verdict = v, !.todo = l]
  <2>2. /\ t.app = a /\ t.to = "none" /\ t.todo = l
        /\ t.file = "asSeen" /\ t.doc = {d} /\ t.verdict = v /\ t.points = FALSE /\ t.accept = FALSE
        /\ t \in Task
      BY <1>0, ListType DEF Task, Verdicts
  <2> HIDE DEF t
  <2>3. Head(t.todo) \in {"verdict", "logVerdict"} /\ t.todo # <<>> /\ t.todo \in Lists /\ t.todo \notin MoveLists
      BY <1>0, <2>2
  <2>4. Agrees(t)
      BY <1>9, <2>2, <2>3 DEF Agrees, Starts
  <2> QED
      BY <1>9, <2>2, <2>4, BeginKeeps DEF t
<1>10. ASSUME NEW d \in Docs, NEW v \in Verdicts,
              Begin(r, [Resting EXCEPT !.doc = {d}, !.verdict = v, !.todo = <<"verdict">>])
       PROVE  Inv'
  <2> DEFINE t == [Resting EXCEPT !.doc = {d}, !.verdict = v, !.todo = <<"verdict">>]
  <2>1. /\ t.to = "none" /\ t.todo = <<"verdict">> /\ t.doc = {d} /\ t.verdict = v
        /\ t \in Task
      BY <1>0, ListType DEF Task, Verdicts
  <2> HIDE DEF t
  <2>2. Head(t.todo) = "verdict" /\ t.todo # <<>> /\ t.todo \in Lists /\ t.todo \notin MoveLists
      BY <1>0, <2>1
  <2>3. Agrees(t)
      BY <1>10, <2>1, <2>2 DEF Agrees, Starts
  <2> QED
      BY <1>10, <2>1, <2>3, BeginKeeps DEF t
<1> HIDE DEF Resting
<1>11. ASSUME NEW d \in Docs, SendBack(r, d) PROVE Inv'
  <2>1. PICK l \in {<<"verdict">>, <<"verdict", "handOff">>} :
            /\ l = IF MapOf(d) = NoApp THEN <<"verdict">> ELSE <<"verdict", "handOff">>
            /\ Begin(r, [Resting EXCEPT !.doc = {d}, !.app = MapOf(d), !.verdict = "unverified", !.todo = l])
      BY <1>11 DEF SendBack
  <2>2. [Resting EXCEPT !.doc = {d}, !.app = MapOf(d), !.verdict = "unverified", !.todo = l]
          = [Resting EXCEPT !.app = MapOf(d), !.doc = {d}, !.verdict = "unverified", !.todo = l]
      BY DEF Resting
  <2>3. MapOf(d) \in Apps \union {NoApp}
      BY DEF MapOf, Inv, DataOK
  <2> QED
      BY <1>9, <2>1, <2>2, <2>3 DEF Verdicts
<1>12. ASSUME NEW a \in Apps, NEW d \in Docs, NEW v \in Verdicts, ReviewApplicantDocument(r, a, d, v)
       PROVE  Inv'
  <2>1. Begin(r, [Resting EXCEPT !.app = a, !.doc = {d}, !.verdict = v, !.todo = <<"logVerdict", "verdict", "handOff">>])
      BY <1>12 DEF ReviewApplicantDocument
  <2>2. a # NoApp
      BY HiringAssumption
  <2> QED
      BY <1>9, <2>1, <2>2
<1>13. ASSUME NEW a \in Apps, Forward(r, a) \/ Approve(r, a) PROVE Inv'
    BY <1>7, <1>13 DEF Forward, Approve
<1>14. ASSUME NEW d \in Docs, NEW v \in Verdicts, Verify(r, d) \/ ReviewDocument(r, d, v)
       PROVE  Inv'
    BY <1>10, <1>14 DEF Verify, ReviewDocument, Verdicts
<1>15. Pursued \subseteq Apps /\ "verified" \in Verdicts
    BY HiringAssumption DEF Verdicts
<1>16. ASSUME NEW a \in Apps, NEW s \in Stages, MoveTo(r, a, s), selected' \in {selected, selected \union {a}},
              s = "SELECTED" => a \in selected' \/ byHand, s = "JOINED" => a \in accepted \/ byHand
       PROVE  Inv'
  <2>1. PICK t : t = [Resting EXCEPT !.app = a, !.to = s, !.todo = <<"latest", "move">>]
      OBVIOUS
  <2>2. Launch(r, t) /\ beyond' \subseteq Detours /\ logged[a] # "none" /\ UNCHANGED <<logged, byHand, accepted>>
      BY <1>16, <2>1 DEF MoveTo, GoBeyond, Applied, Detours, Inv, DataOK, Recorded, Launch, statusVars, offerVars
  <2>3. /\ t.app = a /\ t.to = s /\ t.todo = <<"latest", "move">>
        /\ t.file = "asSeen" /\ t.doc = {} /\ t.verdict = "none" /\ t.points = FALSE /\ t.accept = FALSE
        /\ t \in Task
      BY <1>0, <2>1, ListType DEF Task, Resting
  <2>4. Head(t.todo) = "latest" /\ t.todo # <<>>
      BY <2>3
  <2>5. Agrees(t)'
      BY <1>0, <1>16, <2>2, <2>3, <2>4 DEF Agrees, Starts
  <2>6. selected \subseteq selected' /\ selected' \subseteq Apps
      BY <1>16 DEF Inv, DataOK
  <2> QED
      BY <2>2, <2>3, <2>5, <2>6, LaunchKeeps
<1>17. {"MAPPED", "MARKED", "SELECTED"} \subseteq Stages
    BY DEF Stages
<1>18. ASSUME NEW a \in Apps, ScheduleInterview(r, a) \/ UpdateInterviewStatus(r, a) \/ CreateRound(r, a) PROVE Inv'
    BY <1>16, <1>17, <1>18 DEF ScheduleInterview, UpdateInterviewStatus, CreateRound
<1>19. ASSUME NEW a \in Apps, SelectSlot(r, a) PROVE Inv'
  <2>1. PICK s : s = status[a]
      OBVIOUS
  <2>2. MoveTo(r, a, s) /\ selected' = selected
      BY <1>19, <2>1 DEF SelectSlot
  <2>3. /\ s \in Stages
        /\ s = "SELECTED" => a \in selected \/ byHand
        /\ s = "JOINED" => a \in accepted \/ byHand
      BY <2>1, <2>2 DEF MoveTo, Applied, Inv, DataOK, Recorded
  <2> QED
      BY <1>16, <2>2, <2>3
<1>20. ASSUME NEW a \in Apps, NEW s \in Stages, SubmitResult(r, a, s) \/ DecideApplicant(r, a, s) PROVE Inv'
  <2>1. MoveTo(r, a, s) /\ s \in {"MAPPED", "MARKED", "SELECTED"}
        /\ selected' = IF s = "SELECTED" THEN selected \union {a} ELSE selected
      BY <1>20 DEF SubmitResult, DecideApplicant, Decided
  <2> QED
      BY <1>16, <2>1
<1>21. ASSUME NEW a \in Apps, NEW s \in Stages, UndoApplicantDecision(r, a, s) PROVE Inv'
  <2>1. MoveTo(r, a, s) /\ selected' = selected /\ s \in {logged[a], "MAPPED"}
      BY <1>21 DEF UndoApplicantDecision
  <2>2. /\ s = "SELECTED" => a \in selected \/ byHand
        /\ s = "JOINED" => a \in accepted \/ byHand
      BY <2>1 DEF Inv, Recorded
  <2> QED
      BY <1>16, <2>1, <2>2
<1>22. CASE \E a \in Pursued :
                \/ Select(r, a)
                \/ ScheduleInterview(r, a) \/ UpdateInterviewStatus(r, a) \/ CreateRound(r, a) \/ SelectSlot(r, a)
                \/ \E s \in Stages : SubmitResult(r, a, s) \/ DecideApplicant(r, a, s) \/ UndoApplicantDecision(r, a, s)
    BY <1>1, <1>15, <1>18, <1>19, <1>20, <1>21, <1>22
<1>23. CASE \E a \in Pursued :
                \/ \E d \in Docs, v \in Verdicts : ReviewApplicantDocument(r, a, d, v)
                \/ Forward(r, a) \/ Approve(r, a)
                \/ CreateOffer(r, a) \/ GenerateOffer(r, a) \/ SendOffer(r, a)
                \/ \E accept \in BOOLEAN : RespondToOffer(r, a, accept)
                \/ Joined(r, a) \/ MarkJoined(r, a)
    BY <1>2, <1>3, <1>4, <1>5, <1>6, <1>8, <1>12, <1>13, <1>15, <1>23
<1>24. CASE \E d \in Docs :
                \/ Verify(r, d) \/ SendBack(r, d)
                \/ \E v \in Verdicts : ReviewDocument(r, d, v)
    BY <1>11, <1>14, <1>15, <1>24
<1> QED
    BY <1>22, <1>23, <1>24 DEF Start

LEMMA InstantKeeps ==
    ASSUME Inv, Instant
    PROVE  Inv'
<1>1. ASSUME UNCHANGED task, Grows, DataOK', Recorded' PROVE Inv'
  <2>1. ASSUME NEW q \in Requests PROVE Agrees(task[q])'
    <3>1. PICK u : u = task[q]
        OBVIOUS
    <3>2. Agrees(u)' /\ task'[q] = u
        BY <1>1, <3>1, Stable DEF Inv, TasksAgree
    <3> QED
        BY <3>2 DEF Agrees, Starts
  <2> QED
      BY <1>1, <2>1 DEF Inv, TasksAgree
<1>2. ASSUME NEW a \in Apps, Apply(a) PROVE Inv'
  <2>1. Grows
      BY <1>2 DEF Apply, Grows, hiringVars, offerVars, Inv, DataOK
  <2>2. DataOK'
    <3>1. overlaps' \in Nat /\ beyond' \subseteq Detours
        BY <1>2, ArriveType DEF Apply, GoBeyond, Detours, Inv, DataOK
    <3> QED
        BY <1>2, <3>1 DEF Apply, Inv, DataOK, docVars, handOffVars, hiringVars, offerVars, Stages
  <2>3. Recorded'
      BY <1>2 DEF Apply, Inv, DataOK, Recorded, hiringVars, offerVars
  <2> QED
      BY <1>1, <1>2, <2>1, <2>2, <2>3 DEF Apply
<1>3. ASSUME NEW a \in Apps, NEW s \in Stages, UpdatePipelineStage(a, s) PROVE Inv'
  <2>1. Grows
      BY <1>3 DEF UpdatePipelineStage, Grows, hiringVars, offerVars
  <2>2. DataOK'
    <3>1. overlaps' \in Nat
        BY <1>3, ArriveType DEF UpdatePipelineStage
    <3> QED
        BY <1>3, <3>1 DEF UpdatePipelineStage, Inv, DataOK, docVars, handOffVars, hiringVars, offerVars
  <2>3. Recorded'
      BY <1>3 DEF UpdatePipelineStage, Applied, Inv, DataOK, Recorded, hiringVars, offerVars
  <2> QED
      BY <1>1, <1>3, <2>1, <2>2, <2>3 DEF UpdatePipelineStage
<1>4. ASSUME NEW o \in Apps \union {Candidate}, NEW D, AskedBy(o, D), Arrive,
             UNCHANGED <<flag, stale, statusVars, handOffVars, hiringVars, offerVars, stopped, byHand, beyond, task>>
      PROVE  Inv'
  <2>1. owner' \in [Docs -> Apps \union {Candidate, NotAsked}] /\ overlaps' \in Nat
      BY <1>4, ArriveType DEF AskedBy, Inv, DataOK
  <2>2. Grows /\ Recorded'
      BY <1>4 DEF Grows, Inv, Recorded, hiringVars, offerVars, statusVars
  <2>3. DataOK'
      BY <1>4, <2>1 DEF Inv, DataOK, handOffVars, hiringVars, offerVars, statusVars
  <2> QED
      BY <1>1, <1>4, <2>2, <2>3
<1>5. ASSUME NEW d \in Docs, UploadDocument(d) PROVE Inv'
  <2>1. flag' \in [Docs -> Flags] /\ stale' \subseteq Docs /\ overlaps' \in Nat
      BY <1>5, ArriveType DEF UploadDocument, Inv, DataOK, Flags
  <2>2. Grows /\ Recorded'
      BY <1>5 DEF UploadDocument, Grows, Inv, Recorded, hiringVars, offerVars, statusVars
  <2>3. DataOK'
      BY <1>5, <2>1 DEF UploadDocument, Inv, DataOK, handOffVars, hiringVars, offerVars, statusVars
  <2>4. ASSUME NEW q \in Requests PROVE task'[q] \in Task /\ Agrees(task[q])'
    <3>1. PICK u : u = task[q]
        OBVIOUS
    <3>2. PICK x : x = IF u.doc = {d} THEN [u EXCEPT !.file = "replaced"] ELSE u
        OBVIOUS
    <3>3. u \in Task /\ Agrees(u) /\ task'[q] = x
        BY <1>5, <3>1, <3>2 DEF UploadDocument, Replaced, Inv, TasksAgree
    <3>4. Agrees(u)'
        BY <2>2, <3>3, Stable
    <3>5. x \in Task /\ x.todo = u.todo /\ x.app = u.app /\ x.verdict = u.verdict /\ x.to = u.to /\ x.doc = u.doc
        BY <3>2, <3>3 DEF Task
    <3>6. Agrees(x)'
      <4>1. u.todo = <<>> => u.doc = {}
          BY <3>3 DEF Agrees
      <4> QED
          BY <3>4, <3>5, <4>1, SameAgrees
    <3> QED
        BY <3>3, <3>5, <3>6 DEF Agrees, Starts
  <2>5. task' \in [Requests -> Task]
    <3>1. task' = [q \in Requests |-> task'[q]]
        BY <1>5 DEF UploadDocument, Replaced
    <3> QED
        BY <2>4, <3>1
  <2> QED
      BY <2>2, <2>3, <2>4, <2>5 DEF Inv, TasksAgree
<1>6. Pursued \subseteq Apps /\ BoardStages \subseteq Stages
    BY HiringAssumption
<1>7. CASE \E a \in Apps : Apply(a)
    BY <1>2, <1>7
<1>8. CASE \E a \in Pursued : \E s \in BoardStages : UpdatePipelineStage(a, s)
    BY <1>3, <1>6, <1>8
<1>9. CASE \E a \in Pursued : \E D \in SUBSET Docs \ {{}} : Request(a, D) \/ RequestApplicantDocuments(a, D)
    BY <1>4, <1>6, <1>9 DEF Request, RequestApplicantDocuments
<1>10. CASE \E D \in SUBSET Docs \ {{}} : AssignDocuments(D)
    BY <1>4, <1>10 DEF AssignDocuments
<1>11. CASE \E d \in Docs : UploadDocument(d)
    BY <1>5, <1>11
<1> QED
    BY <1>7, <1>8, <1>9, <1>10, <1>11 DEF Instant

LEMMA RestartKeeps ==
    ASSUME Inv, Restart
    PROVE  Inv'
<1>1. Grows /\ DataOK' /\ Recorded'
    BY Still DEF Restart, Inv, DataOK
<1>2. task' \in [Requests -> Task]
    BY RestingType DEF Restart
<1>3. PICK x : x = Resting
    OBVIOUS
<1>4. Agrees(x)'
    BY <1>1, <1>3, RestingType, Stable
<1>5. \A q \in Requests : task'[q] = x
    BY <1>3 DEF Restart
<1> QED
    BY <1>1, <1>2, <1>4, <1>5 DEF Inv, TasksAgree, Agrees, Starts

LEMMA InitInv == Init => Inv
<1> SUFFICES ASSUME Init PROVE Inv
    OBVIOUS
<1>1. DataOK
  <2>1. latest \in [app : Apps \union {NoApp}, status : Stages \union {"none"}]
      BY DEF Init
  <2>2. /\ status \in [Apps -> Stages \union {"none"}]
        /\ logged \in [Apps -> (Stages \ {"MARKED"}) \union {"none"}]
        /\ owner \in [Docs -> Apps \union {Candidate, NotAsked}]
        /\ flag \in [Docs -> Flags]
        /\ approvals \in [Apps -> SUBSET Docs]
        /\ offer \in [Apps -> {"none", "Draft", "Sent", "Accepted", "Rejected"}]
      BY DEF Init, Flags
  <2> QED
      BY <2>1, <2>2 DEF DataOK, Init
<1>2. Recorded
    BY DEF Init, Recorded
<1>3. task \in [Requests -> Task] /\ TasksAgree
    BY RestingType DEF Init, TasksAgree
<1> QED
    BY <1>1, <1>2, <1>3 DEF Inv

LEMMA StepKeeps ==
    ASSUME Inv, NEW r \in Requests, Step(r)
    PROVE  Inv'
BY ReadLatestKeeps, MoveKeeps, SelectionKeeps, VerdictKeeps, HandOffKeeps, OfferKeeps DEF Step

LEMMA NextKeepsInv == Inv /\ [Next]_vars => Inv'
<1> SUFFICES ASSUME Inv, [Next]_vars PROVE Inv'
    OBVIOUS
<1>1. CASE UNCHANGED vars
    BY <1>1 DEF vars, statusVars, docVars, handOffVars, hiringVars, offerVars, runVars, Inv, DataOK, Recorded,
                TasksAgree, Agrees, Starts
<1>2. CASE Next
    BY <1>2, StartKeeps, StepKeeps, InstantKeeps, RestartKeeps DEF Next
<1> QED
    BY <1>1, <1>2

LEMMA InvAlways == Spec => []Inv
BY InitInv, NextKeepsInv, PTL DEF Spec

-----------------------------------------------------------------------------
(* Theorems for every interleaving and restart.                            *)

\* Every variable keeps values the program can give it.
THEOREM Typing == Spec => []TypeOK
<1>1. Inv => TypeOK
    BY DEF Inv, DataOK, TypeOK
<1> QED
    BY <1>1, InvAlways, PTL

\* Whatever overlaps or stops, an offer is made only for an application that somebody decided
\* to select (Q3's desk, the company before any round, a round's result), or that the board
\* moved: SELECTED is in the status and in its log only by such a decision, so that no undo and
\* no picked slot brings back one that was never made.
THEOREM OffersFollowSelection == Spec => []OfferAfterSelection
<1>1. Inv => OfferAfterSelection
    BY DEF Inv, Recorded, OfferAfterSelection
<1> QED
    BY <1>1, InvAlways, PTL

\* Whatever overlaps or stops, nobody joins, by either route, who never accepted.
THEOREM JoinersAccepted == Spec => []JoinedAccepted
<1>1. Inv => JoinedAccepted
    BY DEF Inv, Recorded, JoinedAccepted
<1> QED
    BY <1>1, InvAlways, PTL

\* Every handler starts with a task of its own and writes nothing yet.
LEMMA Starting ==
    ASSUME NEW r \in Requests, Start(r)
    PROVE  \E t : Launch(r, t)
<1>1. ASSUME NEW a, NEW s, MoveTo(r, a, s) PROVE \E t : Launch(r, t)
    BY <1>1 DEF MoveTo
<1>2. ASSUME NEW a,
             \/ ScheduleInterview(r, a) \/ UpdateInterviewStatus(r, a) \/ CreateRound(r, a) \/ SelectSlot(r, a)
             \/ \E s \in Stages : SubmitResult(r, a, s) \/ DecideApplicant(r, a, s) \/ UndoApplicantDecision(r, a, s)
      PROVE  \E t : Launch(r, t)
    BY <1>1, <1>2 DEF ScheduleInterview, UpdateInterviewStatus, CreateRound, SelectSlot, SubmitResult,
                      DecideApplicant, UndoApplicantDecision
<1>3. ASSUME NEW a, Select(r, a) PROVE \E t : Launch(r, t)
    BY <1>3 DEF Select
<1>4. ASSUME NEW t, Begin(r, t) PROVE \E x : Launch(r, x)
    BY <1>4 DEF Begin
<1>5. ASSUME NEW a,
             \/ \E d \in Docs, v \in Verdicts : ReviewApplicantDocument(r, a, d, v)
             \/ Forward(r, a) \/ Approve(r, a)
             \/ CreateOffer(r, a) \/ GenerateOffer(r, a) \/ SendOffer(r, a)
             \/ \E accept \in BOOLEAN : RespondToOffer(r, a, accept)
             \/ Joined(r, a) \/ MarkJoined(r, a)
      PROVE  \E t : Launch(r, t)
    BY <1>4, <1>5 DEF ReviewApplicantDocument, Forward, Approve, CreateOffer, GenerateOffer, SendOffer,
                      RespondToOffer, Joined, MarkJoined
<1>6. ASSUME NEW d, Verify(r, d) \/ SendBack(r, d) \/ \E v \in Verdicts : ReviewDocument(r, d, v)
      PROVE  \E t : Launch(r, t)
    BY <1>4, <1>6 DEF Verify, SendBack, ReviewDocument
<1> QED
    BY <1>2, <1>3, <1>5, <1>6 DEF Start

\* The statements that write an offer or a joining.
LEMMA OfferWrites ==
    ASSUME [Next]_vars
    PROVE  \/ UNCHANGED <<offer, accepted, joined>>
           \/ \E r \in Requests : WriteDraft(r) \/ WriteSend(r) \/ WriteAnswer(r) \/ WriteJoin(r)
<1>1. ASSUME NEW r \in Requests, Start(r) PROVE UNCHANGED <<offer, accepted, joined>>
  <2>1. \E t : Launch(r, t)
      BY <1>1, Starting
  <2> QED
      BY <2>1 DEF Launch, offerVars
<1>2. ASSUME Instant PROVE UNCHANGED <<offer, accepted, joined>>
    BY <1>2 DEF Instant, Apply, UpdatePipelineStage, RequestApplicantDocuments, Request, AssignDocuments,
                UploadDocument, offerVars
<1>3. ASSUME NEW r \in Requests, Step(r)
      PROVE  \/ UNCHANGED <<offer, accepted, joined>>
             \/ WriteDraft(r) \/ WriteSend(r) \/ WriteAnswer(r) \/ WriteJoin(r)
    BY <1>3 DEF Step, ReadLatest, Move, MarkSelected, AskDefaults, LogVerdict, Verdict, ReadHandOff, Withdraw,
                Settle, WriteForward, WriteApprove, CheckOffer, offerVars
<1>4. ASSUME Restart \/ UNCHANGED vars PROVE UNCHANGED <<offer, accepted, joined>>
    BY <1>4 DEF Restart, vars, offerVars
<1> QED
    BY <1>1, <1>2, <1>3, <1>4 DEF Next

\* The handlers implement Offers.tla for any number of applications and requests: one offer
\* each, answered only after it was sent, joined only by who accepted.
THEOREM OffersImplemented == Spec => ImplementsOffers
<1>1. Init => Offer!Init
    BY DEF Init, Offer!Init
<1>2. Inv /\ [Next]_vars => [Offer!Next]_(Offer!vars)
  <2> SUFFICES ASSUME Inv, [Next]_vars PROVE [Offer!Next]_(Offer!vars)
      OBVIOUS
  <2>1. \/ UNCHANGED <<offer, accepted, joined>>
        \/ \E r \in Requests : WriteDraft(r) \/ WriteSend(r) \/ WriteAnswer(r) \/ WriteJoin(r)
      BY OfferWrites
  <2>2. CASE UNCHANGED <<offer, accepted, joined>>
      BY <2>2 DEF Offer!vars
  <2>3. ASSUME NEW r \in Requests, WriteDraft(r) PROVE [Offer!Next]_(Offer!vars)
    <3>1. task[r].app \in Apps
        BY <2>3, Running DEF WriteDraft
    <3> QED
        BY <2>3, <3>1 DEF WriteDraft, Offer!Next, Offer!Draft, Offer!vars
  <2>4. ASSUME NEW r \in Requests, WriteSend(r) PROVE Offer!Next
    <3>1. At(r, "send")
        BY <2>4 DEF WriteSend
    <3>2. task[r].app \in Apps /\ offer[task[r].app] # "none"
        BY <3>1, Running DEF Agrees, Starts
    <3> QED
        BY <2>4, <3>2 DEF WriteSend, Offer!Next, Offer!Send
  <2>5. ASSUME NEW r \in Requests, WriteAnswer(r) PROVE Offer!Next
    <3>1. At(r, "answer")
        BY <2>5 DEF WriteAnswer
    <3>2. task[r].app \in Apps /\ offer[task[r].app] \notin {"none", "Draft"}
        BY <3>1, Running DEF Agrees, Starts
    <3>3. CASE task[r].accept
        BY <2>5, <3>2, <3>3 DEF WriteAnswer, Offer!Next, Offer!Accept
    <3>4. CASE ~task[r].accept
        BY <2>5, <3>2, <3>4 DEF WriteAnswer, Offer!Next, Offer!Decline
    <3> QED
        BY <3>3, <3>4
  <2>6. ASSUME NEW r \in Requests, WriteJoin(r) PROVE Offer!Next
    <3>1. At(r, "join")
        BY <2>6 DEF WriteJoin
    <3>2. task[r].app \in Apps /\ task[r].app \in accepted
        BY <3>1, Running DEF Agrees, Starts
    <3> QED
        BY <2>6, <3>2 DEF WriteJoin, Offer!Next, Offer!Join
  <2> QED
      BY <2>1, <2>2, <2>3, <2>4, <2>5, <2>6
<1> QED
    BY <1>1, <1>2, InvAlways, PTL DEF Spec, ImplementsOffers, Offer!Spec

-----------------------------------------------------------------------------
(* While requests do not overlap: Serial holds of the one running handler  *)
(* and of the tables it found.                                             *)

AllVerified == \A d \in Docs : Uploaded(d) => flag[d] = "verified"

\* What the handler read stands until it writes.
SerialTask(t) ==
    /\ t.file = "asSeen"
    /\ Starts(t, {"settle", "approve"}) => t.app \in forwarded
    /\ Starts(t, {"withdraw"}) => t.app \notin approved
    /\ Starts(t, {"move"}) => (t.points <=> latest.app = t.app)
    /\ Starts(t, {"draft"}) => AllVerified

Tables ==
    /\ approved \subseteq forwarded
    /\ stale = {}
    /\ ~byHand /\ latest.app # NoApp => latest.status = status[latest.app]

Serial ==
    Alone => /\ \A r, q \in Requests : ~Idle(r) /\ ~Idle(q) => r = q
             /\ \A r \in Requests : SerialTask(task[r])
             /\ Tables

LEMMA SerialStep ==
    ASSUME Inv, Serial, Alone, NEW r \in Requests, ~Idle(r), NEW x, SerialTask(x)',
           task' = [task EXCEPT ![r] = x], Tables'
    PROVE  Serial'
<1>1. ASSUME NEW q \in Requests, q # r PROVE task'[q].todo = <<>> /\ task'[q].file = "asSeen"
    BY <1>1 DEF Serial, Idle, SerialTask
<1>2. task'[r] = x
    BY DEF Inv
<1>3. ASSUME NEW q \in Requests PROVE SerialTask(task[q])'
    BY <1>1, <1>2 DEF SerialTask, Starts, AllVerified, Uploaded
<1>4. ASSUME NEW q \in Requests, NEW p \in Requests, ~Idle(q)', ~Idle(p)' PROVE q = p
    BY <1>1, <1>4 DEF Idle
<1> QED
    BY <1>3, <1>4 DEF Serial

LEMMA SerialGoOn ==
    ASSUME Inv, Serial, Alone, NEW r \in Requests, NEW s, At(r, s), Continue(r), Tables',
           s # "latest", s = "checkOffer" => AllVerified'
    PROVE  Serial'
<1>1. PICK x : x = Rest(task[r])
    OBVIOUS
<1>2. task[r].todo \in Lists /\ Head(task[r].todo) = s /\ task[r].todo # <<>> /\ s \in Statements
    BY Running, ListOf
<1>3. x.todo = Tail(task[r].todo) /\ x.file = "asSeen"
  <2>1. task[r].file = "asSeen"
      BY DEF Serial, SerialTask
  <2> QED
      BY <1>1, <2>1, RestOf DEF Resting
<1>4. ~Starts(x, {"settle", "approve", "withdraw", "move"}) /\ (Starts(x, {"draft"}) => s = "checkOffer")
  <2>1. /\ Head(<<"askDefaults", "latest", "move">>) = "askDefaults"
        /\ Head(<<"latest", "move">>) = "latest" /\ Head(<<"verdict", "handOff">>) = "verdict"
        /\ Head(<<"handOff">>) = "handOff" /\ Head(<<"send", "latest", "move">>) = "send"
        /\ Head(<<"draft", "send", "latest", "move">>) = "draft"
      OBVIOUS
  <2> QED
      BY <1>2, <1>3, <2>1, TailOf DEF Starts, Statements
<1>5. SerialTask(x)'
    BY <1>3, <1>4 DEF SerialTask, Starts, AllVerified, Uploaded
<1>6. ~Idle(r) /\ task' = [task EXCEPT ![r] = x]
    BY <1>1, <1>2 DEF Idle, Continue
<1> QED
    BY <1>5, <1>6, SerialStep

LEMMA SerialGiveUp ==
    ASSUME Inv, Serial, Alone, NEW r \in Requests, ~Idle(r), Finish(r), Tables'
    PROVE  Serial'
<1>1. PICK x : x = Resting
    OBVIOUS
<1>2. SerialTask(x)'
    BY <1>1 DEF SerialTask, Starts, Resting, AllVerified, Uploaded
<1> QED
    BY <1>1, <1>2, SerialStep DEF Finish

LEMMA SerialBegin ==
    ASSUME Inv, Serial, NEW r \in Requests, NEW t, Launch(r, t), SerialTask(t)
    PROVE  Serial'
<1> SUFFICES ASSUME Alone' PROVE Serial'
    BY DEF Serial
<1>1. Alone /\ Quiet
    BY DEF Launch, Arrive, Alone, Inv, DataOK
<1>2. task'[r] = t /\ \A q \in Requests \ {r} : task'[q] = task[q]
    BY DEF Launch, Inv
<1>3. SerialTask(t)' /\ Tables'
    BY <1>1 DEF Serial, SerialTask, Starts, Tables, AllVerified, Uploaded, Launch, statusVars, docVars, handOffVars
<1>4. ASSUME NEW q \in Requests PROVE SerialTask(task[q])'
  <2>1. CASE q = r
      BY <1>2, <1>3, <2>1 DEF SerialTask, Starts, AllVerified, Uploaded
  <2>2. CASE q # r
      BY <1>1, <1>2, <2>2 DEF Serial, SerialTask, Starts, Quiet, Idle
  <2> QED
      BY <2>1, <2>2
<1>5. ASSUME NEW q \in Requests, NEW p \in Requests, ~Idle(q)', ~Idle(p)' PROVE q = p
    BY <1>1, <1>2, <1>5 DEF Quiet, Idle
<1> QED
    BY <1>3, <1>4, <1>5 DEF Serial

\* A handler whose next statement was decided by what it read.
LEMMA SerialTurn ==
    ASSUME Inv, Serial, Alone, NEW r \in Requests, ~Idle(r), NEW next \in {"settle", "withdraw", "approve"},
           task' = [task EXCEPT ![r].todo = <<next>>], UNCHANGED <<handOffVars, docVars, statusVars, byHand>>,
           next # "withdraw" => task[r].app \in forwarded,
           next = "withdraw" => task[r].app \notin approved
    PROVE  Serial'
<1>1. PICK x : x = [task[r] EXCEPT !.todo = <<next>>]
    OBVIOUS
<1>2. task[r] \in Task /\ task[r].file = "asSeen"
    BY DEF Inv, Serial, SerialTask
<1>3. x.todo = <<next>> /\ x.app = task[r].app /\ x.file = "asSeen" /\ Head(<<next>>) = next
    BY <1>1, <1>2 DEF Task
<1>4. SerialTask(x)' /\ Tables'
    BY <1>3 DEF SerialTask, Starts, handOffVars, Serial, Tables, docVars, statusVars, AllVerified, Uploaded
<1>5. task' = [task EXCEPT ![r] = x]
    BY <1>1 DEF Inv
<1> QED
    BY <1>4, <1>5, SerialStep

LEMMA StepSerial ==
    ASSUME Inv, Serial, NEW r \in Requests, Step(r)
    PROVE  Serial'
<1>0. overlaps' = overlaps /\ ~Idle(r)
    BY DEF Step, ReadLatest, Move, MarkSelected, AskDefaults, LogVerdict, Verdict, ReadHandOff, Withdraw, Settle,
           WriteForward, WriteApprove, CheckOffer, WriteDraft, WriteSend, WriteAnswer, WriteJoin, runVars, At, Idle
<1> SUFFICES ASSUME Alone PROVE Serial'
    BY <1>0 DEF Serial, Alone
<1>1. SerialTask(task[r]) /\ Tables
    BY DEF Serial
<1>2. CASE ReadLatest(r)
  <2>1. /\ At(r, "latest") /\ Tables'
        /\ task' = [task EXCEPT ![r] = [Rest(@) EXCEPT !.points = (latest.app = task[r].app)]]
      BY <1>1, <1>2 DEF ReadLatest, Tables, statusVars, docVars, handOffVars
  <2>2. PICK y : y = Rest(task[r])
      OBVIOUS
  <2>3. PICK x : x = [y EXCEPT !.points = (latest.app = task[r].app)]
      OBVIOUS
  <2>4. task[r].todo \in Lists /\ Head(task[r].todo) = "latest"
      BY <2>1, Running
  <2>5. y \in Task /\ y.todo = <<"move">> /\ y.app = task[r].app /\ y.file = "asSeen"
    <3>1. Tail(task[r].todo) = <<"move">> /\ <<"move">> # <<>>
        BY <2>4, TailOf
    <3> QED
        BY <1>1, <2>1, <2>2, <3>1, RestOf DEF SerialTask
  <2>6. /\ x.todo = <<"move">> /\ x.app = y.app /\ x.file = "asSeen" /\ x.points = (latest.app = y.app)
        /\ Head(<<"move">>) = "move"
      BY <2>3, <2>5 DEF Task
  <2>7. SerialTask(x)'
      BY <1>2, <2>6 DEF SerialTask, Starts, ReadLatest, statusVars
  <2>8. task' = [task EXCEPT ![r] = x]
      BY <2>1, <2>2, <2>3
  <2> QED
      BY <1>0, <2>1, <2>7, <2>8, SerialStep
<1>3. CASE Move(r)
  <2>1. At(r, "move") /\ Continue(r) /\ task[r].app \in Apps /\ (task[r].points <=> latest.app = task[r].app)
      BY <1>1, <1>3, Running DEF Move, SerialTask, Starts
  <2>2. Tables'
      BY <1>1, <1>3, <2>1 DEF Move, Tables, Inv, DataOK, docVars, handOffVars
  <2> QED
      BY <2>1, <2>2, SerialGoOn
<1>4. CASE MarkSelected(r) \/ AskDefaults(r) \/ LogVerdict(r)
  <2>1. Tables'
      BY <1>1, <1>4 DEF MarkSelected, AskDefaults, LogVerdict, Tables, docVars, handOffVars, statusVars
  <2>2. PICK s \in {"select", "askDefaults", "logVerdict"} : At(r, s) /\ Continue(r)
      BY <1>4 DEF MarkSelected, AskDefaults, LogVerdict
  <2> QED
      BY <2>1, <2>2, SerialGoOn
<1>5. CASE Verdict(r)
  <2>1. Tables'
      BY <1>1, <1>5 DEF Verdict, Tables, SerialTask, handOffVars, statusVars
  <2>2. CASE Tail(task[r].todo) = <<>>
      BY <1>0, <1>5, <2>1, <2>2, SerialGiveUp DEF Verdict, Finish
  <2>3. CASE Tail(task[r].todo) # <<>>
    <3>1. PICK y : y = Rest(task[r])
        OBVIOUS
    <3>2. PICK x : x = [y EXCEPT !.doc = {}, !.file = "asSeen"]
        OBVIOUS
    <3>3. At(r, "verdict") /\ task[r].todo \in Lists /\ Head(task[r].todo) = "verdict"
      <4>1. At(r, "verdict")
          BY <1>5 DEF Verdict
      <4> QED
          BY <4>1, Running
    <3>4. y \in Task /\ y.todo = <<"handOff">>
        BY <2>3, <3>1, <3>3, RestOf, TailOf
    <3>5. x.todo = <<"handOff">> /\ x.file = "asSeen" /\ Head(<<"handOff">>) = "handOff"
        BY <3>2, <3>4 DEF Task
    <3>6. SerialTask(x)'
        BY <3>5 DEF SerialTask, Starts, AllVerified, Uploaded
    <3>7. task' = [task EXCEPT ![r] = x]
        BY <1>5, <2>3, <3>1, <3>2 DEF Verdict
    <3> QED
        BY <1>0, <2>1, <3>6, <3>7, SerialStep
  <2> QED
      BY <2>2, <2>3
<1>6. CASE ReadHandOff(r) \/ Settle(r)
  <2>1. UNCHANGED <<handOffVars, docVars, statusVars, byHand>> /\ Tables'
      BY <1>1, <1>6 DEF ReadHandOff, Settle, Tables, handOffVars, docVars, statusVars
  <2>2. CASE Finish(r)
      BY <1>0, <2>1, <2>2, SerialGiveUp
  <2>3. CASE ReadHandOff(r) /\ ~Finish(r)
    <3>1. task[r].app \in forwarded \ approved
        BY <2>3 DEF ReadHandOff
    <3>2. PICK next \in {"settle", "withdraw"} : task' = [task EXCEPT ![r].todo = <<next>>]
        BY <2>3 DEF ReadHandOff
    <3> QED
        BY <1>0, <2>1, <3>1, <3>2, SerialTurn
  <2>4. CASE Settle(r) /\ ~Finish(r)
    <3>1. task[r].app \in forwarded /\ task' = [task EXCEPT ![r].todo = <<"approve">>]
        BY <1>1, <2>4 DEF Settle, SerialTask, Starts, At
    <3> QED
        BY <1>0, <2>1, <3>1, SerialTurn
  <2> QED
      BY <1>6, <2>2, <2>3, <2>4
<1>7. CASE Withdraw(r) \/ WriteForward(r) \/ WriteApprove(r)
  <2>1. PICK s \in {"withdraw", "forward", "approve"} : At(r, s) /\ Continue(r)
      BY <1>7 DEF Withdraw, WriteForward, WriteApprove
  <2>2. approved' \subseteq forwarded'
      BY <1>1, <1>7 DEF Withdraw, WriteForward, WriteApprove, SerialTask, Starts, At, Tables
  <2>3. Tables'
      BY <1>1, <1>7, <2>2 DEF Withdraw, WriteForward, WriteApprove, Tables, docVars, statusVars
  <2> QED
      BY <2>1, <2>3, SerialGoOn
<1>8. CASE CheckOffer(r) \/ WriteDraft(r) \/ WriteSend(r) \/ WriteAnswer(r) \/ WriteJoin(r)
  <2>1. Tables'
      BY <1>1, <1>8 DEF CheckOffer, WriteDraft, WriteSend, WriteAnswer, WriteJoin, Tables, docVars, handOffVars,
                        statusVars
  <2>2. CASE Finish(r)
      BY <1>0, <2>1, <2>2, SerialGiveUp
  <2>3. CASE ~Finish(r)
    <3>1. PICK s \in {"checkOffer", "draft", "send", "answer", "join"} :
              At(r, s) /\ Continue(r) /\ (s = "checkOffer" => AllVerified /\ UNCHANGED docVars)
        BY <1>8, <2>3 DEF CheckOffer, WriteDraft, WriteSend, WriteAnswer, WriteJoin, MayOffer, AllVerified
    <3>2. s = "checkOffer" => AllVerified'
        BY <3>1 DEF AllVerified, Uploaded, docVars
    <3> QED
        BY <2>1, <3>1, <3>2, SerialGoOn
  <2> QED
      BY <2>2, <2>3
<1> QED
    BY <1>2, <1>3, <1>4, <1>5, <1>6, <1>7, <1>8 DEF Step

\* A handler starts with what its guards read.
LEMMA StartSerial ==
    ASSUME Inv, Serial, NEW r \in Requests, Start(r)
    PROVE  Serial'
<1> DEFINE plain == {<<"select", "askDefaults", "latest", "move">>, <<"latest", "move">>,
                     <<"checkOffer", "draft", "send", "latest", "move">>, <<"send", "latest", "move">>,
                     <<"answer", "latest", "move">>, <<"answer">>, <<"join", "latest", "move">>,
                     <<"logVerdict", "verdict", "handOff">>, <<"verdict", "handOff">>, <<"verdict">>,
                     <<"forward">>}
<1>1. ASSUME NEW t, Launch(r, t), t.file = "asSeen", t.todo \in plain PROVE Serial'
  <2>1. ~Starts(t, {"settle", "approve", "withdraw", "move", "draft"})
    <3>1. \A l \in plain : Head(l) \notin {"settle", "approve", "withdraw", "move", "draft"}
      <4>1. /\ Head(<<"select", "askDefaults", "latest", "move">>) = "select"
            /\ Head(<<"latest", "move">>) = "latest" /\ Head(<<"send", "latest", "move">>) = "send"
            /\ Head(<<"checkOffer", "draft", "send", "latest", "move">>) = "checkOffer"
            /\ Head(<<"answer", "latest", "move">>) = "answer" /\ Head(<<"answer">>) = "answer"
            /\ Head(<<"join", "latest", "move">>) = "join"
            /\ Head(<<"logVerdict", "verdict", "handOff">>) = "logVerdict"
            /\ Head(<<"verdict", "handOff">>) = "verdict" /\ Head(<<"verdict">>) = "verdict"
            /\ Head(<<"forward">>) = "forward"
          OBVIOUS
      <4> QED
          BY <4>1
    <3> QED
        BY <1>1, <3>1 DEF Starts
  <2>2. SerialTask(t)
      BY <1>1, <2>1 DEF SerialTask, Starts
  <2> QED
      BY <1>1, <2>2, SerialBegin
<1> HIDE DEF plain
<1>2. ASSUME NEW a, NEW to, NEW l \in plain, Launch(r, [Resting EXCEPT !.app = a, !.to = to, !.todo = l])
      PROVE  Serial'
  <2> DEFINE t == [Resting EXCEPT !.app = a, !.to = to, !.todo = l]
  <2>1. t.file = "asSeen" /\ t.todo = l
      BY DEF Resting
  <2> HIDE DEF t
  <2> QED
      BY <1>1, <1>2, <2>1 DEF t
<1>3. ASSUME NEW a, NEW d, NEW v, NEW l \in plain,
             Launch(r, [Resting EXCEPT !.app = a, !.doc = {d}, !.verdict = v, !.todo = l])
      PROVE  Serial'
  <2> DEFINE t == [Resting EXCEPT !.app = a, !.doc = {d}, !.verdict = v, !.todo = l]
  <2>1. t.file = "asSeen" /\ t.todo = l
      BY DEF Resting
  <2> HIDE DEF t
  <2> QED
      BY <1>1, <1>3, <2>1 DEF t
<1>4. /\ {<<"select", "askDefaults", "latest", "move">>, <<"latest", "move">>} \subseteq plain
      /\ {<<"checkOffer", "draft", "send", "latest", "move">>, <<"send", "latest", "move">>} \subseteq plain
      /\ {<<"answer", "latest", "move">>, <<"answer">>, <<"join", "latest", "move">>} \subseteq plain
      /\ {<<"logVerdict", "verdict", "handOff">>, <<"verdict", "handOff">>, <<"verdict">>} \subseteq plain
      /\ <<"forward">> \in plain
    BY DEF plain
<1>5. ASSUME NEW a, Select(r, a) \/ GenerateOffer(r, a) \/ SendOffer(r, a) \/ Joined(r, a) \/ MarkJoined(r, a)
      PROVE  Serial'
  <2>1. CASE Select(r, a)
      BY <1>2, <1>4, <2>1 DEF Select
  <2>2. CASE GenerateOffer(r, a)
      BY <1>2, <1>4, <2>2 DEF GenerateOffer, Begin
  <2>3. CASE SendOffer(r, a)
      BY <1>2, <1>4, <2>3 DEF SendOffer, Begin
  <2>4. CASE Joined(r, a)
      BY <1>2, <1>4, <2>4 DEF Joined, Begin
  <2>5. CASE MarkJoined(r, a)
      BY <1>2, <1>4, <2>5 DEF MarkJoined, Begin
  <2> QED
      BY <1>5, <2>1, <2>2, <2>3, <2>4, <2>5
<1>6. ASSUME NEW a, NEW accept \in BOOLEAN, RespondToOffer(r, a, accept) PROVE Serial'
  <2> DEFINE t == [Resting EXCEPT !.app = a, !.accept = accept, !.to = IF accept THEN "OFFER_ACCEPTED" ELSE "none",
                                  !.todo = IF accept THEN <<"answer", "latest", "move">> ELSE <<"answer">>]
  <2>1. Launch(r, t)
      BY <1>6 DEF RespondToOffer, Begin
  <2>2. t.file = "asSeen" /\ t.todo \in plain
      BY <1>4 DEF Resting
  <2> HIDE DEF t
  <2> QED
      BY <1>1, <2>1, <2>2
<1>7. ASSUME NEW a, Forward(r, a) PROVE Serial'
  <2> DEFINE t == [Resting EXCEPT !.app = a, !.todo = <<"forward">>]
  <2>1. Launch(r, t)
      BY <1>7 DEF Forward, Begin
  <2>2. t.file = "asSeen" /\ t.todo \in plain
      BY <1>4 DEF Resting
  <2> HIDE DEF t
  <2> QED
      BY <1>1, <2>1, <2>2
<1>8. ASSUME NEW a, NEW d, NEW v, ReviewApplicantDocument(r, a, d, v) PROVE Serial'
    BY <1>3, <1>4, <1>8 DEF ReviewApplicantDocument, Begin
<1>9. ASSUME NEW d, NEW v, Verify(r, d) \/ ReviewDocument(r, d, v) PROVE Serial'
  <2>1. ASSUME NEW w, Launch(r, [Resting EXCEPT !.doc = {d}, !.verdict = w, !.todo = <<"verdict">>]) PROVE Serial'
    <3> DEFINE t == [Resting EXCEPT !.doc = {d}, !.verdict = w, !.todo = <<"verdict">>]
    <3>1. t.file = "asSeen" /\ t.todo \in plain
        BY <1>4 DEF Resting
    <3> HIDE DEF t
    <3> QED
        BY <1>1, <2>1, <3>1 DEF t
  <2> QED
      BY <1>9, <2>1 DEF Verify, ReviewDocument, Begin
<1>10. ASSUME NEW d, SendBack(r, d) PROVE Serial'
  <2>1. PICK l \in plain :
            Launch(r, [Resting EXCEPT !.doc = {d}, !.app = MapOf(d), !.verdict = "unverified", !.todo = l])
      BY <1>4, <1>10 DEF SendBack, Begin
  <2>2. [Resting EXCEPT !.doc = {d}, !.app = MapOf(d), !.verdict = "unverified", !.todo = l]
          = [Resting EXCEPT !.app = MapOf(d), !.doc = {d}, !.verdict = "unverified", !.todo = l]
      BY DEF Resting
  <2> QED
      BY <1>3, <2>1, <2>2
<1>11. ASSUME NEW a, Approve(r, a) PROVE Serial'
  <2> DEFINE t == [Resting EXCEPT !.app = a, !.todo = <<"approve">>]
  <2>1. Launch(r, t) /\ a \in forwarded
      BY <1>11 DEF Approve, Begin
  <2>2. t.file = "asSeen" /\ t.app = a /\ t.todo = <<"approve">> /\ Head(<<"approve">>) = "approve"
      BY DEF Resting
  <2> HIDE DEF t
  <2>3. SerialTask(t)
      BY <2>1, <2>2 DEF SerialTask, Starts
  <2> QED
      BY <2>1, <2>3, SerialBegin
<1>12. ASSUME NEW a, CreateOffer(r, a) PROVE Serial'
  <2> DEFINE t == [Resting EXCEPT !.app = a, !.todo = <<"draft">>]
  <2>1. Launch(r, t) /\ AllVerified
      BY <1>12 DEF CreateOffer, MayOffer, AllVerified, Begin
  <2>2. t.file = "asSeen" /\ t.todo = <<"draft">> /\ Head(<<"draft">>) = "draft"
      BY DEF Resting
  <2> HIDE DEF t
  <2>3. SerialTask(t)
      BY <2>1, <2>2 DEF SerialTask, Starts
  <2> QED
      BY <2>1, <2>3, SerialBegin
<1>13. ASSUME NEW a, NEW s, MoveTo(r, a, s) PROVE Serial'
    BY <1>2, <1>4, <1>13 DEF MoveTo
<1>14. ASSUME NEW a,
              \/ ScheduleInterview(r, a) \/ UpdateInterviewStatus(r, a) \/ CreateRound(r, a) \/ SelectSlot(r, a)
              \/ \E s \in Stages : SubmitResult(r, a, s) \/ DecideApplicant(r, a, s) \/ UndoApplicantDecision(r, a, s)
       PROVE  Serial'
  <2>1. PICK s : MoveTo(r, a, s)
      BY <1>14 DEF ScheduleInterview, UpdateInterviewStatus, CreateRound, SelectSlot, SubmitResult,
                   DecideApplicant, UndoApplicantDecision
  <2> QED
      BY <1>13, <2>1
<1> QED
    BY <1>5, <1>6, <1>7, <1>8, <1>9, <1>10, <1>11, <1>12, <1>14 DEF Start

\* Only an upload and the board touch the tables without a handler, and neither under one.
LEMMA InstantSerial ==
    ASSUME Inv, Serial, Instant
    PROVE  Serial'
<1> SUFFICES ASSUME Alone' PROVE Serial'
    BY DEF Serial
<1>1. Alone /\ Quiet
    BY DEF Instant, Apply, UpdatePipelineStage, RequestApplicantDocuments, Request, AssignDocuments, UploadDocument,
           Arrive, Alone, Inv, DataOK
<1>2. Tables
    BY <1>1 DEF Serial
<1>3. ASSUME UNCHANGED task, Tables' PROVE Serial'
  <2>1. ASSUME NEW q \in Requests PROVE SerialTask(task[q])' /\ Idle(q)'
      BY <1>1, <1>3 DEF Serial, SerialTask, Starts, Quiet, Idle
  <2> QED
      BY <1>3, <2>1 DEF Serial
<1>4. ASSUME NEW a \in Apps, Apply(a) PROVE Serial'
  <2>1. Tables'
      BY <1>2, <1>4 DEF Apply, Tables, docVars, handOffVars, Inv, DataOK
  <2> QED
      BY <1>3, <1>4, <2>1 DEF Apply
<1>5. ASSUME NEW a, NEW s, UpdatePipelineStage(a, s) PROVE Serial'
  <2>1. Tables'
      BY <1>2, <1>5 DEF UpdatePipelineStage, Tables, docVars, handOffVars
  <2> QED
      BY <1>3, <1>5, <2>1 DEF UpdatePipelineStage
<1>6. ASSUME NEW a, NEW D, Request(a, D) \/ RequestApplicantDocuments(a, D) \/ AssignDocuments(D) PROVE Serial'
  <2>1. Tables'
      BY <1>2, <1>6 DEF Request, RequestApplicantDocuments, AssignDocuments, Tables, handOffVars, statusVars
  <2> QED
      BY <1>3, <1>6, <2>1 DEF Request, RequestApplicantDocuments, AssignDocuments
<1>7. ASSUME NEW d \in Docs, UploadDocument(d) PROVE Serial'
  <2>1. Tables'
      BY <1>2, <1>7 DEF UploadDocument, Tables, handOffVars, statusVars
  <2>2. \A q \in Requests : task[q].doc = {}
      BY <1>1 DEF Inv, TasksAgree, Agrees, Quiet, Idle
  <2>3. UNCHANGED task
      BY <1>7, <2>2 DEF UploadDocument, Replaced, Inv
  <2> QED
      BY <1>3, <2>1, <2>3
<1> QED
    BY <1>4, <1>5, <1>6, <1>7 DEF Instant

LEMMA NextKeepsSerial == Inv /\ Serial /\ [Next]_vars => Serial'
<1> SUFFICES ASSUME Inv, Serial, [Next]_vars PROVE Serial'
    OBVIOUS
<1>1. CASE UNCHANGED vars
    BY <1>1 DEF vars, statusVars, docVars, handOffVars, runVars, Serial, SerialTask, Starts, Tables, AllVerified,
                Uploaded, Alone, Idle
<1>2. CASE Restart
  <2>1. \A q \in Requests : task'[q].todo = <<>> /\ task'[q].file = "asSeen"
      BY <1>2 DEF Restart, Resting
  <2>2. Alone => Tables'
      BY <1>2 DEF Restart, Serial, Tables, statusVars, docVars, handOffVars
  <2> QED
      BY <1>2, <2>1, <2>2 DEF Restart, Serial, SerialTask, Starts, Idle, Alone
<1>3. CASE Next /\ ~Restart
    BY <1>3, StartSerial, StepSerial, InstantSerial DEF Next
<1> QED
    BY <1>1, <1>2, <1>3

LEMMA SerialAlways == Spec => [](Inv /\ Serial)
<1>1. Init => Serial
    BY DEF Init, Serial, SerialTask, Starts, Tables, Idle, Resting
<1> QED
    BY <1>1, InitInv, NextKeepsInv, NextKeepsSerial, PTL DEF Spec

-----------------------------------------------------------------------------
(* Theorems for requests that do not overlap.                              *)

\* A correction never takes back a set that was approved.
THEOREM ApprovedSetsStay == Spec => []HandOffAgrees
<1>1. Serial => HandOffAgrees
    BY DEF Serial, Tables, HandOffAgrees
<1> QED
    BY <1>1, SerialAlways, PTL

\* A verdict is about the file that is there now.
THEOREM VerdictsAreOnTheFile == Spec => []VerdictIsOnTheFile
<1>1. Serial => VerdictIsOnTheFile
    BY DEF Serial, Tables, VerdictIsOnTheFile
<1> QED
    BY <1>1, SerialAlways, PTL

\* The candidate's latest row repeats the status of the application it points to.
THEOREM LatestIsTrue == Spec => []LatestAgrees
<1>1. Serial => LatestAgrees
    BY DEF Serial, Tables, LatestAgrees
<1> QED
    BY <1>1, SerialAlways, PTL

\* An offer is drafted on verified files only, by either route.
THEOREM OffersOnVerifiedFiles == Spec => OfferOnVerifiedFiles
<1>1. ASSUME Inv, Serial, [Next]_vars, Alone, NEW a \in Apps, offer[a] = "none", offer'[a] = "Draft"
      PROVE  AllVerified /\ stale = {}
  <2>1. PICK r \in Requests : WriteDraft(r) \/ WriteSend(r) \/ WriteAnswer(r)
    <3>1. \/ UNCHANGED <<offer, accepted, joined>>
          \/ \E r \in Requests : WriteDraft(r) \/ WriteSend(r) \/ WriteAnswer(r) \/ WriteJoin(r)
        BY <1>1, OfferWrites
    <3> QED
        BY <1>1, <3>1 DEF WriteJoin
  <2>2. WriteDraft(r)
      BY <1>1, <2>1 DEF WriteSend, WriteAnswer, Inv, DataOK
  <2>3. Starts(task[r], {"draft"}) /\ SerialTask(task[r]) /\ Tables
      BY <1>1, <2>2 DEF WriteDraft, At, Starts, Serial
  <2> QED
      BY <2>3 DEF SerialTask, Tables
<1>2. Inv /\ Serial /\ [Next]_vars
        => [Alone /\ (\E a \in Apps : offer[a] = "none" /\ offer'[a] = "Draft")
               => \A d \in Docs : Uploaded(d) => flag[d] = "verified" /\ d \notin stale]_vars
    BY <1>1 DEF AllVerified
<1> QED
    BY <1>2, SerialAlways, PTL DEF Spec, OfferOnVerifiedFiles
-----------------------------------------------------------------------------
(* The status and the offer are written by two statements: Told holds of   *)
(* the tables, but for the application whose status is the next write. The *)
(* log keeps no stage of an offer that an undo could bring back wrongly.   *)

Calm == Alone /\ ~stopped /\ ~byHand
StatusTold(a) == status[a] \in OfferTold[offer[a]] \/ (a \in aside /\ status[a] \notin OfferStages)
LogTold(a) == logged[a] \in OfferStages => logged[a] \in OfferTold[offer[a]]
AppTold(a) == StatusTold(a) /\ LogTold(a)

\* What a handler is still to write tells the offer as it will be by then, or nothing of it.
ToldTask(t) ==
    /\ Starts(t, {"latest", "move"}) => t.to \in Stages /\ (t.to \in OfferStages => t.to \in OfferTold[offer[t.app]])
    /\ Starts(t, {"select", "askDefaults"}) => t.to = "SELECTED"
    /\ Starts(t, {"checkOffer", "send"}) => t.to = "OFFER_SENT"
    /\ Starts(t, {"draft"}) => status[t.app] = "SELECTED" /\ (t.todo # <<"draft">> => t.to = "OFFER_SENT")
    /\ Starts(t, {"answer"}) =>
           /\ offer[t.app] = "Sent"
           /\ IF t.accept THEN t.todo = <<"answer", "latest", "move">> /\ t.to = "OFFER_ACCEPTED"
                          ELSE t.todo = <<"answer">>
    /\ Starts(t, {"join"}) => t.to = "JOINED" /\ offer[t.app] = "Accepted"

\* The application whose status and log are about to follow its offer.
Moving(t, a) == Starts(t, {"latest", "move"}) /\ t.app = a /\ t.to \in OfferStages
Told ==
    Calm => /\ \A r \in Requests : ToldTask(task[r])
            /\ \A a \in Apps : AppTold(a) \/ \E r \in Requests : Moving(task[r], a)

LEMMA Promise ==
    /\ OfferTold["none"] = {"none", "MAPPED", "MARKED", "SELECTED"} /\ OfferTold["Draft"] = {"SELECTED"}
    /\ OfferTold["Sent"] = {"OFFER_SENT"} /\ OfferTold["Rejected"] = {"OFFER_SENT"}
    /\ OfferTold["Accepted"] = {"OFFER_ACCEPTED", "JOINED"}
    /\ {"OFFER_SENT", "OFFER_ACCEPTED", "JOINED"} = OfferStages
    /\ \A s \in Stages : s \notin OfferStages => s \in OfferTold["none"]
    /\ \A s \in OfferStages : s \notin OfferTold["none"]
BY DEF OfferTold, OfferStages, Stages

LEMMA SameTold ==
    ASSUME UNCHANGED <<statusVars, offer>>
    PROVE  \A a : AppTold(a)' <=> AppTold(a)
BY DEF AppTold, StatusTold, LogTold, statusVars

\* A list that has nothing to do with status and offer.
ToldStatements == {"select", "askDefaults", "latest", "move", "checkOffer", "draft", "send", "answer", "join"}
LEMMA Untold ==
    ASSUME NEW t, ~Starts(t, ToldStatements)
    PROVE  ToldTask(t) /\ ToldTask(t)' /\ \A a : ~Moving(t, a)
BY DEF ToldTask, Starts, ToldStatements, Moving

LEMMA ToldStep ==
    ASSUME Inv, Serial, Told, Calm, NEW r \in Requests, ~Idle(r), NEW x, task' = [task EXCEPT ![r] = x],
           ToldTask(x)', \A a \in Apps : AppTold(a)' \/ Moving(x, a)
    PROVE  Told'
<1>1. task'[r] = x
    BY DEF Inv
<1>2. ASSUME NEW q \in Requests PROVE ToldTask(task[q])'
  <2>1. CASE q = r
      BY <1>1, <2>1 DEF ToldTask, Starts
  <2>2. CASE q # r
    <3>1. task'[q].todo = <<>>
        BY <2>2 DEF Serial, Calm, Idle
    <3> QED
        BY <3>1 DEF ToldTask, Starts
  <2> QED
      BY <2>1, <2>2
<1>3. ASSUME NEW a \in Apps, Moving(x, a) PROVE Moving(task[r], a)'
    BY <1>1, <1>3 DEF Moving, Starts
<1> QED
    BY <1>2, <1>3 DEF Told

\* Only the running handler's application may lag behind.
LEMMA ToldOthers ==
    ASSUME Inv, Serial, Told, Calm, NEW r \in Requests, ~Idle(r)
    PROVE  \A a \in Apps : AppTold(a) \/ Moving(task[r], a)
<1>1. ASSUME NEW q \in Requests, NEW a, Moving(task[q], a) PROVE q = r
    BY <1>1 DEF Serial, Calm, Moving, Starts, Idle
<1> QED
    BY <1>1 DEF Told

\* A step that writes neither and goes on to nothing that depends on them.
LEMMA ToldKept ==
    ASSUME Inv, Serial, Told, Calm, NEW r \in Requests, ~Idle(r), NEW x, task' = [task EXCEPT ![r] = x],
           ~Starts(x, ToldStatements), UNCHANGED <<statusVars, offer>>, \A a : ~Moving(task[r], a)
    PROVE  Told'
<1>1. \A a \in Apps : AppTold(a)'
    BY ToldOthers, SameTold
<1> QED
    BY <1>1, ToldStep, Untold

LEMMA ToldMove ==
    ASSUME Inv, Serial, Told, Calm, NEW r \in Requests, ReadLatest(r) \/ Move(r)
    PROVE  Told'
<1>1. PICK t : t = task[r]
    OBVIOUS
<1>2. t \in Task /\ t.todo \in Lists /\ t.app \in Apps /\ ~Idle(r) /\ t.todo # <<>> /\ Head(t.todo) \in {"latest", "move"}
    BY <1>1, Running DEF ReadLatest, Move, At, Idle
<1>3. /\ t.to \in Stages /\ (t.to \in OfferStages => t.to \in OfferTold[offer[t.app]])
      /\ \A a \in Apps : AppTold(a) \/ (a = t.app /\ t.to \in OfferStages)
    BY <1>1, <1>2, ToldOthers DEF Told, ToldTask, Starts, Moving
<1>4. CASE ReadLatest(r)
  <2>1. /\ At(r, "latest") /\ UNCHANGED <<statusVars, offer>>
        /\ task' = [task EXCEPT ![r] = [Rest(@) EXCEPT !.points = (latest.app = task[r].app)]]
      BY <1>4 DEF ReadLatest, offerVars
  <2>2. PICK y : y = Rest(t)
      OBVIOUS
  <2>3. PICK x : x = [y EXCEPT !.points = (latest.app = t.app)]
      OBVIOUS
  <2>4. y \in Task /\ y.todo = <<"move">> /\ y.app = t.app /\ y.to = t.to
    <3>1. Tail(t.todo) = <<"move">> /\ <<"move">> # <<>>
        BY <1>1, <1>2, <2>1, TailOf DEF At
    <3> QED
        BY <1>1, <2>1, <2>2, <3>1, RestOf
  <2>5. x.todo = <<"move">> /\ x.app = t.app /\ x.to = t.to /\ Head(<<"move">>) = "move"
      BY <2>3, <2>4 DEF Task
  <2>6. ToldTask(x)'
      BY <1>3, <2>1, <2>5 DEF ToldTask, Starts
  <2>7. \A a \in Apps : AppTold(a)' \/ Moving(x, a)
      BY <1>3, <2>1, <2>5, SameTold DEF Moving, Starts
  <2>8. task' = [task EXCEPT ![r] = x]
      BY <1>1, <2>1, <2>2, <2>3
  <2> QED
      BY <1>2, <2>6, <2>7, <2>8, ToldStep
<1>5. CASE Move(r)
  <2>1. /\ At(r, "move") /\ Continue(r) /\ UNCHANGED offer
        /\ status' = [status EXCEPT ![t.app] = t.to]
        /\ logged' = IF t.to = "MARKED" THEN logged ELSE [logged EXCEPT ![t.app] = t.to]
        /\ aside' = IF t.to \in OfferStages THEN aside \ {t.app}
                    ELSE IF offer[t.app] = "none" THEN aside ELSE aside \union {t.app}
      BY <1>1, <1>5 DEF Move, offerVars
  <2>2. task' = [task EXCEPT ![r] = Resting]
    <3>1. Tail(t.todo) = <<>>
        BY <1>1, <1>2, <2>1, TailOf DEF At
    <3> QED
        BY <1>1, <2>1, <3>1, RestOf DEF Continue
  <2>3. ASSUME NEW a \in Apps, a # t.app PROVE AppTold(a)'
    <3>1. status'[a] = status[a] /\ logged'[a] = logged[a] /\ (a \in aside <=> a \in aside')
        BY <2>1, <2>3 DEF Inv, DataOK
    <3> QED
        BY <1>3, <2>1, <2>3, <3>1 DEF AppTold, StatusTold, LogTold
  <2>4. AppTold(t.app)'
    <3>1. status'[t.app] = t.to /\ (logged'[t.app] = t.to \/ (t.to = "MARKED" /\ logged'[t.app] = logged[t.app]))
        BY <1>2, <2>1 DEF Inv, DataOK
    <3>2. CASE t.to \in OfferStages
      <4>1. t.to # "MARKED"
          BY <3>2 DEF OfferStages
      <4> QED
          BY <1>3, <2>1, <3>1, <3>2, <4>1 DEF AppTold, StatusTold, LogTold
    <3>3. CASE t.to \notin OfferStages
      <4>1. LogTold(t.app)
          BY <1>2, <1>3, <3>3 DEF AppTold
      <4>2. offer[t.app] = "none" => t.to \in OfferTold[offer[t.app]]
          BY <1>3, <3>3, Promise
      <4>3. offer[t.app] # "none" => t.app \in aside'
          BY <2>1, <3>3
      <4> QED
          BY <2>1, <3>1, <3>3, <4>1, <4>2, <4>3 DEF AppTold, StatusTold, LogTold
    <3> QED
        BY <3>2, <3>3
  <2>5. \A a \in Apps : AppTold(a)'
      BY <2>3, <2>4
  <2>6. ~Starts(Resting, ToldStatements)
      BY RestingType DEF Starts
  <2> QED
      BY <1>2, <2>2, <2>5, <2>6, ToldStep, Untold
<1> QED
    BY <1>4, <1>5

LEMMA ToldSelection ==
    ASSUME Inv, Serial, Told, Calm, NEW r \in Requests, MarkSelected(r) \/ AskDefaults(r)
    PROVE  Told'
<1>1. PICK t, x : t = task[r] /\ x = Rest(t)
    OBVIOUS
<1>2. /\ ~Idle(r) /\ t.todo \in Lists /\ t.todo # <<>> /\ Head(t.todo) \in {"select", "askDefaults"} /\ Continue(r)
      /\ At(r, Head(t.todo)) /\ UNCHANGED <<statusVars, offer>>
    BY <1>1, Running DEF MarkSelected, AskDefaults, At, Idle, offerVars
<1>3. t.to = "SELECTED"
    BY <1>1, <1>2 DEF Told, ToldTask, Starts
<1>4. \A a \in Apps : AppTold(a)
    BY <1>1, <1>2, ToldOthers DEF Moving, Starts
<1>5. /\ x.app = t.app /\ x.to = t.to
      /\ x.todo \in {<<"askDefaults", "latest", "move">>, <<"latest", "move">>}
  <2>1. <<"askDefaults", "latest", "move">> # <<>> /\ <<"latest", "move">> # <<>>
      OBVIOUS
  <2>2. Tail(t.todo) \in {<<"askDefaults", "latest", "move">>, <<"latest", "move">>} /\ Tail(t.todo) # <<>>
      BY <1>2, <2>1, TailOf
  <2> QED
      BY <1>1, <1>2, <2>2, RestOf
<1>6. x.todo # <<>> /\ Head(x.todo) \in {"askDefaults", "latest"}
  <2>1. Head(<<"askDefaults", "latest", "move">>) = "askDefaults" /\ Head(<<"latest", "move">>) = "latest"
      OBVIOUS
  <2> QED
      BY <1>5, <2>1
<1>7. ToldTask(x)'
    BY <1>3, <1>5, <1>6 DEF ToldTask, Starts, Stages, OfferStages
<1>8. \A a \in Apps : AppTold(a)'
    BY <1>2, <1>4, SameTold
<1>9. task' = [task EXCEPT ![r] = x]
    BY <1>1, <1>2 DEF Continue
<1> QED
    BY <1>2, <1>7, <1>8, <1>9, ToldStep

\* Documents and the hand-off have nothing to do with status and offer.
Elsewhere == {<<>>, <<"verdict", "handOff">>, <<"handOff">>, <<"settle">>, <<"withdraw">>, <<"approve">>}
LEMMA ToldDocuments ==
    ASSUME Inv, Serial, Told, Calm, NEW r \in Requests,
           \/ LogVerdict(r) \/ Verdict(r) \/ ReadHandOff(r) \/ Withdraw(r) \/ Settle(r)
           \/ WriteForward(r) \/ WriteApprove(r)
    PROVE  Told'
<1>1. /\ UNCHANGED <<statusVars, offer>>
      /\ \E s \in {"logVerdict", "verdict", "handOff", "withdraw", "settle", "forward", "approve"} : At(r, s)
    BY DEF LogVerdict, Verdict, ReadHandOff, Withdraw, Settle, WriteForward, WriteApprove, offerVars
<1>2. PICK s \in {"logVerdict", "verdict", "handOff", "withdraw", "settle", "forward", "approve"} : At(r, s)
    BY <1>1
<1>3. ~Idle(r) /\ task[r] \in Task /\ task[r].todo \in Lists /\ Head(task[r].todo) = s /\ \A a : ~Moving(task[r], a)
    BY <1>2, Running DEF At, Idle, Moving, Starts
<1>4. \A l \in Elsewhere : l # <<>> => Head(l) \notin ToldStatements
  <2>1. /\ Head(<<"verdict", "handOff">>) = "verdict" /\ Head(<<"handOff">>) = "handOff"
        /\ Head(<<"settle">>) = "settle" /\ Head(<<"withdraw">>) = "withdraw" /\ Head(<<"approve">>) = "approve"
      OBVIOUS
  <2> QED
      BY <2>1 DEF Elsewhere, ToldStatements
<1>5. Rest(task[r]).todo \in Elsewhere
  <2>1. Rest(task[r]).todo = Tail(task[r].todo)
      BY <1>2, RestOf
  <2> QED
      BY <1>3, <2>1, TailOf DEF Elsewhere
<1>6. ASSUME NEW x, x.todo \in Elsewhere, task' = [task EXCEPT ![r] = x] PROVE Told'
  <2>1. ~Starts(x, ToldStatements)
      BY <1>4, <1>6 DEF Starts
  <2> QED
      BY <1>1, <1>3, <1>6, <2>1, ToldKept
<1>7. CASE Continue(r)
  <2>1. PICK x : x = Rest(task[r])
      OBVIOUS
  <2> QED
      BY <1>5, <1>6, <1>7, <2>1 DEF Continue
<1>8. CASE Finish(r)
  <2>1. PICK x : x = Resting
      OBVIOUS
  <2>2. x.todo \in Elsewhere
      BY <2>1, RestingType DEF Elsewhere
  <2> QED
      BY <1>6, <1>8, <2>1, <2>2 DEF Finish
<1>9. ASSUME NEW l \in {<<"settle">>, <<"withdraw">>, <<"approve">>}, task' = [task EXCEPT ![r].todo = l] PROVE Told'
  <2>1. PICK x : x = [task[r] EXCEPT !.todo = l]
      OBVIOUS
  <2>2. x.todo = l /\ task' = [task EXCEPT ![r] = x]
      BY <1>3, <1>9, <2>1 DEF Task
  <2>3. x.todo \in Elsewhere
      BY <2>2 DEF Elsewhere
  <2> QED
      BY <1>6, <2>2, <2>3
<1>10. CASE Verdict(r) /\ ~Finish(r)
  <2>1. PICK y : y = Rest(task[r])
      OBVIOUS
  <2>2. PICK x : x = [y EXCEPT !.doc = {}, !.file = "asSeen"]
      OBVIOUS
  <2>3. task' = [task EXCEPT ![r] = x]
      BY <1>10, <2>1, <2>2 DEF Verdict, Finish
  <2>4. y \in Task
      BY <1>2, <2>1, RestOf
  <2>5. x.todo = y.todo
      BY <2>2, <2>4 DEF Task
  <2> QED
      BY <1>5, <1>6, <2>1, <2>3, <2>5
<1> QED
    BY <1>7, <1>8, <1>9, <1>10 DEF LogVerdict, ReadHandOff, Withdraw, Settle, WriteForward, WriteApprove

\* A step of a handler on the offer: t is its task, x what it goes on with.
LEMMA ToldGoOn ==
    ASSUME Inv, NEW r \in Requests, NEW s, At(r, s), Continue(r)
    PROVE  \E x : /\ task' = [task EXCEPT ![r] = x]
                  /\ x.todo = Tail(task[r].todo)
                  /\ Tail(task[r].todo) # <<>> => x.app = task[r].app /\ x.to = task[r].to
<1>1. PICK x : x = Rest(task[r])
    OBVIOUS
<1>2. task' = [task EXCEPT ![r] = x]
    BY <1>1 DEF Continue
<1> QED
    BY <1>1, <1>2, RestOf

\* An offer is news to its own application only.
LEMMA ToldElsewhere ==
    ASSUME Inv, NEW b \in Apps, NEW o, offer' = [offer EXCEPT ![b] = o], UNCHANGED statusVars,
           NEW a \in Apps, a # b, AppTold(a)
    PROVE  AppTold(a)'
BY DEF AppTold, StatusTold, LogTold, statusVars, Inv, DataOK

LEMMA ToldOffer ==
    ASSUME Inv, Serial, Told, Calm, NEW r \in Requests,
           CheckOffer(r) \/ WriteDraft(r) \/ WriteSend(r) \/ WriteAnswer(r) \/ WriteJoin(r)
    PROVE  Told'
<1>1. PICK t : t = task[r]
    OBVIOUS
<1>2. PICK s \in {"checkOffer", "draft", "send", "answer", "join"} : At(r, s) /\ UNCHANGED statusVars
    BY DEF CheckOffer, WriteDraft, WriteSend, WriteAnswer, WriteJoin
<1>3. /\ ~Idle(r) /\ t \in Task /\ t.todo \in Lists /\ t.todo # <<>> /\ Head(t.todo) = s /\ t.app \in Apps
      /\ \A a : ~Moving(t, a)
    BY <1>1, <1>2, Running DEF At, Idle, Moving, Starts
<1>4. ToldTask(t) /\ \A a \in Apps : AppTold(a)
    BY <1>1, <1>3, ToldOthers DEF Told
<1>5. CASE Finish(r) /\ UNCHANGED offer
  <2>1. ~Starts(Resting, ToldStatements)
      BY RestingType DEF Starts
  <2> QED
      BY <1>1, <1>2, <1>3, <1>5, <2>1, ToldKept DEF Finish
<1>6. ASSUME Continue(r)
      PROVE  \E x : /\ task' = [task EXCEPT ![r] = x]
                    /\ x.todo = Tail(t.todo)
                    /\ Tail(t.todo) # <<>> => x.app = t.app /\ x.to = t.to
    BY <1>1, <1>2, <1>6, ToldGoOn
<1>7. /\ Head(<<"draft", "send", "latest", "move">>) = "draft" /\ Head(<<"send", "latest", "move">>) = "send"
      /\ Head(<<"latest", "move">>) = "latest" /\ <<"draft", "send", "latest", "move">> # <<>>
      /\ <<"send", "latest", "move">> # <<>> /\ <<"latest", "move">> # <<>>
      /\ <<"draft", "send", "latest", "move">> # <<"draft">>
    OBVIOUS
<1>8. CASE CheckOffer(r) /\ Continue(r)
  <2>1. PICK x : /\ task' = [task EXCEPT ![r] = x]
                 /\ x.todo = Tail(t.todo)
                 /\ Tail(t.todo) # <<>> => x.app = t.app /\ x.to = t.to
      BY <1>6, <1>8
  <2>2. Head(t.todo) = "checkOffer" /\ UNCHANGED offer
      BY <1>1, <1>8 DEF CheckOffer, At, offerVars
  <2>3. x.todo = <<"draft", "send", "latest", "move">> /\ x.app = t.app /\ x.to = "OFFER_SENT"
      BY <1>3, <1>4, <1>7, <2>1, <2>2, TailOf DEF ToldTask, Starts
  <2>4. status[t.app] = "SELECTED"
    <3>1. ~Finish(r)
        BY <1>7, <2>1, <2>3, RestingType DEF Finish, Inv
    <3> QED
        BY <1>1, <1>8, <3>1 DEF CheckOffer, MayOffer
  <2>5. ToldTask(x)'
      BY <1>2, <1>7, <2>2, <2>3, <2>4 DEF ToldTask, Starts, statusVars
  <2>6. \A a \in Apps : AppTold(a)'
      BY <1>2, <1>4, <2>2, SameTold
  <2> QED
      BY <1>3, <2>1, <2>5, <2>6, ToldStep
<1>9. CASE WriteDraft(r) /\ Continue(r) /\ offer[t.app] = "none" /\ offer' = [offer EXCEPT ![t.app] = "Draft"]
  <2>1. PICK x : /\ task' = [task EXCEPT ![r] = x]
                 /\ x.todo = Tail(t.todo)
                 /\ Tail(t.todo) # <<>> => x.app = t.app /\ x.to = t.to
      BY <1>6, <1>9
  <2>2. Head(t.todo) = "draft"
      BY <1>1, <1>9 DEF WriteDraft, At
  <2>3. status[t.app] = "SELECTED" /\ (t.todo # <<"draft">> => t.to = "OFFER_SENT")
      BY <1>3, <1>4, <2>2 DEF ToldTask, Starts
  <2>4. \A a \in Apps : AppTold(a)'
    <3>1. ASSUME NEW a \in Apps, a # t.app PROVE offer'[a] = offer[a] /\ AppTold(a)'
        BY <1>2, <1>4, <1>9, <3>1 DEF AppTold, StatusTold, LogTold, statusVars, Inv, DataOK
    <3>2. offer'[t.app] = "Draft" /\ status'[t.app] = "SELECTED" /\ logged'[t.app] = logged[t.app]
        BY <1>2, <1>3, <1>9, <2>3 DEF statusVars, Inv, DataOK
    <3>3. logged[t.app] \notin OfferStages
        BY <1>3, <1>4, <1>9, Promise DEF AppTold, LogTold
    <3>4. AppTold(t.app)'
        BY <3>2, <3>3, Promise DEF AppTold, StatusTold, LogTold
    <3> QED
        BY <3>1, <3>4
  <2>5. x.todo = <<>> \/ (x.todo = <<"send", "latest", "move">> /\ x.to = "OFFER_SENT")
    <3>1. Tail(<<"draft">>) = <<>>
        OBVIOUS
    <3> QED
        BY <1>3, <1>7, <2>1, <2>2, <2>3, <3>1, TailOf
  <2>6. ToldTask(x)'
      BY <1>7, <2>5 DEF ToldTask, Starts
  <2> QED
      BY <1>3, <2>1, <2>4, <2>6, ToldStep
<1>10. CASE WriteSend(r)
  <2>1. PICK x : /\ task' = [task EXCEPT ![r] = x]
                 /\ x.todo = Tail(t.todo)
                 /\ Tail(t.todo) # <<>> => x.app = t.app /\ x.to = t.to
      BY <1>6, <1>10 DEF WriteSend
  <2>2. Head(t.todo) = "send" /\ offer' = [offer EXCEPT ![t.app] = "Sent"]
      BY <1>1, <1>10 DEF WriteSend, At
  <2>3. x.todo = <<"latest", "move">> /\ x.app = t.app /\ x.to = "OFFER_SENT"
      BY <1>3, <1>4, <1>7, <2>1, <2>2, TailOf DEF ToldTask, Starts
  <2>4. ToldTask(x)'
      BY <1>3, <1>7, <2>2, <2>3, Promise DEF ToldTask, Starts, Stages, Inv, DataOK
  <2>5. \A a \in Apps : AppTold(a)' \/ Moving(x, a)
      BY <1>2, <1>3, <1>4, <1>7, <2>2, <2>3, ToldElsewhere DEF Moving, Starts, OfferStages
  <2> QED
      BY <1>3, <2>1, <2>4, <2>5, ToldStep
<1>11. CASE WriteAnswer(r)
  <2>1. PICK x : /\ task' = [task EXCEPT ![r] = x]
                 /\ x.todo = Tail(t.todo)
                 /\ Tail(t.todo) # <<>> => x.app = t.app /\ x.to = t.to
      BY <1>6, <1>11 DEF WriteAnswer
  <2>2. /\ Head(t.todo) = "answer"
        /\ offer' = [offer EXCEPT ![t.app] = IF t.accept THEN "Accepted" ELSE "Rejected"]
      BY <1>1, <1>11 DEF WriteAnswer, At
  <2>3. /\ offer[t.app] = "Sent"
        /\ t.accept => t.todo = <<"answer", "latest", "move">> /\ t.to = "OFFER_ACCEPTED"
        /\ ~t.accept => t.todo = <<"answer">>
      BY <1>3, <1>4, <2>2 DEF ToldTask, Starts
  <2>4. CASE t.accept
    <3>1. offer' = [offer EXCEPT ![t.app] = "Accepted"]
        BY <2>2, <2>4
    <3>2. Tail(<<"answer", "latest", "move">>) = <<"latest", "move">>
        OBVIOUS
    <3>3. x.todo = <<"latest", "move">> /\ x.app = t.app /\ x.to = "OFFER_ACCEPTED"
        BY <1>7, <2>1, <2>3, <2>4, <3>2
    <3>4. ToldTask(x)'
        BY <1>3, <1>7, <3>1, <3>3, Promise DEF ToldTask, Starts, Stages, Inv, DataOK
    <3>5. \A a \in Apps : AppTold(a)' \/ Moving(x, a)
        BY <1>2, <1>3, <1>4, <1>7, <3>1, <3>3, ToldElsewhere DEF Moving, Starts, OfferStages
    <3> QED
        BY <1>3, <2>1, <3>4, <3>5, ToldStep
  <2>5. CASE ~t.accept
    <3>1. offer' = [offer EXCEPT ![t.app] = "Rejected"]
        BY <2>2, <2>5
    <3>2. x.todo = <<>>
      <4>1. Tail(<<"answer">>) = <<>>
          OBVIOUS
      <4> QED
          BY <2>1, <2>3, <2>5, <4>1
    <3>3. ToldTask(x)'
        BY <3>2 DEF ToldTask, Starts
    <3>4. \A a \in Apps : AppTold(a)'
      <4>1. AppTold(t.app)'
        <5>1. offer'[t.app] = "Rejected"
            BY <1>3, <3>1 DEF Inv, DataOK
        <5>2. OfferTold[offer'[t.app]] = OfferTold[offer[t.app]]
            BY <2>3, <5>1, Promise
        <5> QED
            BY <1>2, <1>3, <1>4, <5>2 DEF AppTold, StatusTold, LogTold, statusVars
      <4> QED
          BY <1>2, <1>3, <1>4, <3>1, <4>1, ToldElsewhere
    <3> QED
        BY <1>3, <2>1, <3>3, <3>4, ToldStep
  <2> QED
      BY <2>4, <2>5
<1>12. CASE WriteJoin(r)
  <2>1. PICK x : /\ task' = [task EXCEPT ![r] = x]
                 /\ x.todo = Tail(t.todo)
                 /\ Tail(t.todo) # <<>> => x.app = t.app /\ x.to = t.to
      BY <1>6, <1>12 DEF WriteJoin
  <2>2. Head(t.todo) = "join" /\ UNCHANGED offer
      BY <1>1, <1>12 DEF WriteJoin, At
  <2>3. x.todo = <<"latest", "move">> /\ x.app = t.app /\ x.to = "JOINED" /\ offer[t.app] = "Accepted"
      BY <1>3, <1>4, <1>7, <2>1, <2>2, TailOf DEF ToldTask, Starts
  <2>4. ToldTask(x)'
      BY <1>7, <2>2, <2>3, Promise DEF ToldTask, Starts, Stages
  <2>5. \A a \in Apps : AppTold(a)'
      BY <1>2, <1>4, <2>2, SameTold
  <2> QED
      BY <1>3, <2>1, <2>4, <2>5, ToldStep
<1> QED
    BY <1>1, <1>5, <1>8, <1>9, <1>10, <1>11, <1>12 DEF CheckOffer, WriteDraft, offerVars

LEMMA StepTold ==
    ASSUME Inv, Serial, Told, NEW r \in Requests, Step(r)
    PROVE  Told'
<1>1. UNCHANGED <<overlaps, stopped, byHand>>
    BY DEF Step, ReadLatest, Move, MarkSelected, AskDefaults, LogVerdict, Verdict, ReadHandOff, Withdraw, Settle,
           WriteForward, WriteApprove, CheckOffer, WriteDraft, WriteSend, WriteAnswer, WriteJoin, runVars
<1> SUFFICES ASSUME Calm PROVE Told'
    BY <1>1 DEF Told, Calm, Alone
<1> QED
    BY ToldMove, ToldSelection, ToldDocuments, ToldOffer DEF Step

\* A handler that begins while nothing runs: status and offer tell the same by then.
LEMMA ToldBegin ==
    ASSUME Inv, Serial, Told, NEW r \in Requests, NEW t, Launch(r, t), Calm => ToldTask(t)
    PROVE  Told'
<1> SUFFICES ASSUME Calm' PROVE Told'
    BY DEF Told
<1>1. Calm /\ Quiet /\ task' = [task EXCEPT ![r] = t] /\ UNCHANGED <<statusVars, offer>>
    BY DEF Launch, Arrive, Alone, Calm, Inv, DataOK, offerVars
<1>2. task'[r] = t /\ \A q \in Requests \ {r} : task'[q].todo = <<>>
    BY <1>1 DEF Inv, Quiet, Idle
<1>3. ASSUME NEW q \in Requests PROVE ToldTask(task[q])'
  <2>1. CASE q = r
      BY <1>1, <1>2, <2>1 DEF ToldTask, Starts, statusVars
  <2>2. CASE q # r
      BY <1>2, <2>2 DEF ToldTask, Starts
  <2> QED
      BY <2>1, <2>2
<1>4. \A a \in Apps : AppTold(a)'
    BY <1>1, SameTold DEF Told, Moving, Starts, Quiet, Idle
<1> QED
    BY <1>3, <1>4 DEF Told

LEMMA QuietTold ==
    ASSUME Told, Calm, Quiet
    PROVE  \A a \in Apps : AppTold(a)
BY DEF Told, Moving, Starts, Quiet, Idle

LEMMA StartTold ==
    ASSUME Inv, Serial, Told, NEW r \in Requests, Start(r)
    PROVE  Told'
<1>1. CASE ~Quiet
  <2>1. overlaps' = overlaps + 1 /\ overlaps \in Nat
      BY <1>1, Starting DEF Launch, Arrive, Inv, DataOK
  <2> QED
      BY <2>1 DEF Told, Calm, Alone
<1> SUFFICES ASSUME Quiet PROVE Told'
    BY <1>1
<1>2. ASSUME Calm PROVE \A a \in Apps : AppTold(a)
    BY <1>2, QuietTold
<1>3. Pursued \subseteq Apps
    BY HiringAssumption
<1>4. /\ Head(<<"select", "askDefaults", "latest", "move">>) = "select" /\ Head(<<"latest", "move">>) = "latest"
      /\ Head(<<"checkOffer", "draft", "send", "latest", "move">>) = "checkOffer"
      /\ Head(<<"send", "latest", "move">>) = "send" /\ Head(<<"answer", "latest", "move">>) = "answer"
      /\ Head(<<"answer">>) = "answer" /\ Head(<<"join", "latest", "move">>) = "join" /\ Head(<<"draft">>) = "draft"
    OBVIOUS
<1>5. ASSUME NEW a \in Pursued, Select(r, a) PROVE Told'
  <2>1. PICK t : t = [Resting EXCEPT !.app = a, !.to = "SELECTED", !.todo = <<"select", "askDefaults", "latest", "move">>]
      OBVIOUS
  <2>2. Launch(r, t)
      BY <1>5, <2>1 DEF Select
  <2>3. t.app = a /\ t.to = "SELECTED" /\ t.todo = <<"select", "askDefaults", "latest", "move">>
      BY <2>1 DEF Resting
  <2>4. ToldTask(t)
      BY <1>4, <2>3 DEF ToldTask, Starts
  <2> QED
      BY <2>2, <2>4, ToldBegin
<1>6. ASSUME NEW a \in Pursued, CreateOffer(r, a) PROVE Told'
  <2> DEFINE t == [Resting EXCEPT !.app = a, !.todo = <<"draft">>]
  <2>1. Launch(r, t) /\ status[a] = "SELECTED"
      BY <1>6 DEF CreateOffer, MayOffer, Begin
  <2>2. t.app = a /\ t.todo = <<"draft">>
      BY DEF Resting
  <2> HIDE DEF t
  <2>3. ToldTask(t)
      BY <1>4, <2>1, <2>2 DEF ToldTask, Starts
  <2> QED
      BY <2>1, <2>3, ToldBegin
<1>7. ASSUME NEW a \in Pursued, GenerateOffer(r, a) \/ SendOffer(r, a) PROVE Told'
  <2>1. ASSUME NEW l \in {<<"checkOffer", "draft", "send", "latest", "move">>, <<"send", "latest", "move">>},
               Launch(r, [Resting EXCEPT !.app = a, !.to = "OFFER_SENT", !.todo = l])
        PROVE  Told'
    <3> DEFINE t == [Resting EXCEPT !.app = a, !.to = "OFFER_SENT", !.todo = l]
    <3>1. t.to = "OFFER_SENT" /\ t.todo = l
        BY DEF Resting
    <3> HIDE DEF t
    <3>2. Head(l) \in {"checkOffer", "send"}
        BY <1>4
    <3>3. ToldTask(t)
        BY <3>1, <3>2 DEF ToldTask, Starts
    <3> QED
        BY <2>1, <3>3, ToldBegin DEF t
  <2> QED
      BY <1>7, <2>1 DEF GenerateOffer, SendOffer, Begin
<1>8. ASSUME NEW a \in Pursued, NEW accept \in BOOLEAN, RespondToOffer(r, a, accept) PROVE Told'
  <2>1. offer[a] = "Sent"
      BY <1>8 DEF RespondToOffer, Begin
  <2>2. CASE accept
    <3> DEFINE t == [Resting EXCEPT !.app = a, !.accept = accept, !.to = "OFFER_ACCEPTED",
                                    !.todo = <<"answer", "latest", "move">>]
    <3>1. Launch(r, t)
        BY <1>8, <2>2 DEF RespondToOffer, Begin
    <3>2. t.app = a /\ t.accept = accept /\ t.to = "OFFER_ACCEPTED" /\ t.todo = <<"answer", "latest", "move">>
        BY DEF Resting
    <3> HIDE DEF t
    <3>3. Calm => ToldTask(t)
        BY <1>4, <2>1, <2>2, <3>2 DEF ToldTask, Starts
    <3> QED
        BY <3>1, <3>3, ToldBegin
  <2>3. CASE ~accept
    <3> DEFINE t == [Resting EXCEPT !.app = a, !.accept = accept, !.to = "none", !.todo = <<"answer">>]
    <3>1. Launch(r, t)
        BY <1>8, <2>3 DEF RespondToOffer, Begin
    <3>2. t.app = a /\ t.accept = accept /\ t.todo = <<"answer">>
        BY DEF Resting
    <3> HIDE DEF t
    <3>3. Calm => ToldTask(t)
        BY <1>4, <2>1, <2>3, <3>2 DEF ToldTask, Starts
    <3> QED
        BY <3>1, <3>3, ToldBegin
  <2> QED
      BY <2>2, <2>3
<1>9. ASSUME NEW a \in Pursued, Joined(r, a) \/ MarkJoined(r, a) PROVE Told'
  <2>1. ASSUME NEW l \in {<<"join", "latest", "move">>, <<"latest", "move">>}, offer[a] = "Accepted",
               Launch(r, [Resting EXCEPT !.app = a, !.to = "JOINED", !.todo = l])
        PROVE  Told'
    <3> DEFINE t == [Resting EXCEPT !.app = a, !.to = "JOINED", !.todo = l]
    <3>1. t.app = a /\ t.to = "JOINED" /\ t.todo = l
        BY DEF Resting
    <3> HIDE DEF t
    <3>2. Head(l) \in {"join", "latest"}
        BY <1>4
    <3>3. ToldTask(t)
        BY <2>1, <3>1, <3>2, Promise DEF ToldTask, Starts, Stages
    <3> QED
        BY <2>1, <3>3, ToldBegin DEF t
  <2> QED
      BY <1>9, <2>1 DEF Joined, MarkJoined, Begin
<1>10. ASSUME NEW t, Launch(r, t), t.todo # <<>> => Head(t.todo) \notin ToldStatements PROVE Told'
  <2>1. ToldTask(t)
      BY <1>10, Untold DEF Starts
  <2> QED
      BY <1>10, <2>1, ToldBegin
<1>11. /\ Head(<<"verdict">>) = "verdict" /\ Head(<<"verdict", "handOff">>) = "verdict"
       /\ Head(<<"logVerdict", "verdict", "handOff">>) = "logVerdict" /\ Head(<<"forward">>) = "forward"
       /\ Head(<<"approve">>) = "approve"
    OBVIOUS
<1>12. ASSUME NEW a \in Pursued, Forward(r, a) \/ Approve(r, a) PROVE Told'
  <2>1. ASSUME NEW l \in {<<"forward">>, <<"approve">>}, Launch(r, [Resting EXCEPT !.app = a, !.todo = l]) PROVE Told'
    <3> DEFINE t == [Resting EXCEPT !.app = a, !.todo = l]
    <3>1. t.todo = l
        BY DEF Resting
    <3> HIDE DEF t
    <3>2. Head(t.todo) \notin ToldStatements
        BY <1>11, <3>1 DEF ToldStatements
    <3> QED
        BY <1>10, <2>1, <3>2 DEF t
  <2> QED
      BY <1>12, <2>1 DEF Forward, Approve, Begin
<1>13. ASSUME NEW a \in Pursued, NEW d, NEW v, ReviewApplicantDocument(r, a, d, v) PROVE Told'
  <2> DEFINE t == [Resting EXCEPT !.app = a, !.doc = {d}, !.verdict = v, !.todo = <<"logVerdict", "verdict", "handOff">>]
  <2>1. Launch(r, t)
      BY <1>13 DEF ReviewApplicantDocument, Begin
  <2>2. t.todo = <<"logVerdict", "verdict", "handOff">>
      BY DEF Resting
  <2> HIDE DEF t
  <2>3. Head(t.todo) \notin ToldStatements
      BY <1>11, <2>2 DEF ToldStatements
  <2> QED
      BY <1>10, <2>1, <2>3
<1>14. ASSUME NEW d, NEW v, Verify(r, d) \/ ReviewDocument(r, d, v) PROVE Told'
  <2>1. ASSUME NEW w, Launch(r, [Resting EXCEPT !.doc = {d}, !.verdict = w, !.todo = <<"verdict">>]) PROVE Told'
    <3> DEFINE t == [Resting EXCEPT !.doc = {d}, !.verdict = w, !.todo = <<"verdict">>]
    <3>1. t.todo = <<"verdict">>
        BY DEF Resting
    <3> HIDE DEF t
    <3>2. Head(t.todo) \notin ToldStatements
        BY <1>11, <3>1 DEF ToldStatements
    <3> QED
        BY <1>10, <2>1, <3>2 DEF t
  <2> QED
      BY <1>14, <2>1 DEF Verify, ReviewDocument, Begin
<1>15. ASSUME NEW d, SendBack(r, d) PROVE Told'
  <2>1. PICK l \in {<<"verdict">>, <<"verdict", "handOff">>} :
            Launch(r, [Resting EXCEPT !.doc = {d}, !.app = MapOf(d), !.verdict = "unverified", !.todo = l])
      BY <1>15 DEF SendBack, Begin
  <2> DEFINE t == [Resting EXCEPT !.doc = {d}, !.app = MapOf(d), !.verdict = "unverified", !.todo = l]
  <2>2. t.todo = l
      BY DEF Resting
  <2>3. Launch(r, t)
      BY <2>1
  <2> HIDE DEF t
  <2>4. Head(t.todo) \notin ToldStatements
      BY <1>11, <2>2 DEF ToldStatements
  <2> QED
      BY <1>10, <2>3, <2>4
<1>16. ASSUME NEW a \in Pursued, NEW s, MoveTo(r, a, s), s \in Stages,
              Calm => (s \in OfferStages => s \in OfferTold[offer[a]])
       PROVE  Told'
  <2>1. PICK t : t = [Resting EXCEPT !.app = a, !.to = s, !.todo = <<"latest", "move">>]
      OBVIOUS
  <2>2. Launch(r, t)
      BY <1>16, <2>1 DEF MoveTo
  <2>3. t.app = a /\ t.to = s /\ t.todo = <<"latest", "move">>
      BY <2>1 DEF Resting
  <2>4. Calm => ToldTask(t)
      BY <1>4, <1>16, <2>3 DEF ToldTask, Starts
  <2> QED
      BY <2>2, <2>4, ToldBegin
<1>17. \A s \in {"MAPPED", "MARKED", "SELECTED"} : s \in Stages /\ s \notin OfferStages
    BY DEF Stages, OfferStages
<1>18. ASSUME NEW a \in Pursued, ScheduleInterview(r, a) \/ UpdateInterviewStatus(r, a) \/ CreateRound(r, a)
       PROVE  Told'
    BY <1>16, <1>17, <1>18 DEF ScheduleInterview, UpdateInterviewStatus, CreateRound
<1>19. ASSUME NEW a \in Pursued, SelectSlot(r, a) PROVE Told'
  <2>1. PICK s : s = status[a]
      OBVIOUS
  <2>2. MoveTo(r, a, s) /\ s \in Stages
      BY <1>3, <1>19, <2>1 DEF SelectSlot, MoveTo, Applied, Inv, DataOK
  <2>3. Calm => (s \in OfferStages => s \in OfferTold[offer[a]])
      BY <1>2, <1>3, <2>1 DEF AppTold, StatusTold
  <2> QED
      BY <1>16, <2>2, <2>3
<1>20. ASSUME NEW a \in Pursued, NEW s \in Stages, SubmitResult(r, a, s) \/ DecideApplicant(r, a, s) PROVE Told'
    BY <1>16, <1>17, <1>20 DEF SubmitResult, DecideApplicant
<1>21. ASSUME NEW a \in Pursued, NEW s \in Stages, UndoApplicantDecision(r, a, s) PROVE Told'
  <2>1. MoveTo(r, a, s) /\ s \in {logged[a], "MAPPED"}
      BY <1>21 DEF UndoApplicantDecision
  <2>2. Calm => (s \in OfferStages => s \in OfferTold[offer[a]])
      BY <1>2, <1>3, <1>17, <2>1 DEF AppTold, LogTold
  <2> QED
      BY <1>16, <2>1, <2>2
<1>22. CASE \E a \in Pursued :
                \/ ScheduleInterview(r, a) \/ UpdateInterviewStatus(r, a) \/ CreateRound(r, a) \/ SelectSlot(r, a)
                \/ \E s \in Stages : SubmitResult(r, a, s) \/ DecideApplicant(r, a, s) \/ UndoApplicantDecision(r, a, s)
    BY <1>18, <1>19, <1>20, <1>21, <1>22
<1> QED
    BY <1>5, <1>6, <1>7, <1>8, <1>9, <1>12, <1>13, <1>14, <1>15, <1>22 DEF Start

LEMMA InstantTold ==
    ASSUME Inv, Serial, Told, Instant
    PROVE  Told'
<1> SUFFICES ASSUME Calm' PROVE Told'
    BY DEF Told
<1>1. Calm /\ Quiet
    BY DEF Instant, Apply, UpdatePipelineStage, RequestApplicantDocuments, Request, AssignDocuments, UploadDocument,
           Arrive, Alone, Calm, Inv, DataOK
<1>2. \A a \in Apps : AppTold(a)
    BY <1>1, QuietTold
<1>3. ASSUME UNCHANGED task, \A a \in Apps : AppTold(a)' PROVE Told'
  <2>1. ASSUME NEW q \in Requests PROVE ToldTask(task[q])'
      BY <1>1, <1>3 DEF ToldTask, Starts, Quiet, Idle
  <2> QED
      BY <1>3, <2>1 DEF Told
<1>4. ASSUME NEW a \in Apps, Apply(a) PROVE Told'
  <2>1. /\ status[a] = "none" /\ UNCHANGED <<aside, offer, task>>
        /\ status' = [status EXCEPT ![a] = "MAPPED"] /\ logged' = [logged EXCEPT ![a] = "MAPPED"]
      BY <1>4 DEF Apply, Applied, offerVars
  <2>2. ASSUME NEW b \in Apps, b # a PROVE AppTold(b)'
    <3>1. status'[b] = status[b] /\ logged'[b] = logged[b]
        BY <2>1, <2>2 DEF Inv, DataOK
    <3> QED
        BY <1>2, <2>1, <3>1 DEF AppTold, StatusTold, LogTold
  <2>3. AppTold(a)'
    <3>1. status'[a] = "MAPPED" /\ logged'[a] = "MAPPED" /\ "MAPPED" \notin OfferStages
        BY <2>1 DEF Inv, DataOK, OfferStages
    <3>2. offer[a] = "none" \/ a \in aside
        BY <1>2, <2>1, Promise DEF AppTold, StatusTold, Inv, DataOK
    <3> QED
        BY <2>1, <3>1, <3>2, Promise DEF AppTold, StatusTold, LogTold
  <2> QED
      BY <1>3, <2>1, <2>2, <2>3
<1>5. ASSUME NEW a, NEW s, UpdatePipelineStage(a, s) PROVE Told'
    BY <1>5 DEF UpdatePipelineStage, Calm
<1>6. ASSUME NEW a, NEW D, Request(a, D) \/ RequestApplicantDocuments(a, D) \/ AssignDocuments(D) PROVE Told'
  <2>1. UNCHANGED task /\ UNCHANGED <<statusVars, offer>>
      BY <1>6 DEF Request, RequestApplicantDocuments, AssignDocuments, offerVars
  <2> QED
      BY <1>2, <1>3, <2>1, SameTold
<1>7. ASSUME NEW d \in Docs, UploadDocument(d) PROVE Told'
  <2>1. \A q \in Requests : task[q].doc = {}
      BY <1>1 DEF Inv, TasksAgree, Agrees, Quiet, Idle
  <2>2. UNCHANGED task /\ UNCHANGED <<statusVars, offer>>
      BY <1>7, <2>1 DEF UploadDocument, Replaced, Inv, offerVars
  <2> QED
      BY <1>2, <1>3, <2>2, SameTold
<1> QED
    BY <1>4, <1>5, <1>6, <1>7 DEF Instant

LEMMA NextKeepsTold == Inv /\ Serial /\ Told /\ [Next]_vars => Told'
<1> SUFFICES ASSUME Inv, Serial, Told, [Next]_vars PROVE Told'
    OBVIOUS
<1>1. CASE UNCHANGED vars
    BY <1>1 DEF vars, statusVars, offerVars, runVars, Told, ToldTask, Starts, AppTold, StatusTold, LogTold, Moving,
                Calm, Alone
<1>2. CASE Restart
    BY <1>2 DEF Restart, Told, Calm
<1>3. CASE Next /\ ~Restart
    BY <1>3, StartTold, StepTold, InstantTold DEF Next
<1> QED
    BY <1>1, <1>2, <1>3

\* Sending, answering and joining write the offer and the status in this order, each of four
\* routes both of them, so that the two agree when the handlers are through. A handler that
\* knows of no offer may move the application past that, but only to a stage that tells nothing
\* of an offer, and the log holds no stage of an offer that an undo could bring back wrongly.
THEOREM OffersAreTold == Spec => []OfferStatusAgrees
<1>1. Init => Told
  <2> SUFFICES ASSUME Init PROVE Told
      OBVIOUS
  <2>1. \A r \in Requests : ~Starts(task[r], ToldStatements)
      BY RestingType DEF Init, Starts
  <2>2. \A a \in Apps : AppTold(a)
      BY Promise DEF Init, AppTold, StatusTold, LogTold
  <2> QED
      BY <2>1, <2>2, Untold DEF Told
<1>2. Told => OfferStatusAgrees
    BY QuietTold DEF OfferStatusAgrees, AppTold, StatusTold, Calm
<1> QED
    BY <1>1, <1>2, SerialAlways, NextKeepsTold, PTL DEF Spec

=============================================================================
