--------------------------- MODULE WebSessionProofs ---------------------------
(***************************************************************************)
(* Proofs about WebSession for any users, any number of handlers in flight *)
(* and any number of events.                                               *)
(***************************************************************************)
EXTENDS WebSession, TLAPS

-----------------------------------------------------------------------------
(* The invariant *)

Kinds == {None, "login", "signup", "password", "select", "continue", "delete", "exit", "logout",
          "accept", "decline"}
Steps == {"idle", "post", "signin", "refetch", "settle", "join", "lookup", "await", "joined", "go"}
Someone == Users \union {None}
Anywhere == Paths \union {None}
Locations == [path : Anywhere, back : {None, "app", "accept"}, invite : BOOLEAN]
Data == [user : Someone, must : BOOLEAN, ready : BOOLEAN]
Tasks == [kind : Kinds, user : Someone, step : Steps, from : Locations, ready : BOOLEAN, done : BOOLEAN]

Queries == [status : {0, 200, 401, 404, 500}, data : Data, unseen : SUBSET Changes]
Answers == [data : Data, stale : BOOLEAN, unseen : SUBSET Changes]

\* No cookie is made for a user before there is an account.
ServerTypes ==
  /\ acct \in [Users -> {NoAccount, Deleted} \union Accounts]
  /\ invite \in {"pending", "accepted", "declined", "revoked"}
  /\ cookie \in Someone
  /\ cookie # None => acct[cookie].row # "none"
QueryTypes ==
  /\ me \in Answers
  /\ me.data = NoOne => me = NoMe
  /\ get \in Queries
PlaceTypes ==
  /\ demo \in BOOLEAN
  /\ page \in Locations /\ nav \in Locations
  /\ live \in [slot : Slots \union {None}, user : Someone]

\* What a handler has done by the step it is at, and which handlers get there.
TaskSound(t, fetching) ==
  /\ t.step \in {"signin", "refetch", "settle", "join", "await", "joined", "go"} => t.done
  /\ t.step \in {"post", "lookup"} => ~t.done
  /\ t.step \in {"signin", "join"} => t.kind = "signup"
  /\ t.step = "lookup" => t.kind = "accept"
  /\ t.step \in {"refetch", "settle"} => t.kind \in {"login", "signup", "password", "continue"}
  /\ t.step \in {"await", "joined", "go"} => t.kind \in {"login", "signup", "password", "select", "continue"}
  /\ t.step \in {"await", "joined", "refetch"} => fetching
  /\ t.kind \in {"login", "signup"} => t.user \in Users
TasksSound ==
  /\ task \in [Slots -> Tasks]
  /\ \A s \in Slots : TaskSound(task[s], Fetching)

\* A change that no fetch of this tab makes good, for the name the workspace shows and for
\* what a guard decides by.
Excused(unseen) == unseen \intersect {"lost", "failed", "elsewhere"} # {}
Outdated(unseen) == unseen \intersect {"password", "accept", "joined", "lost", "failed", "elsewhere"} # {}
\* A sign-in that took the answer to a fetch sent before it for its own.
Joined(unseen) == {"joined", "signin"} \subseteq unseen
\* Handlers that have changed the account and are still to refresh /me: by invalidating it or
\* asking for it next, or after the invite they go on to accept.
SigningOn == \E s \in Slots : /\ task[s].step \in {"signin", "refetch", "settle", "join"}
                              /\ task[s].kind \in {"login", "signup"}
RenewingOn == \E s \in Slots : /\ task[s].step \in {"signin", "refetch", "settle", "join"}
                               /\ task[s].kind \in {"login", "signup", "continue"}

MeSound ==
  /\ me.data.user \notin {None, cookie} =>
       me.stale \/ Fetching \/ Excused(me.unseen) \/ Joined(me.unseen) \/ SigningOn
  /\ me.data \notin {NoOne, Snapshot} => Fetching \/ Outdated(me.unseen) \/ RenewingOn
GetSound ==
  /\ ~Fetching => get = NoGet
  /\ get.status = 200 <=> get.data # NoOne
  /\ get.data.user \notin {None, cookie} =>
       Excused(get.unseen) \/ Joined(get.unseen) \/ ("signin" \in get.unseen /\ SigningOn)
  /\ get.data \notin {NoOne, Snapshot} => Outdated(get.unseen) \/ RenewingOn
  /\ Fetching /\ get.unseen = {} => get.status = 500 \/ get.data = Snapshot

SessionInv ==
  /\ ServerTypes /\ QueryTypes /\ PlaceTypes /\ left \in 0 .. MaxEvents
  /\ TasksSound /\ MeSound /\ GetSound
  /\ ReportsExplained

-----------------------------------------------------------------------------
(* Shapes of the data *)

LEMMA Shapes ==
  /\ NoOne \in Data /\ NoOne.user = None
  /\ NoMe \in Answers /\ NoMe.data = NoOne /\ NoMe.unseen = {}
  /\ NoGet \in Queries
  /\ NoGet.status = 0 /\ NoGet.data = NoOne /\ NoGet.unseen = {}
  /\ Nowhere \in Locations /\ \A path \in Anywhere : At(path) \in Locations /\ At(path).path = path
  /\ Idle \in Tasks /\ Idle.step = "idle" /\ Idle.kind = None
  /\ NotLive \in [slot : Slots \union {None}, user : Someone]
<1>1. NoOne \in Data /\ NoOne.user = None
  BY DEF NoOne, Data, Someone
<1>2. \A path \in Anywhere : At(path) \in Locations /\ At(path).path = path
  BY DEF At, Locations
<1>3. Nowhere \in Locations
  BY <1>2 DEF Nowhere, Anywhere
<1>4. Idle \in Tasks /\ Idle.step = "idle" /\ Idle.kind = None
  BY <1>3 DEF Idle, Task, Tasks, Kinds, Someone, Steps
<1> QED BY <1>1, <1>2, <1>3, <1>4 DEF NoMe, NoGet, NotLive, Someone, Queries, Answers

LEMMA AccountMembers ==
  ASSUME NEW must \in BOOLEAN, NEW plan \in BOOLEAN, NEW team \in BOOLEAN
  PROVE  Account("there", must, plan, team) \in Accounts
BY DEF Accounts

LEMMA AccountFields ==
  ASSUME NEW row, NEW must, NEW plan, NEW team
  PROVE  \A a, b : a = Account(row, must, plan, team) =>
         /\ a.row = row /\ a.must = must /\ a.plan = plan /\ a.team = team
         /\ [a EXCEPT !.row = b] = Account(b, must, plan, team)
         /\ [a EXCEPT !.must = b] = Account(row, b, plan, team)
         /\ [a EXCEPT !.plan = b] = Account(row, must, b, team)
         /\ [a EXCEPT !.team = b] = Account(row, must, plan, b)
BY DEF Account

LEMMA AccountShapes ==
  \A a \in {NoAccount, Deleted} \union Accounts :
    /\ a.row \in {"none", "there", "deleted"} /\ a.must \in BOOLEAN /\ a.plan \in BOOLEAN /\ a.team \in BOOLEAN
    /\ a.row = "there" => \A b \in BOOLEAN : /\ [a EXCEPT !.must = b] \in Accounts
                                            /\ [a EXCEPT !.plan = b] \in Accounts
                                            /\ [a EXCEPT !.team = b] \in Accounts
    /\ a.row = "none" => [a EXCEPT !.row = "there"] \in Accounts
<1>1. ASSUME NEW a, a = NoAccount
      PROVE  a.row = "none" /\ a.must = FALSE /\ a.plan = FALSE /\ a.team = FALSE /\ [a EXCEPT !.row = "there"] \in Accounts
  <2>0. a = Account("none", FALSE, FALSE, FALSE)
    BY <1>1, Zenon DEF NoAccount
  <2>1. [a EXCEPT !.row = "there"] = Account("there", FALSE, FALSE, FALSE)
    <3> DEFINE f == FALSE
    <3> HIDE DEF f
    <3>1. a = Account("none", f, f, f)
      BY <2>0, Zenon DEF f
    <3>2. [a EXCEPT !.row = "there"] = Account("there", f, f, f)
      BY <3>1, AccountFields
    <3> QED BY <3>2, Zenon DEF f
  <2>2. Account("there", FALSE, FALSE, FALSE) \in Accounts
    BY AccountMembers
  <2>3. a.row = "none" /\ a.must = FALSE /\ a.plan = FALSE /\ a.team = FALSE
    BY <1>1 DEF NoAccount, Account
  <2> QED BY <2>1, <2>2, <2>3
<1>2. ASSUME NEW a, a = Deleted
      PROVE  a.row = "deleted" /\ a.must = FALSE /\ a.plan = FALSE /\ a.team = FALSE
  BY <1>2 DEF Deleted, Account
<1>3. ASSUME NEW must \in BOOLEAN, NEW plan \in BOOLEAN, NEW team \in BOOLEAN, NEW a, a = Account("there", must, plan, team)
      PROVE  /\ a.row = "there" /\ a.must \in BOOLEAN /\ a.plan \in BOOLEAN /\ a.team \in BOOLEAN
             /\ \A b \in BOOLEAN : /\ [a EXCEPT !.must = b] \in Accounts
                                  /\ [a EXCEPT !.plan = b] \in Accounts
                                  /\ [a EXCEPT !.team = b] \in Accounts
  <2>1. ASSUME NEW b \in BOOLEAN
        PROVE  /\ [a EXCEPT !.must = b] = Account("there", b, plan, team)
               /\ [a EXCEPT !.plan = b] = Account("there", must, b, team)
               /\ [a EXCEPT !.team = b] = Account("there", must, plan, b)
    BY <1>3 DEF Account
  <2>2. a.row = "there" /\ a.must \in BOOLEAN /\ a.plan \in BOOLEAN /\ a.team \in BOOLEAN
    BY <1>3 DEF Account
  <2> QED BY <2>1, <2>2, AccountMembers
<1>4. \A a \in Accounts : a = NoAccount \/ \E must, plan, team \in BOOLEAN : a = Account("there", must, plan, team)
  BY DEF Accounts
<1>5. "none" # "there" /\ "deleted" # "there" /\ "deleted" # "none"
  OBVIOUS
<1> TAKE a \in {NoAccount, Deleted} \union Accounts
<1>6. CASE a = NoAccount
  BY <1>1, <1>5, <1>6
<1>7. CASE a = Deleted
  BY <1>2, <1>5, <1>7
<1>8. CASE a \in Accounts /\ a # NoAccount
  <2>1. PICK must \in BOOLEAN, plan \in BOOLEAN, team \in BOOLEAN : a = Account("there", must, plan, team)
    BY <1>4, <1>8
  <2> QED BY <1>3, <1>5, <2>1
<1> QED BY <1>6, <1>7, <1>8

\* What /me says is of whom the cookie names.
LEMMA SnapshotShape ==
  ASSUME acct \in [Users -> {NoAccount, Deleted} \union Accounts], cookie \in Someone
  PROVE  Snapshot \in Data /\ Snapshot.user \in {None, cookie}
<1>1. CASE cookie = None \/ ~There(cookie)
  BY <1>1, Shapes DEF Snapshot
<1>2. CASE ~(cookie = None \/ ~There(cookie))
  <2>1. cookie \in Users
    BY <1>2 DEF Someone
  <2>2. acct[cookie].must \in BOOLEAN /\ (acct[cookie].plan \/ acct[cookie].team) \in BOOLEAN
    BY <2>1, AccountShapes
  <2>3. Snapshot = [user |-> cookie, must |-> acct[cookie].must, ready |-> acct[cookie].plan \/ acct[cookie].team]
    BY <1>2 DEF Snapshot
  <2> QED BY <2>2, <2>3 DEF Data
<1> QED BY <1>1, <1>2

LEMMA AskedSound ==
  ASSUME acct \in [Users -> {NoAccount, Deleted} \union Accounts], cookie \in Someone
  PROVE  /\ Asked \in Queries
         /\ Asked.status # 0 /\ Asked.data \in {NoOne, Snapshot} /\ Asked.unseen = {}
         /\ Asked.status = 200 <=> Asked.data # NoOne
         /\ Asked.status = 500 \/ Asked.data = Snapshot
<1>1. Snapshot \in Data /\ NoOne \in Data
  BY SnapshotShape, Shapes
<1>2. cookie = None => Snapshot = NoOne
  BY DEF Snapshot
<1> QED BY <1>1, <1>2 DEF Asked, Queries

LEMMA AskedNow ==
  acct \in [Users -> {NoAccount, Deleted} \union Accounts] /\ cookie \in Someone /\ get = Asked
  => /\ get \in Queries
     /\ Fetching /\ GetSound /\ MeSound
<1> SUFFICES ASSUME acct \in [Users -> {NoAccount, Deleted} \union Accounts], cookie \in Someone, get = Asked
             PROVE  /\ get \in Queries
                    /\ Fetching /\ GetSound /\ MeSound
  OBVIOUS
<1>1. Snapshot.user \in {None, cookie} /\ NoOne.user = None
  BY SnapshotShape, Shapes
<1> QED BY <1>1, AskedSound DEF GetSound, MeSound, Fetching

LEMMA AskedAnew ==
  (acct \in [Users -> {NoAccount, Deleted} \union Accounts])' /\ (cookie \in Someone)' /\ (get = Asked)'
  => /\ (get \in Queries)'
     /\ Fetching' /\ GetSound' /\ MeSound'
BY AskedNow, PTL

-----------------------------------------------------------------------------
(* What happens to the query *)

\* /me and its fetch stay what they are, and so does what the API would say.
LEMMA QueryKept ==
  ASSUME MeSound, GetSound, me' = me, get' = get, cookie' = cookie, Snapshot' = Snapshot,
         SigningOn => SigningOn', RenewingOn => RenewingOn'
  PROVE  MeSound' /\ GetSound'
<1>1. Fetching' = Fetching
  BY DEF Fetching
<1>2. get = NoGet => get.data.user = None /\ get.data = NoOne
  BY Shapes
<1> QED BY <1>1, <1>2 DEF MeSound, GetSound

\* Data that are stale from now on.
LEMMA Staled ==
  ASSUME QueryTypes, NEW change \in Changes
  PROVE  LET m == IF me.data = NoOne THEN me ELSE [me EXCEPT !.stale = TRUE, !.unseen = @ \union {change}]
         IN  /\ m \in Answers /\ m.data = me.data /\ (m.data = NoOne => m = NoMe)
             /\ me.data # NoOne => m.stale /\ m.unseen = me.unseen \union {change}
BY DEF QueryTypes, Answers

\* A change that both are told of.
LEMMA QueryTold ==
  ASSUME QueryTypes, MeSound, GetSound, NEW change \in Changes,
         \/ me' = IF me.data = NoOne THEN me ELSE [me EXCEPT !.unseen = @ \union {change}]
         \/ me' = IF me.data = NoOne THEN me ELSE [me EXCEPT !.stale = TRUE, !.unseen = @ \union {change}],
         get' = IF Fetching THEN [get EXCEPT !.unseen = @ \union {change}] ELSE get,
         \/ change \in {"lost", "failed", "elsewhere"}
         \/ change = "signin" /\ SigningOn' /\ RenewingOn'
         \/ /\ cookie' = cookie
            /\ SigningOn => SigningOn'
            /\ change \in {"password", "accept"} \/ RenewingOn'
  PROVE  QueryTypes' /\ MeSound' /\ GetSound' /\ (Fetching => Fetching')
<1>1. me \in Answers /\ get \in Queries /\ me.unseen \subseteq Changes /\ get.unseen \subseteq Changes
  BY DEF QueryTypes, Answers, Queries
<1>2. /\ me' \in Answers /\ me'.data = me.data /\ (me.stale => me'.stale)
      /\ me.data # NoOne => me'.unseen = me.unseen \union {change}
      /\ me.data = NoOne => me' = me
  BY <1>1, Staled DEF Answers
<1>3. /\ get' \in Queries /\ get'.data = get.data /\ get'.status = get.status
      /\ Fetching => get'.unseen = get.unseen \union {change}
      /\ ~Fetching => get' = get
  BY <1>1 DEF Queries
<1>4. Fetching' = Fetching
  BY <1>3 DEF Fetching
<1>5. QueryTypes'
  BY <1>2, <1>3 DEF QueryTypes
<1>6. NoOne.user = None /\ (~Fetching => get'.data = NoOne)
  BY <1>3, Shapes DEF GetSound
<1>7. MeSound'
  <2>1. me.data # NoOne => change \in me'.unseen /\ me.unseen \subseteq me'.unseen
    BY <1>2
  <2>2. Excused(me.unseen) /\ me.data # NoOne => Excused(me'.unseen)
    BY <2>1 DEF Excused
  <2>5. Joined(me.unseen) /\ me.data # NoOne => Joined(me'.unseen)
    BY <2>1 DEF Joined
  <2>3. change \in {"lost", "failed", "elsewhere"} /\ me.data # NoOne => Excused(me'.unseen) /\ Outdated(me'.unseen)
    BY <2>1 DEF Excused, Outdated
  <2>4. change \in {"password", "accept"} /\ me.data # NoOne => Outdated(me'.unseen)
    BY <2>1 DEF Outdated
  <2> QED BY <1>2, <1>4, <1>6, <2>2, <2>3, <2>4, <2>5 DEF MeSound
<1>8. GetSound'
  <2>1. Fetching => change \in get'.unseen /\ get.unseen \subseteq get'.unseen /\ get'.unseen # {}
    BY <1>3
  <2>2. Excused(get.unseen) /\ Fetching => Excused(get'.unseen)
    BY <2>1 DEF Excused
  <2>5. Joined(get.unseen) /\ Fetching => Joined(get'.unseen)
    BY <2>1 DEF Joined
  <2>3. change \in {"lost", "failed", "elsewhere"} /\ Fetching => Excused(get'.unseen) /\ Outdated(get'.unseen)
    BY <2>1 DEF Excused, Outdated
  <2>4. change \in {"password", "accept"} /\ Fetching => Outdated(get'.unseen)
    BY <2>1 DEF Outdated
  <2> QED BY <1>3, <1>4, <1>6, <2>1, <2>2, <2>3, <2>4, <2>5 DEF GetSound
<1> QED BY <1>4, <1>5, <1>7, <1>8

\* Data taken out of the cache; what is in flight goes with them, or there is nothing.
LEMMA QueryDropped ==
  ASSUME me' = NoMe, get' = NoGet
  PROVE  QueryTypes' /\ MeSound' /\ GetSound' /\ ~Fetching'
<1>1. ~Fetching'
  BY Shapes DEF Fetching
<1>2. QueryTypes'
  BY Shapes DEF QueryTypes
<1> QED BY <1>1, <1>2, Shapes DEF MeSound, GetSound

\* The query is asked anew: whatever the data, a fetch is under way.
LEMMA QueryAsked ==
  ASSUME QueryTypes, ServerTypes', get' = Asked',
         me' \in Answers, me'.data = NoOne => me' = NoMe
  PROVE  QueryTypes' /\ MeSound' /\ GetSound' /\ Fetching'
BY AskedAnew DEF QueryTypes, ServerTypes

-----------------------------------------------------------------------------
(* What happens to the handlers *)

\* What becomes of a handler when another one takes a step.
GoesOn(x) ==
  \/ task'[x] = task[x]
  \/ task[x].step \in {"await", "joined"} /\ task'[x] = Idle
  \/ task[x].step = "refetch" /\ task'[x].step = "settle" /\ task'[x].kind = task[x].kind

LEMMA SettledSound ==
  ASSUME NEW t \in Tasks, TaskSound(t, TRUE)
  PROVE  /\ Settled(t) \in Tasks
         /\ t.step = "refetch" => Settled(t).step = "settle" /\ Settled(t).kind = t.kind
         /\ t.step # "refetch" => Settled(t) = t
         /\ t.step \notin {"await", "joined"} => TaskSound(Settled(t), FALSE)
<1>1. CASE t.step # "refetch"
  BY <1>1 DEF Settled, TaskSound
<1>2. CASE t.step = "refetch"
  <2> DEFINE d == [t EXCEPT !.step = "settle"]
  <2>1. Settled(t) = d
    BY <1>2 DEF Settled
  <2>2. d \in Tasks /\ d.step = "settle" /\ d.kind = t.kind /\ d.done = t.done /\ d.user = t.user
    BY DEF Tasks, Steps
  <2> HIDE DEF d
  <2>3. TaskSound(d, FALSE)
    BY <1>2, <2>2 DEF TaskSound
  <2> QED BY <1>2, <2>1, <2>2, <2>3
<1> QED BY <1>1, <1>2

LEMMA Failing ==
  ASSUME TasksSound
  PROVE  /\ FailTasks \in [Slots -> Tasks]
         /\ \A x \in Slots : /\ TaskSound(FailTasks[x], FALSE)
                            /\ \/ FailTasks[x] = task[x]
                               \/ task[x].step \in {"await", "joined"} /\ FailTasks[x] = Idle
                               \/ /\ task[x].step = "refetch"
                                  /\ FailTasks[x].step = "settle" /\ FailTasks[x].kind = task[x].kind
<1>1. ASSUME NEW x \in Slots
      PROVE  /\ FailTasks[x] \in Tasks /\ TaskSound(FailTasks[x], FALSE)
             /\ \/ FailTasks[x] = task[x]
                \/ task[x].step \in {"await", "joined"} /\ FailTasks[x] = Idle
                \/ task[x].step = "refetch" /\ FailTasks[x].step = "settle" /\ FailTasks[x].kind = task[x].kind
  <2>1. task[x] \in Tasks /\ TaskSound(task[x], TRUE)
    BY DEF TasksSound, TaskSound
  <2>2. FailTasks[x] = IF task[x].step \in {"await", "joined"} THEN Idle ELSE Settled(task[x])
    BY DEF FailTasks, Pending
  <2>3. Idle \in Tasks /\ TaskSound(Idle, FALSE)
    BY Shapes DEF TaskSound, None
  <2>4. CASE task[x].step \in {"await", "joined"}
    BY <2>2, <2>3, <2>4
  <2>5. CASE task[x].step \notin {"await", "joined"}
    BY <2>1, <2>2, <2>5, SettledSound
  <2> QED BY <2>4, <2>5
<1>2. FailTasks = [x \in Slots |-> FailTasks[x]]
  BY DEF FailTasks
<1> QED BY <1>1, <1>2

LEMMA TaskMoves ==
  ASSUME TasksSound, NEW s \in Slots, NEW t \in Tasks,
         \/ task' = [task EXCEPT ![s] = t] /\ (Fetching => Fetching')
         \/ task' = [FailTasks EXCEPT ![s] = t]
         \/ /\ task' = [x \in Slots |-> IF x = s THEN t ELSE IF x \in Joining THEN Idle ELSE task[x]]
            /\ Fetching => Fetching',
         TaskSound(t, Fetching')
  PROVE  /\ TasksSound' /\ task'[s] = t
         /\ \A x \in Slots \ {s} : GoesOn(x)
<1>1. task \in [Slots -> Tasks] /\ \A x \in Slots : TaskSound(task[x], Fetching)
  BY DEF TasksSound
<1>2. Idle \in Tasks /\ TaskSound(Idle, FALSE)
  BY Shapes DEF TaskSound, None
<1>3. /\ task' \in [Slots -> Tasks] /\ task'[s] = t
      /\ \A x \in Slots \ {s} : GoesOn(x) /\ TaskSound(task'[x], Fetching')
  <2>1. CASE task' = [task EXCEPT ![s] = t] /\ (Fetching => Fetching')
    <3>1. task' \in [Slots -> Tasks] /\ task'[s] = t /\ \A x \in Slots \ {s} : task'[x] = task[x]
      BY <1>1, <2>1
    <3> QED BY <1>1, <2>1, <3>1 DEF GoesOn, TaskSound
  <2>2. CASE task' = [FailTasks EXCEPT ![s] = t]
    <3>1. FailTasks \in [Slots -> Tasks]
      BY Failing
    <3>2. task' \in [Slots -> Tasks] /\ task'[s] = t /\ \A x \in Slots \ {s} : task'[x] = FailTasks[x]
      BY <2>2, <3>1
    <3>3. \A x \in Slots \ {s} : TaskSound(task'[x], FALSE) /\ GoesOn(x)
      BY <3>2, Failing DEF GoesOn
    <3> QED BY <3>2, <3>3 DEF TaskSound
  <2>3. CASE /\ task' = [x \in Slots |-> IF x = s THEN t ELSE IF x \in Joining THEN Idle ELSE task[x]]
             /\ Fetching => Fetching'
    <3>1. \A x \in Slots : task'[x] = IF x = s THEN t ELSE IF x \in Joining THEN Idle ELSE task[x]
      BY <2>3
    <3>2. task' \in [Slots -> Tasks] /\ task'[s] = t
      BY <1>1, <1>2, <2>3
    <3>3. ASSUME NEW x \in Slots \ {s}
          PROVE  GoesOn(x) /\ TaskSound(task'[x], Fetching')
      <4>1. CASE task[x].step = "joined"
        <5>1. task'[x] = Idle
          BY <3>1, <4>1 DEF Joining
        <5> QED BY <1>2, <4>1, <5>1 DEF GoesOn, TaskSound
      <4>2. CASE task[x].step # "joined"
        <5>1. task'[x] = task[x]
          BY <3>1, <4>2 DEF Joining
        <5> QED BY <1>1, <2>3, <5>1 DEF GoesOn, TaskSound
      <4> QED BY <4>1, <4>2
    <3> QED BY <3>2, <3>3
  <2> QED BY <2>1, <2>2, <2>3
<1>4. TasksSound'
  <2>1. \A x \in Slots : TaskSound(task'[x], Fetching')
    BY <1>3
  <2> QED BY <1>3, <2>1 DEF TasksSound, TaskSound
<1> QED BY <1>3, <1>4

\* The other handlers are where they were, or nearer to their fetch of /me, unless they awaited it.
LEMMA OthersGoOn ==
  ASSUME NEW s \in Slots,
         \A x \in Slots \ {s} : GoesOn(x),
         \/ task[s].step \notin {"signin", "refetch", "settle", "join"}
         \/ task[s].kind \notin {"login", "signup", "continue"}
         \/ task'[s].step \in {"signin", "refetch", "settle", "join"} /\ task'[s].kind = task[s].kind
  PROVE  /\ SigningOn => SigningOn'
         /\ RenewingOn => RenewingOn'
<1>1. ASSUME NEW x \in Slots, task[x].step \in {"signin", "refetch", "settle", "join"},
             task[x].kind \in {"login", "signup", "continue"}
      PROVE  task'[x].step \in {"signin", "refetch", "settle", "join"} /\ task'[x].kind = task[x].kind
  BY <1>1 DEF GoesOn
<1> QED BY <1>1 DEF SigningOn, RenewingOn

LEMMA NowSigning ==
  ASSUME NEW s \in Slots, task'[s].step \in {"signin", "refetch", "settle"},
         task'[s].kind \in {"login", "signup", "continue"}
  PROVE  /\ RenewingOn'
         /\ task'[s].kind # "continue" => SigningOn'
BY DEF SigningOn, RenewingOn

-----------------------------------------------------------------------------
(* What the handlers have said *)

LEMMA Misreported ==
  ASSUME NEW t \in Tasks, NEW said, NEW why
  PROVE  \A r \in Misreport(t, said, why) :
           r.kind = t.kind /\ r.said = said /\ r.why = why /\ ~((said = "ok") <=> t.done)
<1>1. t.done \in BOOLEAN
  BY DEF Tasks
<1>2. CASE (said = "ok") = t.done
  BY <1>2 DEF Misreport
<1>3. CASE ~((said = "ok") = t.done)
  <2>1. Misreport(t, said, why) = {[kind |-> t.kind, said |-> said, why |-> why]}
    BY <1>3 DEF Misreport
  <2>2. ~((said = "ok") <=> t.done)
    BY <1>1, <1>3
  <2> QED BY <2>1, <2>2
<1> QED BY <1>2, <1>3

Fine(r) ==
  \/ r.why = "lost" /\ (r.said = "error" \/ r.kind \in {"logout", "exit"})
  \/ r.why = "me" /\ r.kind \in {"login", "signup", "password", "select", "continue"} /\ r.said = "error"
  \/ r.why = "stale" /\ r.kind \in {"select", "continue"} /\ r.said = "error"
  \/ <<r.kind, r.why>> \in {<<"signup", "refused">>, <<"decline", "again">>, <<"accept", "again">>}

LEMMA FailuresAreFine ==
  ASSUME TasksSound
  PROVE  /\ \A r \in FailReports(Pending) : Fine(r)
         /\ \A r \in FailReports(Joining) : Fine(r)
<1>1. ASSUME NEW s \in Pending, NEW r \in Misreport(task[s], "error", "me")
      PROVE  Fine(r)
  <2>1. s \in Slots /\ task[s].step \in {"await", "joined"}
    BY DEF Pending
  <2>2. task[s] \in Tasks /\ task[s].kind \in {"login", "signup", "password", "select", "continue"}
    BY <2>1 DEF TasksSound, TaskSound
  <2> QED BY <2>2, Misreported DEF Fine
<1>2. Joining \subseteq Pending
  BY DEF Joining, Pending
<1> QED BY <1>1, <1>2 DEF FailReports

LEMMA ReportsFine ==
  ASSUME \A r \in told' : Fine(r)
  PROVE  ReportsExplained'
BY DEF ReportsExplained, Fine

-----------------------------------------------------------------------------
(* The parts the handlers are made of *)

LEMMA Invalidated ==
  ASSUME QueryTypes, MeSound, GetSound, TasksSound, ServerTypes',
         NEW s \in Slots, NEW t \in Tasks, NEW change \in Changes,
         Invalidate(s, t, change), t.done, t.kind \in {"login", "signup"} => t.user \in Users,
         \/ t.kind \in {"login", "signup"} /\ change = "signin"
         \/ /\ cookie' = cookie /\ task[s].step = "post"
            /\ t.kind = "continue" \/ (t.kind = "password" /\ change = "password")
  PROVE  QueryTypes' /\ MeSound' /\ GetSound' /\ TasksSound' /\ \A r \in told' : Fine(r)
<1>1. PICK observed \in BOOLEAN : observed <=> page.path \in Observing /\ ~demo'
  OBVIOUS
<1> DEFINE anew == observed /\ (me.data # NoOne \/ ~Fetching)
           d == [t EXCEPT !.step = IF observed THEN "refetch" ELSE "settle"]
<1>2. /\ me' = IF me.data = NoOne THEN me ELSE [me EXCEPT !.stale = TRUE, !.unseen = @ \union {change}]
      /\ get' = IF anew THEN Asked' ELSE IF Fetching THEN [get EXCEPT !.unseen = @ \union {change}] ELSE get
      /\ task' = [x \in Slots |-> IF x = s THEN d ELSE IF x \in (IF anew THEN Joining ELSE {}) THEN Idle ELSE task[x]]
      /\ told' = FailReports(IF anew THEN Joining ELSE {})
  BY <1>1 DEF Invalidate
<1>3. /\ d \in Tasks /\ d.step = (IF observed THEN "refetch" ELSE "settle")
      /\ d.kind = t.kind /\ d.done = t.done /\ d.user = t.user
  BY DEF Tasks, Steps
<1>4. d.step \in {"refetch", "settle"} /\ (d.step = "refetch" => observed)
  BY <1>3
<1>5. TaskSound(d, TRUE) /\ (~observed => TaskSound(d, FALSE))
  <2> HIDE DEF d
  <2> QED BY <1>3, <1>4 DEF TaskSound
<1>6. CASE anew
  <2>1. me' \in Answers /\ (me'.data = NoOne => me' = NoMe)
    BY <1>2, Staled
  <2>2. QueryTypes' /\ MeSound' /\ GetSound' /\ Fetching'
    BY <1>2, <1>6, <2>1, QueryAsked
  <2>3. TasksSound'
    <3>1. task' = [x \in Slots |-> IF x = s THEN d ELSE IF x \in Joining THEN Idle ELSE task[x]]
      BY <1>2, <1>6
    <3>2. TaskSound(d, Fetching')
      BY <1>5, <2>2 DEF TaskSound
    <3> HIDE DEF d
    <3> QED BY <1>3, <2>2, <3>1, <3>2, TaskMoves
  <2> QED BY <1>2, <1>6, <2>2, <2>3, FailuresAreFine
<1>7. CASE ~anew
  <2>1. /\ get' = IF Fetching THEN [get EXCEPT !.unseen = @ \union {change}] ELSE get
        /\ told' = {}
    BY <1>2, <1>7 DEF FailReports
  <2>2. task' = [task EXCEPT ![s] = d]
    BY <1>2, <1>7 DEF TasksSound
  <2>3. Fetching' = Fetching
    BY <2>1 DEF Fetching, QueryTypes, Queries
  <2>4. TaskSound(d, Fetching')
    BY <1>5, <1>7, <2>3 DEF TaskSound
  <2> HIDE DEF d, anew
  <2>5. TasksSound' /\ task'[s] = d /\ \A x \in Slots \ {s} : GoesOn(x)
    BY <1>3, <2>2, <2>3, <2>4, TaskMoves
  <2>6. CASE t.kind \in {"login", "signup"} /\ change = "signin"
    <3>1. SigningOn' /\ RenewingOn'
      BY <1>3, <1>4, <2>5, <2>6, NowSigning
    <3> QED BY <1>2, <2>1, <2>5, <2>6, <3>1, QueryTold
  <2>7. CASE cookie' = cookie /\ task[s].step = "post" /\ (t.kind = "continue" \/ change = "password")
    <3>1. SigningOn => SigningOn'
      BY <2>5, <2>7, OthersGoOn
    <3>2. t.kind = "continue" => RenewingOn'
      BY <1>3, <1>4, <2>5, NowSigning
    <3> QED BY <1>2, <2>1, <2>5, <2>7, <3>1, <3>2, QueryTold
  <2> QED BY <2>6, <2>7
<1> QED BY <1>6, <1>7

\* A handler that asks for /me, or joins the fetch there is: the others stay where they are.
LEMMA AskedOrJoined ==
  ASSUME QueryTypes, MeSound, GetSound, TasksSound, ServerTypes', cookie' = cookie,
         NEW s \in Slots, NEW t \in Tasks, t.done, t.step = AskingStep,
         t.kind \in {"login", "signup", "password", "select", "continue"},
         t.kind \in {"login", "signup"} => t.user \in Users,
         NEW seen \in SUBSET Changes, "joined" \in seen,
         me' \in Answers, me'.data = NoOne => me' = NoMe,
         get' = IF Fetching THEN Join(seen) ELSE Asked',
         task' = [task EXCEPT ![s] = t]
  PROVE  QueryTypes' /\ MeSound' /\ GetSound' /\ TasksSound'
<1>1. QueryTypes' /\ MeSound' /\ GetSound' /\ Fetching'
  <2>1. CASE ~Fetching
    BY <2>1, QueryAsked
  <2>2. CASE Fetching
    <3>1. get \in Queries
      BY DEF QueryTypes
    <3>2. /\ get' \in Queries /\ get'.status = get.status /\ get'.data = get.data
          /\ get'.unseen = get.unseen \union seen
      BY <2>2, <3>1 DEF Queries, Join
    <3>3. Fetching' /\ QueryTypes'
      BY <2>2, <3>2 DEF Fetching, QueryTypes
    <3>4. /\ Outdated(get'.unseen) /\ (Excused(get.unseen) => Excused(get'.unseen))
          /\ "signin" \in get.unseen => Joined(get'.unseen)
          /\ Joined(get.unseen) => Joined(get'.unseen)
      BY <3>2 DEF Outdated, Excused, Joined
    <3>5. MeSound'
      BY <3>3 DEF MeSound
    <3>6. GetSound'
      BY <2>2, <3>2, <3>3, <3>4 DEF GetSound
    <3> QED BY <3>3, <3>5, <3>6
  <2> QED BY <2>1, <2>2
<1>2. TaskSound(t, Fetching')
  BY <1>1 DEF TaskSound, AskingStep
<1> QED BY <1>1, <1>2, TaskMoves

\* An answer that is followed by a fetch, or joins the one there is.
LEMMA Refetched ==
  ASSUME QueryTypes, MeSound, GetSound, TasksSound, ServerTypes',
         NEW s \in Slots, NEW change \in Changes,
         Refetch(s, change), cookie' = cookie, task[s].step \in {"post", "join"},
         task[s].kind \in {"login", "signup", "password", "select", "continue"}
  PROVE  QueryTypes' /\ MeSound' /\ GetSound' /\ TasksSound' /\ told' = {}
<1> DEFINE t == [task[s] EXCEPT !.step = AskingStep, !.done = TRUE]
           seen == {change, "joined"}
<1>1. /\ me' = IF me.data = NoOne THEN me ELSE [me EXCEPT !.unseen = @ \union {change}]
      /\ get' = IF Fetching THEN Join(seen) ELSE Asked'
      /\ task' = [task EXCEPT ![s] = t] /\ told' = {}
  BY DEF Refetch, Continues
<1>2. me' \in Answers /\ (me'.data = NoOne => me' = NoMe)
  BY <1>1 DEF QueryTypes, Answers
<1>3. task[s] \in Tasks /\ (task[s].kind \in {"login", "signup"} => task[s].user \in Users)
  BY DEF TasksSound, TaskSound
<1>4. AskingStep \in Steps
  BY DEF AskingStep, Steps
<1>5. t \in Tasks /\ t.step = AskingStep /\ t.kind = task[s].kind /\ t.done /\ t.user = task[s].user
  BY <1>3, <1>4 DEF Tasks
<1>6. seen \in SUBSET Changes /\ "joined" \in seen
  BY DEF Changes
<1> HIDE DEF t, seen
<1>7. QueryTypes' /\ MeSound' /\ GetSound' /\ TasksSound'
  BY <1>1, <1>2, <1>3, <1>5, <1>6, AskedOrJoined
<1> QED BY <1>1, <1>7

\* A handler that is over.
LEMMA Ended ==
  ASSUME TasksSound, NEW s \in Slots, NEW t \in Tasks, NEW said, NEW why,
         Ends(s, t, said, why), Fetching => Fetching',
         \A r \in Misreport(t, said, why) : Fine(r)
  PROVE  /\ TasksSound' /\ \A r \in told' : Fine(r)
         /\ \A x \in Slots \ {s} : GoesOn(x)
<1>1. task' = [task EXCEPT ![s] = Idle] /\ told' = Misreport(t, said, why)
  BY DEF Ends
<1>2. Idle \in Tasks /\ TaskSound(Idle, Fetching')
  BY Shapes DEF TaskSound, None
<1> QED BY <1>1, <1>2, TaskMoves

\* A handler that goes on by a step of its own.
LEMMA Continued ==
  ASSUME TasksSound, NEW s \in Slots, NEW t \in Tasks,
         Continues(s, t), Fetching => Fetching', TaskSound(t, Fetching')
  PROVE  /\ TasksSound' /\ told' = {} /\ task'[s] = t
         /\ \A x \in Slots \ {s} : GoesOn(x)
BY TaskMoves DEF Continues

LEMMA Removed ==
  ASSUME TasksSound, NEW s \in Slots, NEW t \in Tasks, NEW said,
         Remove(s, said, t), \A r \in Misreport(t, said, "lost") : Fine(r)
  PROVE  QueryTypes' /\ MeSound' /\ GetSound' /\ TasksSound' /\ \A r \in told' : Fine(r)
<1>1. me' = NoMe /\ get' = NoGet
  BY DEF Remove
<1>2. /\ task' = [FailTasks EXCEPT ![s] = Idle]
      /\ told' = FailReports(Pending) \union Misreport(t, said, "lost")
  BY DEF Remove
<1>3. Idle \in Tasks /\ TaskSound(Idle, Fetching')
  BY Shapes DEF TaskSound, None
<1>4. TasksSound'
  BY <1>2, <1>3, TaskMoves
<1> QED BY <1>1, <1>2, <1>4, QueryDropped, FailuresAreFine

\* An error before the API has changed anything.
LEMMA UntoldEnd ==
  ASSUME QueryTypes, MeSound, GetSound, TasksSound, cookie' = cookie, acct' = acct,
         NEW s \in Slots, NEW t \in Tasks, NEW said, NEW why,
         Ends(s, t, said, why), \A r \in Misreport(t, said, why) : Fine(r),
         Untold(s), task[s].step \in {"post", "signin", "lookup", "join"}
  PROVE  QueryTypes' /\ MeSound' /\ GetSound' /\ TasksSound' /\ \A r \in told' : Fine(r)
<1>1. CASE task[s].step \in {"signin", "join"}
  <2>1. /\ me' = IF me.data = NoOne THEN me ELSE [me EXCEPT !.unseen = @ \union {"lost"}]
        /\ get' = IF Fetching THEN [get EXCEPT !.unseen = @ \union {"lost"}] ELSE get
    BY <1>1 DEF Untold, Changed
  <2>2. QueryTypes' /\ MeSound' /\ GetSound' /\ (Fetching => Fetching')
    <3>1. "lost" \in Changes
      BY DEF Changes
    <3> QED BY <2>1, <3>1, QueryTold
  <2> QED BY <2>2, Ended
<1>2. CASE task[s].step \in {"post", "lookup"}
  <2>1. me' = me /\ get' = get
    BY <1>2 DEF Untold
  <2>2. Fetching' = Fetching /\ Snapshot' = Snapshot /\ QueryTypes'
    BY <2>1 DEF Fetching, Snapshot, There, QueryTypes
  <2>3. /\ TasksSound' /\ \A r \in told' : Fine(r)
        /\ \A x \in Slots \ {s} : GoesOn(x)
    BY <2>2, Ended
  <2>4. /\ SigningOn => SigningOn'
        /\ RenewingOn => RenewingOn'
    BY <1>2, <2>3, OthersGoOn
  <2> QED BY <2>1, <2>2, <2>3, <2>4, QueryKept
<1> QED BY <1>1, <1>2

\* What a handler says that could not do anything.
LEMMA ErrorFine ==
  ASSUME TasksSound, NEW s \in Slots
  PROVE  /\ task[s] \in Tasks
         /\ \A r \in Misreport(task[s], Quietly(s, "error"), "lost") : Fine(r)
         /\ task[s].step \in {"post", "signin", "lookup", "join"} =>
              \A r \in Misreport(task[s], Quietly(s, "error"), "refused") : Fine(r)
         /\ \A r \in Misreport([task[s] EXCEPT !.done = TRUE], Quietly(s, "error"), "lost") : Fine(r)
<1>1. task[s] \in Tasks /\ TaskSound(task[s], Fetching)
  BY DEF TasksSound
<1>2. task[s].done \in BOOLEAN /\ [task[s] EXCEPT !.done = TRUE] \in Tasks /\ [task[s] EXCEPT !.done = TRUE].done
  BY <1>1 DEF Tasks
<1>3. Quietly(s, "error") = "error" \/ (Quietly(s, "error") = "ok" /\ task[s].done)
  BY DEF Quietly
<1>4. \A r \in Misreport(task[s], Quietly(s, "error"), "lost") : Fine(r)
  BY <1>1, <1>3, Misreported DEF Fine
<1>5. \A r \in Misreport([task[s] EXCEPT !.done = TRUE], Quietly(s, "error"), "lost") : Fine(r)
  <2> DEFINE t == [task[s] EXCEPT !.done = TRUE]
  <2>1. t \in Tasks /\ t.done
    BY <1>2
  <2> HIDE DEF t
  <2>2. \A r \in Misreport(t, Quietly(s, "error"), "lost") : Fine(r)
    BY <1>3, <2>1, Misreported DEF Fine
  <2> QED BY <2>2 DEF t
<1>6. ASSUME task[s].step \in {"post", "signin", "lookup", "join"}
      PROVE  \A r \in Misreport(task[s], Quietly(s, "error"), "refused") : Fine(r)
  <2>1. \A r \in Misreport(task[s], Quietly(s, "error"), "refused") :
          r.kind = task[s].kind /\ r.why = "refused" /\ task[s].done
    BY <1>1, <1>3, Misreported
  <2>2. task[s].done => task[s].kind = "signup"
    BY <1>1, <1>6 DEF TaskSound
  <2> QED BY <2>1, <2>2 DEF Fine
<1> QED BY <1>1, <1>4, <1>5, <1>6

-----------------------------------------------------------------------------
(* Handlers that change the account *)

LEMMA Together ==
  ASSUME ServerTypes', QueryTypes', PlaceTypes', (left \in 0 .. MaxEvents)', TasksSound', MeSound', GetSound',
         \A r \in told' : Fine(r)
  PROVE  SessionInv'
BY ReportsFine DEF SessionInv

LEMMA EventsLeft ==
  ASSUME left \in 0 .. MaxEvents, (left > 0 /\ left' = left - 1) \/ left' = left
  PROVE  left' \in 0 .. MaxEvents
BY WebSessionAssumption

LEMMA PlaceKept ==
  ASSUME PlaceTypes, page' = page, live' = live, demo' \in BOOLEAN,
         nav' = nav \/ \E path \in Paths : nav' = At(path)
  PROVE  PlaceTypes'
<1>1. \A path \in Paths : At(path) \in Locations
  BY Shapes DEF Anywhere
<1> QED BY <1>1 DEF PlaceTypes

LEMMA ServerKept ==
  ASSUME ServerTypes, UNCHANGED server
  PROVE  ServerTypes' /\ acct' = acct /\ invite' = invite /\ cookie' = cookie /\ Snapshot' = Snapshot
BY DEF server, ServerTypes, Snapshot, There

LEMMA TurnsAwayTypes ==
  ASSUME PlaceTypes, TurnsAway
  PROVE  PlaceTypes'
<1>1. nav' \in Locations
  BY Shapes DEF TurnsAway, Login, At, Locations, Anywhere, Paths
<1> QED BY <1>1 DEF TurnsAway, PlaceTypes

LEMMA UnsentSound ==
  ASSUME SessionInv, NEW s \in Slots, Unsent(s)
  PROVE  SessionInv'
<1>1. /\ Ends(s, task[s], Quietly(s, "error"), "lost") /\ Untold(s)
      /\ UNCHANGED server /\ demo' = demo /\ page' = page /\ nav' = nav /\ live' = live
      /\ task[s].step \in {"post", "signin", "lookup", "join"}
      /\ (left > 0 /\ left' = left - 1) \/ left' = left
  BY DEF Unsent, place, Fault
<1>2. ServerTypes' /\ PlaceTypes' /\ left' \in 0 .. MaxEvents /\ acct' = acct /\ cookie' = cookie
  BY <1>1, ServerKept, PlaceKept, EventsLeft DEF SessionInv, PlaceTypes
<1>3. QueryTypes' /\ MeSound' /\ GetSound' /\ TasksSound' /\ \A r \in told' : Fine(r)
  BY <1>1, <1>2, ErrorFine, UntoldEnd DEF SessionInv
<1> QED BY <1>2, <1>3, Together

LEMMA RefusedSound ==
  ASSUME SessionInv, NEW s \in Slots, Refused(s), task[s].step \in {"post", "signin", "lookup", "join"}
  PROVE  SessionInv'
<1>1. /\ Ends(s, task[s], Quietly(s, "error"), "refused") /\ Untold(s)
      /\ UNCHANGED server /\ demo' = demo /\ page' = page /\ nav' = nav /\ live' = live /\ left' = left
  BY DEF Refused, place
<1>2. ServerTypes' /\ PlaceTypes' /\ left' \in 0 .. MaxEvents /\ acct' = acct /\ cookie' = cookie
  BY <1>1, ServerKept, PlaceKept, EventsLeft DEF SessionInv, PlaceTypes
<1>3. QueryTypes' /\ MeSound' /\ GetSound' /\ TasksSound' /\ \A r \in told' : Fine(r)
  BY <1>1, <1>2, ErrorFine, UntoldEnd DEF SessionInv
<1> QED BY <1>2, <1>3, Together

LEMMA ForbiddenSound ==
  ASSUME SessionInv, NEW s \in Slots, Forbidden(s)
  PROVE  SessionInv'
<1>1. /\ Remove(s, Quietly(s, "error"), task[s]) /\ UNCHANGED server /\ left' = left
      /\ TurnsAway \/ (demo' = demo /\ page' = page /\ nav' = nav /\ live' = live)
  BY DEF Forbidden, place
<1>2. ServerTypes' /\ left' \in 0 .. MaxEvents
  BY <1>1, ServerKept, EventsLeft DEF SessionInv
<1>3. PlaceTypes'
  BY <1>1, PlaceKept, TurnsAwayTypes DEF SessionInv, PlaceTypes
<1>4. QueryTypes' /\ MeSound' /\ GetSound' /\ TasksSound' /\ \A r \in told' : Fine(r)
  BY <1>1, ErrorFine, Removed DEF SessionInv
<1> QED BY <1>2, <1>3, <1>4, Together

LEMMA AccountChanged ==
  ASSUME ServerTypes, NEW u \in Users, NEW a \in {NoAccount, Deleted} \union Accounts, a.row # "none",
         acct' = [acct EXCEPT ![u] = a],
         invite' \in {"pending", "accepted", "declined", "revoked"},
         cookie' \in {cookie, None, u}
  PROVE  ServerTypes'
<1>1. /\ acct' \in [Users -> {NoAccount, Deleted} \union Accounts] /\ acct'[u] = a
      /\ \A x \in Users : x # u => acct'[x] = acct[x]
  BY DEF ServerTypes
<1>2. cookie' \in Someone /\ (cookie' # None /\ cookie' # u => cookie \in Users /\ cookie' = cookie)
  BY DEF ServerTypes, Someone
<1>3. cookie' # None => acct'[cookie'].row # "none"
  BY <1>1, <1>2 DEF ServerTypes
<1> QED BY <1>1, <1>2, <1>3 DEF ServerTypes

\* The fields the handlers store; the row stays what it is.
LEMMA AccountStores ==
  ASSUME ServerTypes, NEW u \in Users, There(u), NEW b \in BOOLEAN
  PROVE  /\ [acct[u] EXCEPT !.must = b] \in Accounts /\ [acct[u] EXCEPT !.must = b].row # "none"
         /\ [acct[u] EXCEPT !.plan = b] \in Accounts /\ [acct[u] EXCEPT !.plan = b].row # "none"
         /\ [acct[u] EXCEPT !.team = b] \in Accounts /\ [acct[u] EXCEPT !.team = b].row # "none"
<1>1. acct[u] \in {NoAccount, Deleted} \union Accounts
  BY DEF ServerTypes
<1>2. acct[u].row = "there"
  BY DEF There
<1>3. /\ [acct[u] EXCEPT !.must = b] \in Accounts
      /\ [acct[u] EXCEPT !.plan = b] \in Accounts
      /\ [acct[u] EXCEPT !.team = b] \in Accounts
  BY <1>1, <1>2, AccountShapes
<1>4. acct[u] # NoAccount /\ acct[u] # Deleted /\ acct[u] \in Accounts
  BY <1>1, <1>2 DEF NoAccount, Deleted, Account
<1>5. PICK must \in BOOLEAN, plan \in BOOLEAN, team \in BOOLEAN : acct[u] = Account("there", must, plan, team)
  BY <1>4 DEF Accounts
<1>6. /\ [acct[u] EXCEPT !.must = b].row = "there"
      /\ [acct[u] EXCEPT !.plan = b].row = "there"
      /\ [acct[u] EXCEPT !.team = b].row = "there"
  BY <1>5 DEF Account
<1> QED BY <1>3, <1>6

\* What the API has done is not known here: the account has changed, or the cookie.
LEMMA LostSound ==
  ASSUME QueryTypes, MeSound, GetSound, TasksSound, NEW s \in Slots, Changed("lost"), Lost(s, task[s])
  PROVE  QueryTypes' /\ MeSound' /\ GetSound' /\ TasksSound' /\ \A r \in told' : Fine(r)
<1>1. /\ me' = IF me.data = NoOne THEN me ELSE [me EXCEPT !.unseen = @ \union {"lost"}]
      /\ get' = IF Fetching THEN [get EXCEPT !.unseen = @ \union {"lost"}] ELSE get
  BY DEF Changed
<1>2. QueryTypes' /\ MeSound' /\ GetSound' /\ (Fetching => Fetching')
  <2>1. "lost" \in Changes
    BY DEF Changes
  <2> QED BY <1>1, <2>1, QueryTold
<1> DEFINE t == [task[s] EXCEPT !.done = TRUE]
<1>3. /\ t \in Tasks /\ Ends(s, t, Quietly(s, "error"), "lost")
      /\ \A r \in Misreport(t, Quietly(s, "error"), "lost") : Fine(r)
  <2>1. task[s] \in Tasks
    BY DEF TasksSound
  <2>2. t \in Tasks
    BY <2>1 DEF Tasks
  <2> QED BY <2>2, ErrorFine DEF Lost
<1> HIDE DEF t
<1> QED BY <1>2, <1>3, Ended

LEMMA CreateSound ==
  ASSUME SessionInv, NEW s \in Slots, Create(s)
  PROVE  SessionInv'
<1>1. /\ task[s] \in Tasks /\ task[s].step = "post" /\ task[s].kind = "signup" /\ TaskSound(task[s], Fetching)
      /\ ServerTypes /\ QueryTypes /\ PlaceTypes /\ TasksSound /\ MeSound /\ GetSound
  BY DEF Create, Does, SessionInv, TasksSound
<1>2. PICK u \in Users : u = task[s].user
  BY <1>1 DEF TaskSound
<1>3. CASE acct[u].row # "none"
  BY <1>1, <1>2, <1>3, RefusedSound DEF Create
<1>4. CASE acct[u].row = "none"
  <2>1. /\ acct' = [acct EXCEPT ![u].row = "there"]
        /\ invite' = invite /\ demo' = demo /\ page' = page /\ nav' = nav /\ live' = live
        /\ \/ cookie' = u /\ Changed("signin") /\ Continues(s, Done(s, "signin")) /\ left' = left
           \/ cookie' = cookie /\ me' = me /\ get' = get /\ Lost(s, task[s]) /\ left > 0 /\ left' = left - 1
    BY <1>2, <1>4 DEF Create, place, Fault
  <2>2. ServerTypes'
    <3>1. [acct[u] EXCEPT !.row = "there"] \in Accounts
      BY <1>1, <1>4, AccountShapes DEF ServerTypes
    <3>2. acct[u] = NoAccount
      BY <1>1, <1>4, AccountShapes DEF ServerTypes, Accounts, Deleted, Account
    <3>3. [acct[u] EXCEPT !.row = "there"].row = "there"
      BY <3>2 DEF NoAccount, Account
    <3>4. acct' = [acct EXCEPT ![u] = [acct[u] EXCEPT !.row = "there"]]
      BY <2>1
    <3> QED BY <1>1, <2>1, <3>1, <3>3, <3>4, AccountChanged DEF ServerTypes
  <2>3. PlaceTypes' /\ left' \in 0 .. MaxEvents
    BY <2>1, PlaceKept, EventsLeft DEF SessionInv, PlaceTypes
  <2>4. CASE cookie' = u /\ Changed("signin") /\ Continues(s, Done(s, "signin"))
    <3> DEFINE t == Done(s, "signin")
    <3>1. /\ me' = IF me.data = NoOne THEN me ELSE [me EXCEPT !.unseen = @ \union {"signin"}]
          /\ get' = IF Fetching THEN [get EXCEPT !.unseen = @ \union {"signin"}] ELSE get
      BY <2>4 DEF Changed
    <3>2. Fetching => Fetching'
      BY <1>1, <3>1 DEF Fetching, QueryTypes, Queries
    <3>3. t \in Tasks /\ t.step = "signin" /\ t.kind = "signup" /\ t.done /\ t.user \in Users
      BY <1>1, <1>2 DEF Done, Tasks, Steps
    <3>4. TaskSound(t, Fetching')
      BY <3>3 DEF TaskSound
    <3> HIDE DEF t
    <3>5. TasksSound' /\ told' = {} /\ task'[s] = t
      BY <1>1, <2>4, <3>2, <3>3, <3>4, Continued DEF t
    <3>6. SigningOn' /\ RenewingOn'
      BY <3>3, <3>5, NowSigning
    <3>7. QueryTypes' /\ MeSound' /\ GetSound'
      <4>1. "signin" \in Changes
        BY DEF Changes
      <4> QED BY <1>1, <3>1, <3>6, <4>1, QueryTold
    <3> QED BY <2>2, <2>3, <3>5, <3>7, Together
  <2>5. CASE cookie' = cookie /\ me' = me /\ get' = get /\ Lost(s, task[s])
    <3>1. Fetching' = Fetching /\ QueryTypes'
      BY <1>1, <2>5 DEF Fetching, QueryTypes
    <3>2. /\ TasksSound' /\ \A r \in told' : Fine(r)
          /\ \A x \in Slots \ {s} : GoesOn(x)
      <4> DEFINE t == [task[s] EXCEPT !.done = TRUE]
      <4>1. t \in Tasks
        BY <1>1 DEF Tasks
      <4>2. /\ Ends(s, t, Quietly(s, "error"), "lost")
            /\ \A r \in Misreport(t, Quietly(s, "error"), "lost") : Fine(r)
        BY <1>1, <2>5, ErrorFine DEF Lost
      <4> HIDE DEF t
      <4> QED BY <1>1, <3>1, <4>1, <4>2, Ended
    <3>3. Snapshot' = Snapshot
      <4>1. cookie # None => cookie # u
        BY <1>1, <1>4 DEF ServerTypes
      <4>2. cookie # None => acct'[cookie] = acct[cookie]
        BY <1>1, <2>1, <4>1 DEF ServerTypes, Someone
      <4> QED BY <2>5, <4>2 DEF Snapshot, There
    <3>4. /\ SigningOn => SigningOn'
          /\ RenewingOn => RenewingOn'
      BY <1>1, <3>2, OthersGoOn
    <3>5. MeSound' /\ GetSound'
      BY <1>1, <2>5, <3>3, <3>4, QueryKept
    <3> QED BY <2>2, <2>3, <3>1, <3>2, <3>5, Together
  <2> QED BY <2>1, <2>4, <2>5
<1> QED BY <1>3, <1>4

\* What the lemmas below use of the invariant and of the handler at hand.
LEMMA Given ==
  ASSUME SessionInv, NEW s \in Slots
  PROVE  /\ ServerTypes /\ QueryTypes /\ PlaceTypes /\ TasksSound /\ MeSound /\ GetSound
         /\ left \in 0 .. MaxEvents /\ demo \in BOOLEAN
         /\ task[s] \in Tasks /\ TaskSound(task[s], Fetching)
BY DEF SessionInv, PlaceTypes, TasksSound

LEMMA ServedWell ==
  ASSUME NEW t \in Tasks, NEW why
  PROVE  \A r \in Misreport([t EXCEPT !.done = TRUE], "ok", why) : Fine(r)
<1> DEFINE d == [t EXCEPT !.done = TRUE]
<1>1. d \in Tasks /\ d.done
  BY DEF Tasks
<1> HIDE DEF d
<1>2. \A r \in Misreport(d, "ok", why) : Fine(r)
  BY <1>1, Misreported
<1> QED BY <1>2 DEF d

LEMMA SignInSound ==
  ASSUME SessionInv, NEW s \in Slots, SignIn(s)
  PROVE  SessionInv'
<1>1. /\ ServerTypes /\ QueryTypes /\ PlaceTypes /\ TasksSound /\ MeSound /\ GetSound
      /\ left \in 0 .. MaxEvents /\ task[s] \in Tasks /\ TaskSound(task[s], Fetching)
  BY Given
<1>2. task[s].step \in {"post", "signin"} /\ task[s].kind \in {"login", "signup"}
  BY DEF SignIn, Does
<1>3. PICK u \in Users : u = task[s].user
  BY <1>1, <1>2 DEF TaskSound
<1>4. CASE ~There(u)
  BY <1>2, <1>3, <1>4, RefusedSound DEF SignIn
<1>5. CASE There(u)
  <2> DEFINE t == [task[s] EXCEPT !.done = TRUE]
  <2>1. /\ cookie' = u /\ demo' = FALSE /\ acct' = acct /\ invite' = invite
        /\ Invalidate(s, t, "signin")
        /\ page' = page /\ nav' = nav /\ live' = live /\ left' = left
    BY <1>3, <1>5 DEF SignIn, place
  <2>2. ServerTypes'
    BY <1>1, <1>5, <2>1 DEF ServerTypes, Someone, There
  <2>3. PlaceTypes' /\ left' \in 0 .. MaxEvents
    BY <1>1, <2>1, PlaceKept, EventsLeft
  <2>4. t \in Tasks /\ t.kind \in {"login", "signup"} /\ t.done /\ t.user \in Users
    BY <1>1, <1>2, <1>3 DEF Tasks
  <2>6. "signin" \in Changes
    BY DEF Changes
  <2>7. Invalidate(s, t, "signin")
    BY <2>1
  <2> HIDE DEF t
  <2>8. QueryTypes' /\ MeSound' /\ GetSound' /\ TasksSound' /\ \A r \in told' : Fine(r)
    BY <1>1, <2>2, <2>4, <2>6, <2>7, Invalidated
  <2> QED BY <2>2, <2>3, <2>8, Together
<1> QED BY <1>4, <1>5

LEMMA SignOutSound ==
  ASSUME SessionInv, NEW s \in Slots, SignOut(s)
  PROVE  SessionInv'
<1>1. /\ ServerTypes /\ QueryTypes /\ PlaceTypes /\ TasksSound /\ MeSound /\ GetSound
      /\ left \in 0 .. MaxEvents /\ demo \in BOOLEAN /\ task[s] \in Tasks /\ TaskSound(task[s], Fetching)
  BY Given
<1>2. task[s].kind \in {"logout", "exit"}
  BY DEF SignOut
<1>3. /\ acct' = acct /\ invite' = invite /\ cookie' \in {cookie, None}
      /\ demo' = demo /\ page' = page /\ live' = live
      /\ (left > 0 /\ left' = left - 1) \/ left' = left
      /\ nav' = At(IF task[s].kind = "logout" THEN "login" ELSE "accept")
      /\ Remove(s, "ok", [task[s] EXCEPT !.done = TRUE]) \/ Remove(s, "ok", task[s])
  BY DEF SignOut, Fault
<1>4. ServerTypes'
  BY <1>1, <1>3 DEF ServerTypes, Someone
<1>5. PlaceTypes' /\ left' \in 0 .. MaxEvents
  <2>1. nav' = At("login") \/ nav' = At("accept")
    BY <1>3
  <2>2. "login" \in Paths /\ "accept" \in Paths
    BY DEF Paths
  <2> QED BY <1>1, <1>3, <2>1, <2>2, PlaceKept, EventsLeft
<1>6. CASE Remove(s, "ok", [task[s] EXCEPT !.done = TRUE])
  <2> DEFINE t == [task[s] EXCEPT !.done = TRUE]
  <2>1. t \in Tasks
    BY <1>1 DEF Tasks
  <2>2. Remove(s, "ok", t) /\ \A r \in Misreport(t, "ok", "lost") : Fine(r)
    BY <1>1, <1>6, ServedWell
  <2> HIDE DEF t
  <2>3. QueryTypes' /\ MeSound' /\ GetSound' /\ TasksSound' /\ \A r \in told' : Fine(r)
    BY <1>1, <2>1, <2>2, Removed
  <2> QED BY <1>4, <1>5, <2>3, Together
<1>7. CASE Remove(s, "ok", task[s])
  <2>1. \A r \in Misreport(task[s], "ok", "lost") : Fine(r)
    BY <1>1, <1>2, Misreported DEF Fine
  <2>2. QueryTypes' /\ MeSound' /\ GetSound' /\ TasksSound' /\ \A r \in told' : Fine(r)
    BY <1>1, <1>7, <2>1, Removed
  <2> QED BY <1>4, <1>5, <2>2, Together
<1> QED BY <1>3, <1>6, <1>7

LEMMA DeleteSound ==
  ASSUME SessionInv, NEW s \in Slots, Delete(s)
  PROVE  SessionInv'
<1>1. /\ ServerTypes /\ QueryTypes /\ PlaceTypes /\ TasksSound /\ MeSound /\ GetSound
      /\ left \in 0 .. MaxEvents /\ demo \in BOOLEAN /\ task[s] \in Tasks /\ TaskSound(task[s], Fetching)
  BY Given
<1>2. CASE cookie = None
  BY <1>2, ForbiddenSound DEF Delete
<1>3. CASE cookie # None
  <2>1. PICK u \in Users : u = cookie
    BY <1>1, <1>3 DEF ServerTypes, Someone
  <2>2. /\ acct' = [acct EXCEPT ![u] = Deleted] /\ invite' = invite
        /\ demo' = demo /\ page' = page /\ live' = live
        /\ \/ /\ cookie' = None /\ left' = left
              /\ Remove(s, "ok", [task[s] EXCEPT !.done = TRUE])
              /\ nav' = At("home")
           \/ /\ cookie' = cookie /\ left > 0 /\ left' = left - 1
              /\ Lost(s, task[s]) /\ Changed("lost") /\ nav' = nav
    BY <1>3, <2>1 DEF Delete, Fault
  <2>3. ServerTypes'
    <3>1. Deleted.row # "none"
      BY DEF Deleted, Account
    <3> QED BY <1>1, <2>1, <2>2, <3>1, AccountChanged DEF ServerTypes
  <2>4. PlaceTypes' /\ left' \in 0 .. MaxEvents
    <3>1. "home" \in Paths
      BY DEF Paths
    <3> QED BY <1>1, <2>2, <3>1, PlaceKept, EventsLeft
  <2>5. CASE Remove(s, "ok", [task[s] EXCEPT !.done = TRUE])
    <3> DEFINE t == [task[s] EXCEPT !.done = TRUE]
    <3>1. t \in Tasks
      BY <1>1 DEF Tasks
    <3>2. Remove(s, "ok", t) /\ \A r \in Misreport(t, "ok", "lost") : Fine(r)
      BY <1>1, <2>5, ServedWell
    <3> HIDE DEF t
    <3>3. QueryTypes' /\ MeSound' /\ GetSound' /\ TasksSound' /\ \A r \in told' : Fine(r)
      BY <1>1, <3>1, <3>2, Removed
    <3> QED BY <2>3, <2>4, <3>3, Together
  <2>6. CASE Lost(s, task[s]) /\ Changed("lost")
    BY <1>1, <2>3, <2>4, <2>6, LostSound, Together
  <2> QED BY <2>2, <2>5, <2>6
<1> QED BY <1>2, <1>3

LEMMA StorePasswordSound ==
  ASSUME SessionInv, NEW s \in Slots, StorePassword(s)
  PROVE  SessionInv'
<1>1. /\ ServerTypes /\ QueryTypes /\ PlaceTypes /\ TasksSound /\ MeSound /\ GetSound
      /\ left \in 0 .. MaxEvents /\ demo \in BOOLEAN /\ task[s] \in Tasks /\ TaskSound(task[s], Fetching)
  BY Given
<1>2. task[s].step = "post" /\ task[s].kind = "password"
  BY DEF StorePassword, Does
<1>3. CASE cookie = None
  BY <1>3, ForbiddenSound DEF StorePassword
<1>4. CASE cookie # None /\ ~There(cookie)
  BY <1>2, <1>4, RefusedSound DEF StorePassword
<1>5. CASE cookie # None /\ There(cookie)
  <2>1. PICK u \in Users : u = cookie
    BY <1>1, <1>5 DEF ServerTypes, Someone
  <2>2. /\ acct' = [acct EXCEPT ![u].must = FALSE] /\ invite' = invite /\ cookie' = cookie
        /\ demo' = demo /\ page' = page /\ nav' = nav /\ live' = live
        /\ \/ Invalidate(s, [task[s] EXCEPT !.done = TRUE], "password") /\ left' = left
           \/ Changed("lost") /\ Lost(s, task[s]) /\ left > 0 /\ left' = left - 1
    BY <1>5, <2>1 DEF StorePassword, place, Fault
  <2>3. ServerTypes'
    <3>1. [acct[u] EXCEPT !.must = FALSE] \in Accounts /\ [acct[u] EXCEPT !.must = FALSE].row # "none"
      BY <1>1, <1>5, <2>1, AccountStores
    <3>2. acct' = [acct EXCEPT ![u] = [acct[u] EXCEPT !.must = FALSE]]
      BY <2>2
    <3> QED BY <1>1, <2>2, <3>1, <3>2, AccountChanged DEF ServerTypes
  <2>4. PlaceTypes' /\ left' \in 0 .. MaxEvents
    BY <1>1, <2>2, PlaceKept, EventsLeft
  <2>5. CASE Invalidate(s, [task[s] EXCEPT !.done = TRUE], "password")
    <3> DEFINE t == [task[s] EXCEPT !.done = TRUE]
    <3>1. t \in Tasks /\ t.kind = "password" /\ t.done
      BY <1>1, <1>2 DEF Tasks
    <3>3. "password" \in Changes /\ Invalidate(s, t, "password")
      BY <2>5 DEF Changes
    <3> HIDE DEF t
    <3>4. QueryTypes' /\ MeSound' /\ GetSound' /\ TasksSound' /\ \A r \in told' : Fine(r)
      BY <1>1, <1>2, <2>2, <2>3, <3>1, <3>3, Invalidated
    <3> QED BY <2>3, <2>4, <3>4, Together
  <2>6. CASE Changed("lost") /\ Lost(s, task[s])
    BY <1>1, <2>3, <2>4, <2>6, LostSound, Together
  <2> QED BY <2>2, <2>5, <2>6
<1> QED BY <1>3, <1>4, <1>5

LEMMA SelectPlanSound ==
  ASSUME SessionInv, NEW s \in Slots, SelectPlan(s)
  PROVE  SessionInv'
<1>1. /\ ServerTypes /\ QueryTypes /\ PlaceTypes /\ TasksSound /\ MeSound /\ GetSound
      /\ left \in 0 .. MaxEvents /\ demo \in BOOLEAN /\ task[s] \in Tasks /\ TaskSound(task[s], Fetching)
  BY Given
<1>2. task[s].step = "post" /\ task[s].kind \in {"select", "continue"}
  BY DEF SelectPlan, Does
<1>3. CASE cookie = None \/ (cookie # None /\ acct[cookie].team)
  BY <1>3, ForbiddenSound DEF SelectPlan
<1>4. CASE ~(cookie = None \/ (cookie # None /\ acct[cookie].team)) /\ ~There(cookie)
  BY <1>2, <1>4, RefusedSound DEF SelectPlan
<1>5. CASE ~(cookie = None \/ (cookie # None /\ acct[cookie].team)) /\ There(cookie)
  <2>1. PICK u \in Users : u = cookie
    BY <1>1, <1>5 DEF ServerTypes, Someone
  <2>2. /\ acct' = [acct EXCEPT ![u].plan = TRUE] /\ invite' = invite /\ cookie' = cookie
        /\ demo' = demo /\ page' = page /\ nav' = nav /\ live' = live
        /\ \/ /\ IF task[s].kind = "continue" THEN Invalidate(s, [task[s] EXCEPT !.done = TRUE], "plan") ELSE Refetch(s, "plan")
              /\ left' = left
           \/ Changed("lost") /\ Lost(s, task[s]) /\ left > 0 /\ left' = left - 1
    BY <1>5, <2>1 DEF SelectPlan, place, Fault
  <2>3. ServerTypes'
    <3>1. [acct[u] EXCEPT !.plan = TRUE] \in Accounts /\ [acct[u] EXCEPT !.plan = TRUE].row # "none"
      BY <1>1, <1>5, <2>1, AccountStores
    <3>2. acct' = [acct EXCEPT ![u] = [acct[u] EXCEPT !.plan = TRUE]]
      BY <2>2
    <3> QED BY <1>1, <2>2, <3>1, <3>2, AccountChanged DEF ServerTypes
  <2>4. PlaceTypes' /\ left' \in 0 .. MaxEvents
    BY <1>1, <2>2, PlaceKept, EventsLeft
  <2>5. "plan" \in Changes
    BY DEF Changes
  <2>6. CASE task[s].kind = "continue" /\ Invalidate(s, [task[s] EXCEPT !.done = TRUE], "plan")
    <3> DEFINE t == [task[s] EXCEPT !.done = TRUE]
    <3>1. t \in Tasks /\ t.kind = "continue" /\ t.done
      BY <1>1, <2>6 DEF Tasks
    <3>3. Invalidate(s, t, "plan")
      BY <2>6
    <3> HIDE DEF t
    <3>4. QueryTypes' /\ MeSound' /\ GetSound' /\ TasksSound' /\ \A r \in told' : Fine(r)
      BY <1>1, <1>2, <2>2, <2>3, <2>5, <3>1, <3>3, Invalidated
    <3> QED BY <2>3, <2>4, <3>4, Together
  <2>7. CASE Refetch(s, "plan")
    <3>1. QueryTypes' /\ MeSound' /\ GetSound' /\ TasksSound' /\ told' = {}
      BY <1>1, <1>2, <2>2, <2>3, <2>5, <2>7, Refetched
    <3> QED BY <2>3, <2>4, <3>1, Together
  <2>8. CASE Changed("lost") /\ Lost(s, task[s])
    BY <1>1, <2>3, <2>4, <2>8, LostSound, Together
  <2> QED BY <2>2, <2>6, <2>7, <2>8
<1> QED BY <1>3, <1>4, <1>5

-----------------------------------------------------------------------------
(* The invite, and what comes after an answer *)

LEMMA SpentSound ==
  ASSUME SessionInv, NEW s \in Slots, NEW status, Spent(s, status),
         task[s].step \in {"post", "join", "lookup"},
         task[s].step \in {"post", "lookup"} => task[s].kind \in {"accept", "decline"}
  PROVE  SessionInv'
<1>1. /\ ServerTypes /\ QueryTypes /\ PlaceTypes /\ TasksSound /\ MeSound /\ GetSound
      /\ left \in 0 .. MaxEvents /\ demo \in BOOLEAN /\ task[s] \in Tasks /\ TaskSound(task[s], Fetching)
  BY Given
<1> DEFINE t == [task[s] EXCEPT !.done = @ \/ invite = status]
           said == IF Cancelled(s) /\ t.done THEN "ok" ELSE "error"
           why == IF task[s].done THEN "refused" ELSE "again"
<1>2. /\ Ends(s, t, said, why) /\ Untold(s)
      /\ UNCHANGED server /\ demo' = demo /\ page' = page /\ nav' = nav /\ live' = live /\ left' = left
  BY DEF Spent, place
<1>3. ServerTypes' /\ PlaceTypes' /\ left' \in 0 .. MaxEvents /\ acct' = acct /\ cookie' = cookie
  BY <1>1, <1>2, ServerKept, PlaceKept, EventsLeft
<1>4. t \in Tasks /\ t.kind = task[s].kind
  BY <1>1 DEF Tasks
<1>5. \/ why = "refused" /\ task[s].kind = "signup"
      \/ why = "again" /\ task[s].kind \in {"accept", "decline"}
  BY <1>1 DEF TaskSound
<1>6. said = "error" \/ said = "ok"
  OBVIOUS
<1> HIDE DEF t, said, why
<1>7. \A r \in Misreport(t, said, why) : Fine(r)
  BY <1>4, <1>5, Misreported DEF Fine
<1>8. QueryTypes' /\ MeSound' /\ GetSound' /\ TasksSound' /\ \A r \in told' : Fine(r)
  BY <1>1, <1>2, <1>3, <1>4, <1>7, UntoldEnd
<1> QED BY <1>3, <1>8, Together

\* A handler that goes on, the query being what it was.
LEMMA StepSound ==
  ASSUME SessionInv, NEW s \in Slots, NEW t \in Tasks,
         task' = [task EXCEPT ![s] = t], \A r \in told' : Fine(r),
         me' = me, get' = get, cookie' = cookie, Snapshot' = Snapshot,
         ServerTypes', PlaceTypes', (left \in 0 .. MaxEvents)', TaskSound(t, FALSE),
         \/ task[s].step \notin {"signin", "refetch", "settle", "join"}
         \/ task[s].kind \notin {"login", "signup", "continue"}
         \/ t.step = "join" /\ t.kind = task[s].kind
  PROVE  SessionInv'
<1>1. QueryTypes /\ TasksSound /\ MeSound /\ GetSound
  BY Given
<1>2. Fetching' = Fetching /\ QueryTypes'
  BY <1>1 DEF Fetching, QueryTypes
<1>3. TaskSound(t, Fetching')
  BY DEF TaskSound
<1>4. /\ TasksSound' /\ task'[s] = t
      /\ \A x \in Slots \ {s} : GoesOn(x)
  BY <1>1, <1>2, <1>3, TaskMoves
<1>5. MeSound' /\ GetSound'
  <2>1. /\ SigningOn => SigningOn'
        /\ RenewingOn => RenewingOn'
    BY <1>4, OthersGoOn
  <2> QED BY <1>1, <2>1, QueryKept
<1> QED BY <1>2, <1>4, <1>5, Together

LEMMA LookupSound ==
  ASSUME SessionInv, NEW s \in Slots, Lookup(s)
  PROVE  SessionInv'
<1>1. /\ ServerTypes /\ QueryTypes /\ PlaceTypes /\ TasksSound /\ MeSound /\ GetSound
      /\ left \in 0 .. MaxEvents /\ demo \in BOOLEAN /\ task[s] \in Tasks /\ TaskSound(task[s], Fetching)
  BY Given
<1>2. task[s].step = "lookup" /\ task[s].kind = "accept"
  BY <1>1 DEF Lookup, Does, TaskSound
<1>3. CASE invite # "pending"
  BY <1>2, <1>3, SpentSound DEF Lookup
<1>4. CASE invite = "pending"
  <2>1. /\ UNCHANGED server /\ me' = me /\ get' = get /\ demo' = demo /\ page' = page /\ live' = live /\ left' = left
        /\ \/ Continues(s, Idle)
           \/ Continues(s, Step(s, "post"))
        /\ \/ nav' = nav
           \/ nav' = [path |-> IF There(Invited) THEN "login" ELSE "signup", back |-> "accept", invite |-> TRUE]
    BY <1>4 DEF Lookup
  <2>2. ServerTypes' /\ left' \in 0 .. MaxEvents /\ cookie' = cookie /\ Snapshot' = Snapshot
    BY <1>1, <2>1, ServerKept, EventsLeft
  <2>3. PlaceTypes'
    <3>1. [path |-> IF There(Invited) THEN "login" ELSE "signup", back |-> "accept", invite |-> TRUE] \in Locations
      BY DEF Locations, Anywhere, Paths
    <3> QED BY <1>1, <2>1, <3>1 DEF PlaceTypes
  <2>4. CASE Continues(s, Idle)
    <3>1. task' = [task EXCEPT ![s] = Idle] /\ told' = {} /\ Idle \in Tasks /\ TaskSound(Idle, FALSE)
      BY <2>4, Shapes DEF Continues, TaskSound, None
    <3> QED BY <1>2, <2>1, <2>2, <2>3, <3>1, StepSound
  <2>5. CASE Continues(s, Step(s, "post"))
    <3> DEFINE t == Step(s, "post")
    <3>1. t \in Tasks /\ t.step = "post" /\ t.kind = "accept" /\ t.done = task[s].done /\ t.user = task[s].user
      BY <1>1, <1>2 DEF Step, Tasks, Steps
    <3>2. ~t.done
      BY <1>1, <1>2, <3>1 DEF TaskSound
    <3>3. task' = [task EXCEPT ![s] = t] /\ told' = {}
      BY <2>5 DEF Continues
    <3> HIDE DEF t
    <3>4. TaskSound(t, FALSE)
      BY <3>1, <3>2 DEF TaskSound
    <3> QED BY <1>2, <2>1, <2>2, <2>3, <3>1, <3>3, <3>4, StepSound
  <2> QED BY <2>1, <2>4, <2>5
<1> QED BY <1>3, <1>4

LEMMA AcceptInviteSound ==
  ASSUME SessionInv, NEW s \in Slots, AcceptInvite(s)
  PROVE  SessionInv'
<1>1. /\ ServerTypes /\ QueryTypes /\ PlaceTypes /\ TasksSound /\ MeSound /\ GetSound
      /\ left \in 0 .. MaxEvents /\ demo \in BOOLEAN /\ task[s] \in Tasks /\ TaskSound(task[s], Fetching)
  BY Given
<1>2. \/ task[s].step = "post" /\ task[s].kind = "accept"
      \/ task[s].step = "join" /\ task[s].kind = "signup"
  BY <1>1 DEF AcceptInvite, Does, TaskSound
<1>3. CASE cookie = None \/ (invite = "pending" /\ There(cookie) /\ cookie # Invited)
  BY <1>3, ForbiddenSound DEF AcceptInvite
<1>4. CASE ~(cookie = None \/ (invite = "pending" /\ There(cookie) /\ cookie # Invited)) /\ ~There(cookie)
  BY <1>2, <1>4, RefusedSound DEF AcceptInvite
<1>5. CASE ~(cookie = None \/ (invite = "pending" /\ There(cookie) /\ cookie # Invited)) /\ There(cookie) /\ invite # "pending"
  <2>1. Spent(s, "accepted")
    BY <1>5 DEF AcceptInvite
  <2> QED BY <1>2, <2>1, SpentSound
<1>6. CASE cookie # None /\ There(cookie) /\ invite = "pending" /\ cookie = Invited
  <2>1. PICK u \in Users : u = cookie
    BY <1>1, <1>6 DEF ServerTypes, Someone
  <2>2. /\ acct' = [acct EXCEPT ![u].team = TRUE] /\ invite' = "accepted" /\ cookie' = cookie
        /\ demo' = demo /\ page' = page /\ live' = live
        /\ \/ /\ left' = left
              /\ IF Does(s, "join") THEN Refetch(s, "accept") /\ nav' = nav
                 ELSE /\ Changed("accept")
                      /\ Ends(s, [task[s] EXCEPT !.done = TRUE], "ok", "lost")
                      /\ nav' = IF Cancelled(s) THEN nav ELSE At("app")
           \/ Changed("lost") /\ Lost(s, task[s]) /\ left > 0 /\ left' = left - 1 /\ nav' = nav
    BY <1>6, <2>1 DEF AcceptInvite, Fault
  <2>3. ServerTypes'
    <3>1. [acct[u] EXCEPT !.team = TRUE] \in Accounts /\ [acct[u] EXCEPT !.team = TRUE].row # "none"
      BY <1>1, <1>6, <2>1, AccountStores
    <3>2. acct' = [acct EXCEPT ![u] = [acct[u] EXCEPT !.team = TRUE]]
      BY <2>2
    <3> QED BY <1>1, <2>2, <3>1, <3>2, AccountChanged DEF ServerTypes
  <2>4. PlaceTypes' /\ left' \in 0 .. MaxEvents
    <3>1. "app" \in Paths
      BY DEF Paths
    <3> QED BY <1>1, <2>2, <3>1, PlaceKept, EventsLeft
  <2>5. "accept" \in Changes
    BY DEF Changes
  <2>6. CASE Does(s, "join") /\ Refetch(s, "accept")
    <3>1. QueryTypes' /\ MeSound' /\ GetSound' /\ TasksSound' /\ told' = {}
      BY <1>1, <1>2, <2>2, <2>3, <2>5, <2>6, Refetched DEF Does
    <3> QED BY <2>3, <2>4, <3>1, Together
  <2>7. CASE ~Does(s, "join") /\ Changed("accept") /\ Ends(s, [task[s] EXCEPT !.done = TRUE], "ok", "lost")
    <3> DEFINE t == [task[s] EXCEPT !.done = TRUE]
    <3>1. t \in Tasks /\ Ends(s, t, "ok", "lost") /\ \A r \in Misreport(t, "ok", "lost") : Fine(r)
      BY <1>1, <2>7, ServedWell DEF Tasks
    <3> HIDE DEF t
    <3>2. /\ me' = IF me.data = NoOne THEN me ELSE [me EXCEPT !.unseen = @ \union {"accept"}]
          /\ get' = IF Fetching THEN [get EXCEPT !.unseen = @ \union {"accept"}] ELSE get
      BY <2>7 DEF Changed
    <3>3. Fetching => Fetching'
      BY <1>1, <3>2 DEF Fetching, QueryTypes, Queries
    <3>4. /\ TasksSound' /\ \A r \in told' : Fine(r)
          /\ \A x \in Slots \ {s} : GoesOn(x)
      BY <1>1, <3>1, <3>3, Ended
    <3>5. SigningOn => SigningOn'
      BY <1>2, <3>4, <2>7, OthersGoOn DEF Does
    <3>6. QueryTypes' /\ MeSound' /\ GetSound'
      BY <1>1, <2>2, <2>5, <3>2, <3>5, QueryTold
    <3> QED BY <2>3, <2>4, <3>4, <3>6, Together
  <2>8. CASE Changed("lost") /\ Lost(s, task[s])
    BY <1>1, <2>3, <2>4, <2>8, LostSound, Together
  <2> QED BY <2>2, <2>6, <2>7, <2>8
<1> QED BY <1>3, <1>4, <1>5, <1>6

LEMMA DeclineInviteSound ==
  ASSUME SessionInv, NEW s \in Slots, DeclineInvite(s)
  PROVE  SessionInv'
<1>1. /\ ServerTypes /\ QueryTypes /\ PlaceTypes /\ TasksSound /\ MeSound /\ GetSound
      /\ left \in 0 .. MaxEvents /\ demo \in BOOLEAN /\ task[s] \in Tasks /\ TaskSound(task[s], Fetching)
  BY Given
<1>2. task[s].step = "post" /\ task[s].kind = "decline"
  BY DEF DeclineInvite, Does
<1>3. CASE invite # "pending"
  <2>1. Spent(s, "declined")
    BY <1>3 DEF DeclineInvite
  <2> QED BY <1>2, <2>1, SpentSound
<1>4. CASE invite = "pending"
  <2> DEFINE t == [task[s] EXCEPT !.done = TRUE]
  <2>1. /\ invite' = "declined" /\ acct' = acct /\ cookie' = cookie /\ me' = me /\ get' = get
        /\ demo' = demo /\ page' = page /\ live' = live
        /\ \/ nav' = nav \/ nav' = At("home") \/ nav' = At("app")
        /\ left' = left \/ (left > 0 /\ left' = left - 1)
        /\ Ends(s, t, "ok", "lost") \/ Ends(s, t, Quietly(s, "error"), "lost")
    BY <1>4 DEF DeclineInvite, Lost, Fault
  <2>2. ServerTypes' /\ Snapshot' = Snapshot
    BY <1>1, <2>1 DEF ServerTypes, Snapshot, There
  <2>3. PlaceTypes' /\ left' \in 0 .. MaxEvents
    <3>1. "app" \in Paths /\ "home" \in Paths
      BY DEF Paths
    <3> QED BY <1>1, <2>1, <3>1, PlaceKept, EventsLeft
  <2>4. t \in Tasks /\ \A r \in Misreport(t, "ok", "lost") \union Misreport(t, Quietly(s, "error"), "lost") : Fine(r)
    BY <1>1, ServedWell, ErrorFine DEF Tasks
  <2> HIDE DEF t
  <2>5. task' = [task EXCEPT ![s] = Idle] /\ \A r \in told' : Fine(r)
    BY <2>1, <2>4 DEF Ends
  <2>6. Idle \in Tasks /\ TaskSound(Idle, FALSE)
    BY Shapes DEF TaskSound, None
  <2> QED BY <1>2, <2>1, <2>2, <2>3, <2>5, <2>6, StepSound
<1> QED BY <1>3, <1>4

LEMMA AskedSame ==
  ASSUME UNCHANGED server, demo' = demo
  PROVE  Asked' = Asked
BY DEF Asked, Snapshot, There, server

LEMMA FetchFreshSound ==
  ASSUME SessionInv, NEW s \in Slots, FetchFresh(s)
  PROVE  SessionInv'
<1>1. /\ ServerTypes /\ QueryTypes /\ PlaceTypes /\ TasksSound /\ MeSound /\ GetSound
      /\ left \in 0 .. MaxEvents /\ demo \in BOOLEAN /\ task[s] \in Tasks /\ TaskSound(task[s], Fetching)
  BY Given
<1>2. /\ task[s].step = "settle" /\ task[s].done
      /\ task[s].kind \in {"login", "signup", "password", "continue"}
      /\ task[s].kind \in {"login", "signup"} => task[s].user \in Users
  BY <1>1 DEF FetchFresh, Does, TaskSound
<1>3. /\ UNCHANGED server /\ me' = me /\ demo' = demo /\ page' = page /\ nav' = nav /\ live' = live /\ left' = left
      /\ \/ task[s].kind = "signup" /\ Continues(s, Step(s, "join")) /\ get' = get
         \/ /\ task[s].kind = "password" /\ me.data # NoOne
            /\ Continues(s, [Step(s, "go") EXCEPT !.ready = me.data.ready]) /\ get' = get
         \/ Continues(s, Step(s, AskingStep)) /\ get' = IF Fetching THEN Join({"joined"}) ELSE Asked
  BY DEF FetchFresh, place
<1>4. ServerTypes' /\ cookie' = cookie /\ Snapshot' = Snapshot
  BY <1>1, <1>3, ServerKept
<1>5. PlaceTypes' /\ left' \in 0 .. MaxEvents
  BY <1>1, <1>3, PlaceKept, EventsLeft
<1>6. CASE task[s].kind = "signup" /\ Continues(s, Step(s, "join")) /\ get' = get
  <2> DEFINE t == Step(s, "join")
  <2>1. t \in Tasks /\ t.step = "join" /\ t.kind = "signup" /\ t.done = task[s].done /\ t.user = task[s].user
    BY <1>1, <1>6 DEF Step, Tasks, Steps
  <2>2. task' = [task EXCEPT ![s] = t] /\ told' = {}
    BY <1>6 DEF Continues
  <2> HIDE DEF t
  <2>3. TaskSound(t, FALSE)
    BY <1>2, <1>6, <2>1 DEF TaskSound
  <2> QED BY <1>2, <1>3, <1>4, <1>5, <1>6, <2>1, <2>2, <2>3, StepSound
<1>7. CASE /\ task[s].kind = "password" /\ me.data # NoOne
           /\ Continues(s, [Step(s, "go") EXCEPT !.ready = me.data.ready]) /\ get' = get
  <2> DEFINE g == Step(s, "go")
             t == [g EXCEPT !.ready = me.data.ready]
  <2>1. g \in Tasks /\ g.step = "go" /\ g.kind = "password" /\ g.done = task[s].done
    BY <1>1, <1>7 DEF Step, Tasks, Steps
  <2>2. me.data.ready \in BOOLEAN
    BY <1>1 DEF QueryTypes, Answers, Data
  <2>3. task' = [task EXCEPT ![s] = t] /\ told' = {}
    BY <1>7 DEF Continues
  <2> HIDE DEF g
  <2>4. t \in Tasks /\ t.step = "go" /\ t.kind = "password" /\ t.done = task[s].done
    BY <2>1, <2>2 DEF Tasks
  <2> HIDE DEF t
  <2>5. TaskSound(t, FALSE)
    BY <1>2, <2>4 DEF TaskSound
  <2> QED BY <1>2, <1>3, <1>4, <1>5, <1>7, <2>3, <2>4, <2>5, StepSound
<1>8. CASE Continues(s, Step(s, AskingStep)) /\ get' = IF Fetching THEN Join({"joined"}) ELSE Asked
  <2> DEFINE t == Step(s, AskingStep)
             seen == {"joined"}
  <2>1. t \in Tasks /\ t.step = AskingStep /\ t.kind = task[s].kind /\ t.done = task[s].done /\ t.user = task[s].user
    <3>1. AskingStep \in Steps
      BY DEF AskingStep, Steps
    <3> QED BY <1>1, <3>1 DEF Step, Tasks
  <2>2. get' = IF Fetching THEN Join(seen) ELSE Asked'
    BY <1>3, <1>8, AskedSame
  <2>3. seen \in SUBSET Changes /\ "joined" \in seen
    BY DEF Changes
  <2>4. task' = [task EXCEPT ![s] = t] /\ told' = {}
    BY <1>8 DEF Continues
  <2>5. me' \in Answers /\ (me'.data = NoOne => me' = NoMe)
    BY <1>1, <1>3 DEF QueryTypes
  <2> HIDE DEF t, seen
  <2>6. QueryTypes' /\ MeSound' /\ GetSound' /\ TasksSound'
    BY <1>1, <1>2, <1>4, <2>1, <2>2, <2>3, <2>4, <2>5, AskedOrJoined
  <2> QED BY <1>4, <1>5, <2>4, <2>6, Together
<1> QED BY <1>3, <1>6, <1>7, <1>8

LEMMA TargetPath ==
  ASSUME NEW t \in Tasks
  PROVE  Target(t) \in Paths
<1>1. t.from.back \in {None, "app", "accept"}
  BY DEF Tasks, Locations
<1>2. {"app", "accept", "plans"} \subseteq Paths
  BY DEF Paths
<1>3. CASE t.kind = "login"
  BY <1>1, <1>2, <1>3 DEF Target
<1>4. CASE t.kind = "signup"
  BY <1>2, <1>4 DEF Target
<1>5. CASE t.kind = "password"
  BY <1>2, <1>5 DEF Target
<1>6. CASE t.kind \notin {"login", "signup", "password"}
  BY <1>2, <1>6 DEF Target
<1> QED BY <1>3, <1>4, <1>5, <1>6

LEMMA GoSound ==
  ASSUME SessionInv, NEW s \in Slots, Go(s)
  PROVE  SessionInv'
<1>1. /\ ServerTypes /\ QueryTypes /\ PlaceTypes /\ TasksSound /\ MeSound /\ GetSound
      /\ left \in 0 .. MaxEvents /\ demo \in BOOLEAN /\ task[s] \in Tasks /\ TaskSound(task[s], Fetching)
  BY Given
<1>2. task[s].step = "go" /\ task[s].done
  BY <1>1 DEF Go, Does, TaskSound
<1>3. /\ UNCHANGED server /\ me' = me /\ get' = get /\ demo' = demo /\ page' = page /\ live' = live /\ left' = left
      /\ \/ task[s].kind \in {"select", "continue"} /\ Ends(s, task[s], "error", "stale") /\ nav' = nav
         \/ Ends(s, task[s], "ok", "me") /\ nav' = At(Target(task[s]))
  BY DEF Go
<1>4. ServerTypes' /\ cookie' = cookie /\ Snapshot' = Snapshot
  BY <1>1, <1>3, ServerKept
<1>5. PlaceTypes' /\ left' \in 0 .. MaxEvents
  BY <1>1, <1>3, PlaceKept, EventsLeft, TargetPath
<1>6. task' = [task EXCEPT ![s] = Idle] /\ \A r \in told' : Fine(r)
  <2>1. task[s].kind \in {"select", "continue"} => \A r \in Misreport(task[s], "error", "stale") : Fine(r)
    BY <1>1, Misreported DEF Fine
  <2>2. \A r \in Misreport(task[s], "ok", "me") : Fine(r)
    BY <1>1, <1>2, Misreported
  <2> QED BY <1>3, <2>1, <2>2 DEF Ends
<1>7. Idle \in Tasks /\ TaskSound(Idle, FALSE)
  BY Shapes DEF TaskSound, None
<1> QED BY <1>2, <1>3, <1>4, <1>5, <1>6, <1>7, StepSound

LEMMA HandlerSound ==
  ASSUME SessionInv, NEW s \in Slots, Handler(s)
  PROVE  SessionInv'
BY UnsentSound, CreateSound, SignInSound, SignOutSound, DeleteSound, StorePasswordSound, SelectPlanSound,
   LookupSound, AcceptInviteSound, DeclineInviteSound, FetchFreshSound, GoSound DEF Handler

-----------------------------------------------------------------------------
(* Navigations, the query and the world *)

LEMMA TasksKept ==
  ASSUME task' = task
  PROVE  /\ TasksSound /\ (Fetching => Fetching') => TasksSound'
         /\ (SigningOn => SigningOn') /\ (RenewingOn => RenewingOn')
<1>1. TasksSound /\ (Fetching => Fetching') => TasksSound'
  BY DEF TasksSound, TaskSound
<1> QED BY <1>1 DEF SigningOn, RenewingOn

LEMMA DecidesTypes ==
  ASSUME PlaceTypes, NEW d, Decides(d)
  PROVE  PlaceTypes'
<1>1. nav.path \in Anywhere
  BY DEF PlaceTypes, Locations
<1>2. PICK to : to = Verdict(nav.path, d)
  OBVIOUS
<1>3. to \in Anywhere
  BY <1>1, <1>2 DEF Verdict, Anywhere, Paths
<1>4. /\ (page' = nav /\ nav' = Nowhere /\ live' = NotLive) \/ (nav' = At(to) /\ page' = page /\ live' = live)
      /\ demo' \in BOOLEAN
  BY <1>2 DEF Decides
<1> QED BY <1>3, <1>4, Shapes DEF PlaceTypes

\* A navigation that takes no answer of its own, a link, the live demo.
LEMMA PlacesMove ==
  ASSUME SessionInv, UNCHANGED <<server, me, get, task>>, PlaceTypes', (left \in 0 .. MaxEvents)', told' = {}
  PROVE  SessionInv'
<1>1. /\ ServerTypes /\ QueryTypes /\ TasksSound /\ MeSound /\ GetSound
  BY DEF SessionInv
<1>2. ServerTypes' /\ cookie' = cookie /\ Snapshot' = Snapshot
  BY <1>1, ServerKept
<1>3. Fetching' = Fetching /\ QueryTypes'
  BY <1>1 DEF Fetching, QueryTypes
<1>4. TasksSound' /\ MeSound' /\ GetSound'
  BY <1>1, <1>2, <1>3, TasksKept, QueryKept
<1> QED BY <1>2, <1>3, <1>4, Together

LEMMA NavigationSound ==
  ASSUME SessionInv, told' = {},
         Arrive \/ GuardCached \/ (\E path \in {"login", "plans", "app"} : Click(path)) \/ ViewDemo \/ ExitDemo
  PROVE  SessionInv'
<1>1. PlaceTypes /\ left \in 0 .. MaxEvents /\ demo \in BOOLEAN
  BY DEF SessionInv, PlaceTypes
<1>2. CASE Arrive
  <2>1. PlaceTypes' /\ left' = left /\ UNCHANGED <<server, me, get, task>>
    BY <1>1, <1>2, Shapes DEF Arrive, PlaceTypes
  <2> QED BY <1>1, <2>1, PlacesMove
<1>3. CASE GuardCached
  <2>1. PlaceTypes' /\ left' = left /\ UNCHANGED <<server, me, get, task>>
    BY <1>1, <1>3, DecidesTypes DEF GuardCached
  <2> QED BY <1>1, <2>1, PlacesMove
<1>4. CASE \E path \in {"login", "plans", "app"} : Click(path)
  <2>1. PICK path \in Paths : Click(path)
    BY <1>4 DEF Paths
  <2>2. PlaceTypes' /\ UNCHANGED <<server, me, get, task>> /\ (left' = left \/ (left > 0 /\ left' = left - 1))
    BY <1>1, <2>1, PlaceKept DEF Click
  <2>3. left' \in 0 .. MaxEvents
    BY <1>1, <2>2, EventsLeft
  <2> QED BY <2>2, <2>3, PlacesMove
<1>5. CASE ViewDemo \/ ExitDemo
  <2>1. "app" \in Paths /\ "home" \in Paths
    BY DEF Paths
  <2>2. PlaceTypes' /\ left' = left /\ UNCHANGED <<server, me, get, task>>
    BY <1>1, <1>5, <2>1, PlaceKept DEF ViewDemo, ExitDemo
  <2> QED BY <1>1, <2>2, PlacesMove
<1> QED BY <1>2, <1>3, <1>4, <1>5

LEMMA AskSound ==
  ASSUME SessionInv, told' = {}, GuardAsks \/ Observe
  PROVE  SessionInv'
<1>1. /\ ServerTypes /\ QueryTypes /\ PlaceTypes /\ TasksSound /\ left \in 0 .. MaxEvents
      /\ UNCHANGED server /\ me' = me /\ get' = Asked /\ demo' = demo /\ page' = page /\ nav' = nav /\ live' = live
      /\ task' = task /\ left' = left
  BY DEF GuardAsks, Observe, place, SessionInv
<1>2. ServerTypes'
  BY <1>1, ServerKept
<1>3. PlaceTypes' /\ left' \in 0 .. MaxEvents
  BY <1>1 DEF PlaceTypes
<1>4. get' = Asked'
  BY <1>1, AskedSame
<1>5. me' \in Answers /\ (me'.data = NoOne => me' = NoMe)
  BY <1>1 DEF QueryTypes
<1>6. QueryTypes' /\ MeSound' /\ GetSound' /\ Fetching'
  BY <1>1, <1>2, <1>4, <1>5, QueryAsked
<1>7. TasksSound'
  BY <1>1, <1>6, TasksKept
<1> QED BY <1>2, <1>3, <1>6, <1>7, Together

LEMMA CollectSound ==
  ASSUME SessionInv, told' = {}, Collect
  PROVE  SessionInv'
<1>1. /\ ServerTypes /\ PlaceTypes /\ TasksSound /\ left \in 0 .. MaxEvents
      /\ UNCHANGED server /\ me' = NoMe /\ get' = get /\ demo' = demo /\ page' = page /\ nav' = nav /\ live' = live
      /\ task' = task /\ left' = left /\ ~Fetching
  BY DEF Collect, place, SessionInv
<1>2. get' = NoGet
  BY <1>1 DEF SessionInv, GetSound
<1>3. QueryTypes' /\ MeSound' /\ GetSound' /\ ~Fetching'
  BY <1>1, <1>2, QueryDropped
<1>4. ServerTypes'
  BY <1>1, ServerKept
<1>5. PlaceTypes' /\ left' \in 0 .. MaxEvents
  BY <1>1 DEF PlaceTypes
<1>6. TasksSound'
  BY <1>1, TasksKept
<1> QED BY <1>3, <1>4, <1>5, <1>6, Together

LEMMA AllFail ==
  ASSUME TasksSound, task' = FailTasks
  PROVE  TasksSound'
<1>1. \A x \in Slots : TaskSound(task'[x], FALSE)
  BY Failing
<1>2. \A x \in Slots : TaskSound(task'[x], Fetching')
  BY <1>1 DEF TaskSound
<1> QED BY <1>2, Failing DEF TasksSound, TaskSound

LEMMA WorkspaceForbiddenSound ==
  ASSUME SessionInv, WorkspaceForbidden
  PROVE  SessionInv'
<1>1. /\ ServerTypes /\ PlaceTypes /\ TasksSound /\ left \in 0 .. MaxEvents
      /\ UNCHANGED server /\ me' = NoMe /\ get' = NoGet
      /\ demo' = demo /\ page' = page /\ nav' = nav /\ live' = live
      /\ left > 0 /\ left' = left - 1 /\ task' = FailTasks /\ told' = FailReports(Pending)
  BY DEF WorkspaceForbidden, place, SessionInv
<1>2. QueryTypes' /\ MeSound' /\ GetSound' /\ ServerTypes'
  BY <1>1, QueryDropped, ServerKept
<1>3. PlaceTypes' /\ left' \in 0 .. MaxEvents
  BY <1>1, EventsLeft DEF PlaceTypes
<1> QED BY <1>1, <1>2, <1>3, AllFail, FailuresAreFine, Together

LEMMA AnswerOkSound ==
  ASSUME SessionInv, told' = {}, AnswerOk
  PROVE  SessionInv'
<1>1. /\ ServerTypes /\ QueryTypes /\ PlaceTypes /\ TasksSound /\ GetSound /\ left \in 0 .. MaxEvents
      /\ get.status = 200 /\ me' = [data |-> get.data, stale |-> FALSE, unseen |-> get.unseen] /\ get' = NoGet
      /\ task' = [x \in Slots |-> IF x \in Pending THEN [task[x] EXCEPT !.step = "go", !.ready = get.data.ready]
                                 ELSE Settled(task[x])]
      /\ UNCHANGED server /\ left' = left
      /\ Decides(get.data) \/ (demo' = demo /\ page' = page /\ nav' = nav /\ live' = live)
  BY DEF AnswerOk, place, SessionInv
<1>0. \A x \in Slots : task[x] \in Tasks
  BY DEF SessionInv, TasksSound
<1>2. ServerTypes' /\ cookie' = cookie /\ Snapshot' = Snapshot
  BY <1>1, ServerKept
<1>3. PlaceTypes' /\ left' \in 0 .. MaxEvents
  <2>1. demo' = demo /\ page' = page /\ nav' = nav /\ live' = live => PlaceTypes'
    BY <1>1 DEF PlaceTypes
  <2> QED BY <1>1, <2>1, DecidesTypes
<1>4. get.data \in Data /\ get.data.ready \in BOOLEAN /\ get.unseen \subseteq Changes /\ get.data # NoOne
  BY <1>1 DEF QueryTypes, Queries, Data, GetSound
<1>5. /\ task' \in [Slots -> Tasks]
      /\ \A x \in Slots : /\ TaskSound(task'[x], FALSE) /\ task'[x].kind = task[x].kind
                         /\ \/ task'[x].step = task[x].step
                            \/ task[x].step \in {"await", "joined"}
                            \/ task[x].step = "refetch" /\ task'[x].step = "settle"
  <2>1. ASSUME NEW x \in Slots
        PROVE  /\ task'[x] \in Tasks /\ TaskSound(task'[x], FALSE) /\ task'[x].kind = task[x].kind
               /\ \/ task'[x].step = task[x].step
                  \/ task[x].step \in {"await", "joined"}
                  \/ task[x].step = "refetch" /\ task'[x].step = "settle"
    <3>1. PICK t \in Tasks : t = task[x]
      BY <1>0
    <3>2. PICK b \in BOOLEAN : b = get.data.ready
      BY <1>4
    <3>3. task'[x] = IF task[x].step \in {"await", "joined"} THEN [t EXCEPT !.step = "go", !.ready = b] ELSE Settled(t)
      BY <1>1, <3>1, <3>2 DEF Pending
    <3>4. TaskSound(t, TRUE)
      BY <1>1, <3>1 DEF TasksSound, TaskSound
    <3> DEFINE g == [t EXCEPT !.step = "go"]
               d == [g EXCEPT !.ready = b]
    <3>5. g \in Tasks /\ g.step = "go" /\ g.kind = t.kind /\ g.done = t.done /\ g.user = t.user
      BY DEF Tasks, Steps
    <3>6. d = [t EXCEPT !.step = "go", !.ready = b]
      OBVIOUS
    <3> HIDE DEF g
    <3>7. d \in Tasks /\ d.step = "go" /\ d.kind = t.kind /\ d.done = t.done /\ d.user = t.user
      BY <3>5 DEF Tasks
    <3> HIDE DEF d
    <3>8. CASE task[x].step \in {"await", "joined"}
      <4>1. TaskSound(d, FALSE)
        BY <3>1, <3>4, <3>7, <3>8 DEF TaskSound
      <4> QED BY <3>1, <3>3, <3>6, <3>7, <3>8, <4>1
    <3>9. CASE task[x].step \notin {"await", "joined"}
      <4>1. task'[x] = Settled(t) /\ t.step \notin {"await", "joined"}
        BY <3>1, <3>3, <3>9
      <4>2. Settled(t) \in Tasks /\ TaskSound(Settled(t), FALSE)
        BY <3>4, <4>1, SettledSound
      <4>3. CASE t.step = "refetch"
        <5>1. Settled(t).step = "settle" /\ Settled(t).kind = t.kind
          BY <3>4, <4>3, SettledSound
        <5> QED BY <3>1, <4>1, <4>2, <4>3, <5>1
      <4>4. CASE t.step # "refetch"
        BY <3>1, <3>4, <4>1, <4>2, <4>4, SettledSound
      <4> QED BY <4>3, <4>4
    <3> QED BY <3>8, <3>9
  <2>2. task' = [x \in Slots |-> task'[x]]
    BY <1>1
  <2>3. task' \in [Slots -> Tasks]
    BY <2>1, <2>2
  <2> QED BY <2>1, <2>3
<1>6. TasksSound'
  <2>1. \A x \in Slots : TaskSound(task'[x], Fetching')
    BY <1>5 DEF TaskSound
  <2> QED BY <1>5, <2>1 DEF TasksSound, TaskSound
<1>7. (SigningOn => SigningOn') /\ (RenewingOn => RenewingOn')
  BY <1>5 DEF SigningOn, RenewingOn
<1>8. MeSound'
  BY <1>1, <1>2, <1>4, <1>7 DEF MeSound, GetSound
<1>9. GetSound' /\ QueryTypes'
  <2>1. me' \in Answers
    BY <1>1, <1>4 DEF Answers
  <2>2. ~Fetching'
    BY <1>1, Shapes DEF Fetching
  <2>3. me'.data # NoOne /\ get' = NoGet /\ get' \in Queries
    BY <1>1, <1>4, Shapes
  <2>4. GetSound'
    BY <2>2, <2>3, Shapes DEF GetSound
  <2>5. QueryTypes'
    BY <2>1, <2>3 DEF QueryTypes
  <2> QED BY <2>4, <2>5
<1> QED BY <1>2, <1>3, <1>6, <1>8, <1>9, Together

LEMMA AnswerFailsSound ==
  ASSUME SessionInv, AnswerFails
  PROVE  SessionInv'
<1>1. /\ ServerTypes /\ QueryTypes /\ PlaceTypes /\ TasksSound /\ left \in 0 .. MaxEvents
      /\ me' = IF get.status = 401 THEN NoMe
               ELSE IF me.data = NoOne THEN me ELSE [me EXCEPT !.unseen = @ \union {"failed"}]
      /\ get' = NoGet /\ task' = FailTasks /\ told' = FailReports(Pending) /\ UNCHANGED server
      /\ left' = left \/ (left > 0 /\ left' = left - 1)
      /\ TurnsAway \/ (demo' = demo /\ page' = page /\ nav' = nav /\ live' = live)
  BY DEF AnswerFails, place, SessionInv
<1>2. ServerTypes' /\ left' \in 0 .. MaxEvents
  BY <1>1, ServerKept, EventsLeft
<1>3. PlaceTypes'
  <2>1. demo' = demo /\ page' = page /\ nav' = nav /\ live' = live => PlaceTypes'
    BY <1>1 DEF PlaceTypes
  <2> QED BY <1>1, <2>1, TurnsAwayTypes
<1>4. TasksSound' /\ \A r \in told' : Fine(r)
  BY <1>1, AllFail, FailuresAreFine
<1>5. QueryTypes' /\ GetSound' /\ MeSound'
  <2>1. CASE me' = NoMe
    BY <1>1, <2>1, QueryDropped
  <2>2. CASE me.data # NoOne /\ me' = [me EXCEPT !.unseen = @ \union {"failed"}]
    <3>1. "failed" \in Changes
      BY DEF Changes
    <3>2. me' \in Answers /\ me'.data = me.data /\ "failed" \in me'.unseen
      BY <1>1, <2>2, <3>1 DEF QueryTypes, Answers
    <3>3. Excused(me'.unseen) /\ Outdated(me'.unseen)
      BY <3>2 DEF Excused, Outdated
    <3>4. ~Fetching'
      BY <1>1, Shapes DEF Fetching
    <3> QED BY <1>1, <2>2, <3>2, <3>3, <3>4, Shapes DEF QueryTypes, GetSound, MeSound
  <2> QED BY <1>1, <2>1, <2>2 DEF QueryTypes
<1> QED BY <1>2, <1>3, <1>4, <1>5, Together

LEMMA NewTask ==
  ASSUME NEW kind \in Kinds, NEW user \in Someone, NEW step \in Steps, NEW from \in Locations
  PROVE  LET t == Task(kind, user, step, from)
         IN  t \in Tasks /\ t.kind = kind /\ t.user = user /\ t.step = step /\ ~t.done
BY DEF Task, Tasks

LEMMA SubmitSound ==
  ASSUME SessionInv, told' = {}, NEW s \in Slots, Submit(s)
  PROVE  SessionInv'
<1>1. ServerTypes /\ PlaceTypes /\ left \in 0 .. MaxEvents /\ demo \in BOOLEAN
  BY Given
<1>2. /\ page' = page /\ nav' = nav /\ live' = live /\ demo' \in BOOLEAN
      /\ \E kind \in Kinds, user \in Someone : /\ Submits(s, kind, user)
                                               /\ kind \in {"login", "signup"} => user \in Users
  BY <1>1 DEF Submit, place, Kinds, Someone
<1>3. PICK kind \in Kinds, user \in Someone : Submits(s, kind, user) /\ (kind \in {"login", "signup"} => user \in Users)
  BY <1>2
<1> DEFINE t == Task(kind, user, "post", page)
<1>4. /\ task[s] = Idle /\ left > 0 /\ left' = left - 1 /\ UNCHANGED server /\ me' = me /\ get' = get
      /\ task' = [task EXCEPT ![s] = t]
  BY <1>3 DEF Submits
<1>5. t \in Tasks /\ t.kind = kind /\ t.user = user /\ t.step = "post" /\ ~t.done
  BY <1>1, NewTask DEF PlaceTypes, Steps
<1> HIDE DEF t
<1>6. TaskSound(t, FALSE)
  BY <1>3, <1>5 DEF TaskSound
<1>7. ServerTypes' /\ cookie' = cookie /\ Snapshot' = Snapshot /\ left' \in 0 .. MaxEvents
  BY <1>1, <1>4, ServerKept, EventsLeft
<1>8. PlaceTypes'
  BY <1>1, <1>2, PlaceKept
<1>9. task[s].step = "idle"
  BY <1>4, Shapes
<1> QED BY <1>4, <1>5, <1>6, <1>7, <1>8, <1>9, StepSound

LEMMA EffectRunsSound ==
  ASSUME SessionInv, told' = {}, NEW s \in Slots, EffectRuns(s)
  PROVE  SessionInv'
<1>1. ServerTypes /\ QueryTypes /\ PlaceTypes /\ left \in 0 .. MaxEvents
  BY Given
<1>2. PICK kind \in {"accept", "decline"} : kind = page.path
  BY DEF EffectRuns
<1>3. PICK user \in Someone : user = me.data.user
  BY <1>1 DEF QueryTypes, Answers, Data
<1>4. PICK step \in {"lookup", "post"} : step = (IF kind = "accept" THEN "lookup" ELSE "post")
  OBVIOUS
<1> DEFINE t == Task(kind, user, step, page)
<1>5. /\ task[s] = Idle /\ left' = left /\ UNCHANGED server /\ me' = me /\ get' = get
      /\ demo' = demo /\ page' = page /\ nav' = nav /\ live' = [slot |-> s, user |-> user]
      /\ task' = [task EXCEPT ![s] = t]
  BY <1>2, <1>3, <1>4 DEF EffectRuns
<1>6. t \in Tasks /\ t.kind = kind /\ t.step = step /\ ~t.done
  <2>1. kind \in Kinds /\ step \in Steps /\ page \in Locations
    BY <1>1, <1>2, <1>4 DEF Kinds, Steps, PlaceTypes
  <2> QED BY <2>1, NewTask
<1> HIDE DEF t
<1>7. TaskSound(t, FALSE)
  BY <1>2, <1>4, <1>6 DEF TaskSound
<1>8. ServerTypes' /\ cookie' = cookie /\ Snapshot' = Snapshot
  BY <1>1, <1>5, ServerKept
<1>9. PlaceTypes'
  BY <1>1, <1>5 DEF PlaceTypes
<1>10. task[s].step = "idle"
  BY <1>5, Shapes
<1> QED BY <1>1, <1>5, <1>6, <1>7, <1>8, <1>9, <1>10, StepSound

LEMMA OpenSound ==
  ASSUME SessionInv, told' = {},
         (\E path \in Paths \ {"home"} : Open(path)) \/ \E u \in Users : OAuth(u)
  PROVE  SessionInv'
<1>1. ServerTypes /\ PlaceTypes /\ left \in 0 .. MaxEvents
  BY DEF SessionInv
<1>2. /\ me' = NoMe /\ get' = NoGet /\ task' = [s \in Slots |-> Idle] /\ page' = Nowhere /\ live' = NotLive
      /\ left > 0 /\ left' = left - 1 /\ demo' = demo /\ acct' = acct /\ invite' = invite
      /\ cookie' = cookie \/ \E u \in Users : There(u) /\ cookie' = u
      /\ \E path \in Paths : nav' = At(path)
  BY DEF Open, OAuth, server, Paths
<1>3. QueryTypes' /\ MeSound' /\ GetSound'
  BY <1>2, QueryDropped
<1>4. ServerTypes'
  BY <1>1, <1>2 DEF ServerTypes, Someone, There
<1>5. PlaceTypes' /\ left' \in 0 .. MaxEvents
  <2>1. left' \in 0 .. MaxEvents
    BY <1>1, <1>2, EventsLeft
  <2> QED BY <1>1, <1>2, <2>1, Shapes DEF PlaceTypes, Anywhere
<1>6. TasksSound'
  <2>1. \A x \in Slots : task'[x] = Idle
    BY <1>2
  <2>2. task' \in [Slots -> Tasks]
    BY <1>2, Shapes
  <2> QED BY <2>1, <2>2, Shapes DEF TasksSound, TaskSound, None
<1> QED BY <1>3, <1>4, <1>5, <1>6, Together

LEMMA ElsewhereSound ==
  ASSUME SessionInv, told' = {}, Elsewhere
  PROVE  SessionInv'
<1>1. ServerTypes /\ QueryTypes /\ PlaceTypes /\ TasksSound /\ MeSound /\ GetSound /\ left \in 0 .. MaxEvents
  BY DEF SessionInv
<1>2. /\ left > 0 /\ left' = left - 1 /\ demo' = demo /\ page' = page /\ nav' = nav /\ live' = live /\ task' = task
      /\ me' = IF me.data = NoOne THEN me ELSE [me EXCEPT !.unseen = @ \union {"elsewhere"}]
      /\ get' = IF Fetching THEN [get EXCEPT !.unseen = @ \union {"elsewhere"}] ELSE get
  BY DEF Elsewhere, place, Changed
<1>3. QueryTypes' /\ MeSound' /\ GetSound' /\ (Fetching => Fetching')
  <2>1. "elsewhere" \in Changes
    BY DEF Changes
  <2> QED BY <1>1, <1>2, <2>1, QueryTold
<1>4. TasksSound'
  BY <1>1, <1>2, <1>3, TasksKept
<1>5. PlaceTypes' /\ left' \in 0 .. MaxEvents
  BY <1>1, <1>2, EventsLeft DEF PlaceTypes
<1>6. ServerTypes'
  <2>1. CASE \E u \in Users \union {None} : (u # None => There(u)) /\ cookie' = u /\ UNCHANGED <<acct, invite>>
    BY <1>1, <2>1 DEF ServerTypes, Someone, There
  <2>2. CASE \E u \in {x \in Users : There(x)} :
               /\ \E a \in {Deleted, [acct[u] EXCEPT !.plan = TRUE]} : acct' = [acct EXCEPT ![u] = a]
               /\ UNCHANGED <<cookie, invite>>
    <3>1. PICK u \in Users : /\ There(u)
                             /\ \E a \in {Deleted, [acct[u] EXCEPT !.plan = TRUE]} : acct' = [acct EXCEPT ![u] = a]
                             /\ UNCHANGED <<cookie, invite>>
      BY <2>2
    <3>2. PICK a \in {Deleted, [acct[u] EXCEPT !.plan = TRUE]} : acct' = [acct EXCEPT ![u] = a]
      BY <3>1
    <3>3. a \in {NoAccount, Deleted} \union Accounts /\ a.row # "none"
      <4>1. [acct[u] EXCEPT !.plan = TRUE] \in Accounts /\ [acct[u] EXCEPT !.plan = TRUE].row # "none"
        BY <1>1, <3>1, AccountStores
      <4>2. Deleted.row # "none"
        BY DEF Deleted, Account
      <4> QED BY <3>2, <4>1, <4>2
    <3> QED BY <1>1, <3>1, <3>2, <3>3, AccountChanged DEF ServerTypes
  <2>3. CASE invite = "pending" /\ invite' = "revoked" /\ UNCHANGED <<acct, cookie>>
    BY <1>1, <2>3 DEF ServerTypes
  <2> QED BY <2>1, <2>2, <2>3 DEF Elsewhere
<1> QED BY <1>3, <1>4, <1>5, <1>6, Together

-----------------------------------------------------------------------------
(* The invariant holds *)

LEMMA SessionInit == Init => SessionInv
<1> SUFFICES ASSUME Init
             PROVE  SessionInv
  OBVIOUS
<1>1. ServerTypes
  <2>1. acct \in [Users -> {NoAccount, Deleted} \union Accounts] /\ invite = "pending"
    BY DEF Init
  <2>2. cookie \in Someone /\ (cookie # None => There(cookie))
    BY DEF Init, Someone
  <2> QED BY <2>1, <2>2 DEF ServerTypes, There
<1>2. /\ me = NoMe /\ get = NoGet /\ demo = FALSE /\ page = Nowhere /\ live = NotLive
      /\ task = [s \in Slots |-> Idle] /\ left = MaxEvents /\ told = {}
      /\ \E path \in Paths : nav = At(path)
  BY DEF Init
<1>3. QueryTypes /\ PlaceTypes /\ left \in 0 .. MaxEvents
  <2>1. left \in 0 .. MaxEvents
    BY <1>2, WebSessionAssumption
  <2>2. nav \in Locations
    BY <1>2, Shapes DEF Anywhere
  <2>3. QueryTypes
    BY <1>2, Shapes DEF QueryTypes
  <2>4. PlaceTypes
    BY <1>2, <2>2, Shapes DEF PlaceTypes
  <2> QED BY <2>1, <2>3, <2>4
<1>4. ~Fetching
  BY <1>2, Shapes DEF Fetching
<1>5. MeSound /\ GetSound
  BY <1>2, <1>4, Shapes DEF MeSound, GetSound
<1>6. TasksSound
  BY <1>2, Shapes DEF TasksSound, TaskSound, None
<1>7. ReportsExplained
  BY <1>2 DEF ReportsExplained
<1> QED BY <1>1, <1>3, <1>5, <1>6, <1>7 DEF SessionInv

LEMMA SessionNext == SessionInv /\ [Next]_vars => SessionInv'
<1> SUFFICES ASSUME SessionInv, [Next]_vars
             PROVE  SessionInv'
  OBVIOUS
<1>1. CASE Silent /\ told' = {}
  <2>1. CASE Arrive \/ GuardCached \/ (\E path \in {"login", "plans", "app"} : Click(path)) \/ ViewDemo \/ ExitDemo
    BY <1>1, <2>1, NavigationSound
  <2>2. CASE GuardAsks \/ Observe
    BY <1>1, <2>2, AskSound
  <2>3. CASE AnswerOk
    BY <1>1, <2>3, AnswerOkSound
  <2>4. CASE Collect
    BY <1>1, <2>4, CollectSound
  <2>5. CASE \E s \in Slots : Submit(s) \/ EffectRuns(s)
    BY <1>1, <2>5, SubmitSound, EffectRunsSound
  <2>6. CASE (\E path \in Paths \ {"home"} : Open(path)) \/ \E u \in Users : OAuth(u)
    BY <1>1, <2>6, OpenSound
  <2>7. CASE Elsewhere
    BY <1>1, <2>7, ElsewhereSound
  <2> QED BY <1>1, <2>1, <2>2, <2>3, <2>4, <2>5, <2>6, <2>7 DEF Silent
<1>2. CASE AnswerFails
  BY <1>2, AnswerFailsSound
<1>3. CASE WorkspaceForbidden
  BY <1>3, WorkspaceForbiddenSound
<1>4. CASE \E s \in Slots : Handler(s)
  BY <1>4, HandlerSound
<1>5. CASE UNCHANGED vars
  <2>1. UNCHANGED <<server, me, get, task>> /\ PlaceTypes' /\ (left \in 0 .. MaxEvents)' /\ told' = told
    BY <1>5 DEF vars, place, server, SessionInv, PlaceTypes
  <2>2. ServerTypes' /\ cookie' = cookie /\ Snapshot' = Snapshot
    BY <2>1, ServerKept DEF SessionInv
  <2>3. Fetching' = Fetching /\ QueryTypes'
    BY <2>1 DEF Fetching, QueryTypes, SessionInv
  <2>4. TasksSound' /\ MeSound' /\ GetSound'
    BY <2>1, <2>2, <2>3, TasksKept, QueryKept DEF SessionInv
  <2>5. ReportsExplained'
    BY <2>1 DEF SessionInv, ReportsExplained
  <2> QED BY <2>1, <2>2, <2>3, <2>4, <2>5 DEF SessionInv
<1> QED BY <1>1, <1>2, <1>3, <1>4, <1>5 DEF Next

\* What the session holds at any time: /me and its fetch differ from what the API would say only
\* for the reasons they keep, and no handler has done less, or more, than its step stands for.
THEOREM SessionInvariant == Spec => []SessionInv
BY SessionInit, SessionNext, PTL DEF Spec

\* The variables have the types the runs check.
THEOREM SessionTypes == Spec => []TypeOK
<1>1. SessionInv => TypeOK
  <2> SUFFICES ASSUME SessionInv
               PROVE  TypeOK
    OBVIOUS
  <2>1. ServerTypes /\ QueryTypes /\ PlaceTypes /\ left \in 0 .. MaxEvents
    BY DEF SessionInv
  <2>2. me.unseen \subseteq Changes /\ get.unseen \subseteq Changes /\ get.status \in {0, 200, 401, 404, 500}
    BY <2>1 DEF QueryTypes, Answers, Queries
  <2>3. page.path \in Anywhere /\ nav.path \in Anywhere /\ live.slot \in Slots \union {None}
    BY <2>1 DEF PlaceTypes, Locations
  <2> QED BY <2>1, <2>2, <2>3 DEF TypeOK, ServerTypes, QueryTypes, Someone, Anywhere
<1> QED BY <1>1, SessionInvariant, PTL

\* The name the workspace shows is the one its requests act as, but for the reasons that
\* IdentityExplained lists: whichever handlers are in flight and however their awaits interleave
\* with the query of features/auth/hooks.ts.
THEOREM IdentityIsExplained == Spec => []IdentityExplained
<1>1. SessionInv => IdentityExplained
  <2> SUFFICES ASSUME SessionInv, me.data.user \notin {None, cookie}
               PROVE  \/ me.stale \/ Fetching \/ me.unseen \intersect {"lost", "failed", "elsewhere"} # {}
                      \/ {"joined", "signin"} \subseteq me.unseen
                      \/ \E s \in Slots : task[s].kind \in {"login", "signup"} /\ task[s].done
    BY DEF IdentityExplained
  <2>1. me.stale \/ Fetching \/ Excused(me.unseen) \/ Joined(me.unseen) \/ SigningOn
    BY DEF SessionInv, MeSound
  <2>2. SigningOn => \E s \in Slots : task[s].kind \in {"login", "signup"} /\ task[s].done
    BY DEF SigningOn, SessionInv, TasksSound, TaskSound
  <2> QED BY <2>1, <2>2 DEF Excused, Joined
<1> QED BY <1>1, SessionInvariant, PTL

\* A form says what it has done, but for a lost answer, a failed fetch of /me, a sign-up that
\* could not join its team and an invite answered twice (login.tsx, plans.tsx, change-password.tsx,
\* accept-invite.tsx, _app.settings.tsx).
THEOREM ReportsAreExplained == Spec => []ReportsExplained
<1>1. SessionInv => ReportsExplained
  BY DEF SessionInv
<1> QED BY <1>1, SessionInvariant, PTL

\* Where a navigation goes that takes what /me says now.
LEMMA DecidesRight ==
  ASSUME PlaceTypes, nav # Nowhere, ~Free(nav), Snapshot # NoOne, Decides(Snapshot)
  PROVE  Right
<1>1. nav.path \in Guarded
  BY DEF Free
<1>2. PICK to : to = Verdict(nav.path, Snapshot)
  OBVIOUS
<1>3. to \in Paths /\ None \notin Paths
  BY <1>1, <1>2 DEF Verdict, Guarded, Paths, None
<1>4. RightPlace(nav.path) = to
  BY <1>2 DEF RightPlace
<1>5. CASE to = nav.path
  <2>1. page' = nav /\ nav' = Nowhere
    BY <1>2, <1>5 DEF Decides
  <2> QED BY <1>4, <1>5, <2>1 DEF Right
<1>6. CASE to # nav.path
  <2>1. nav' = At(to)
    BY <1>2, <1>6 DEF Decides
  <2>2. At(to).path = to /\ Nowhere.path = None
    BY <1>3, Shapes DEF Anywhere, Nowhere
  <2> QED BY <1>3, <1>4, <2>1, <2>2 DEF Right
<1> QED BY <1>5, <1>6

\* A guard leads to the page the account calls for, but for the reasons RedirectsExplained lists:
\* the beforeLoad of _app.tsx, plans.tsx and change-password.tsx on whatever they find cached.
THEOREM RedirectsAreExplained == Spec => RedirectsExplained
<1> DEFINE Redirects ==
      /\ GuardCached => \/ Right \/ Underway
                        \/ me.unseen \intersect {"password", "accept", "joined", "lost", "failed", "elsewhere"} # {}
      /\ Waits /\ (AnswerOk \/ AnswerFails) => \/ Right \/ get.unseen # {}
                                               \/ get.status = 500 \/ left' # left
<1>1. SessionInv => Redirects
  <2> SUFFICES ASSUME SessionInv
               PROVE  Redirects
    OBVIOUS
  <2>1. PlaceTypes /\ QueryTypes /\ MeSound /\ GetSound /\ left \in 0 .. MaxEvents
    BY DEF SessionInv
  <2>2. ASSUME GuardCached, ~Underway, ~Outdated(me.unseen)
        PROVE  Right
    <3>1. nav # Nowhere /\ ~Free(nav) /\ me.data # NoOne /\ Decides(me.data)
      BY <2>2 DEF GuardCached
    <3>2. ~Fetching /\ ~RenewingOn
      <4>1. \A s \in Slots : task[s].step = "refetch" => Fetching
        BY DEF SessionInv, TasksSound, TaskSound
      <4> QED BY <2>2, <4>1 DEF Underway, RenewingOn
    <3>3. me.data = Snapshot
      BY <2>1, <2>2, <3>1, <3>2 DEF MeSound
    <3> QED BY <2>1, <3>1, <3>3, DecidesRight
  <2>3. ASSUME Waits, AnswerOk, get.unseen = {}
        PROVE  Right
    <3>1. nav # Nowhere /\ ~Free(nav) /\ Decides(get.data) /\ get.status = 200
      BY <2>3 DEF Waits, AnswerOk
    <3>2. get.data = Snapshot /\ get.data # NoOne
      BY <2>1, <2>3, <3>1 DEF GetSound, Fetching
    <3> QED BY <2>1, <3>1, <3>2, DecidesRight
  <2>4. ASSUME Waits, AnswerFails, get.unseen = {}, get.status # 500, left' = left
        PROVE  Right
    <3>1. TurnsAway /\ Fetching /\ (get.status # 200 \/ (left > 0 /\ left' = left - 1))
      BY <2>4 DEF AnswerFails
    <3>2. get.status # 200
      <4>1. left \in Nat
        BY <2>1, WebSessionAssumption
      <4> QED BY <2>4, <3>1, <4>1
    <3>3. get.data = NoOne /\ Snapshot = NoOne
      BY <2>1, <2>4, <3>1, <3>2 DEF GetSound
    <3>4. nav'.path = "login" /\ nav' # Nowhere
      BY <3>1 DEF TurnsAway, Login, At, Nowhere, None
    <3> QED BY <3>3, <3>4 DEF Right, RightPlace
  <2> QED BY <2>2, <2>3, <2>4 DEF Outdated
<1>2. SessionInv => [Redirects]_vars
  BY <1>1
<1> QED BY <1>2, SessionInvariant, PTL DEF RedirectsExplained

================================================================================
