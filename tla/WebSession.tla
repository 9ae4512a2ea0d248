------------------------------ MODULE WebSession ------------------------------
(***************************************************************************)
(* One browser tab and the session it holds: the cached answer of GET /me  *)
(* (features/auth/hooks.ts, lib/api.ts), the guards of the routes that     *)
(* read it (_app.tsx, plans.tsx, change-password.tsx), and the handlers of *)
(* the forms that change the account behind it (login.tsx, plans.tsx,      *)
(* change-password.tsx, accept-invite.tsx, _app.settings.tsx).             *)
(*                                                                         *)
(* A handler goes on after its page is gone; its awaits interleave with    *)
(* those of a navigation, of another handler and of the query that         *)
(* fetches /me.  Account and cookie are the API's.                         *)
(***************************************************************************)
EXTENDS Naturals, FiniteSets

CONSTANTS
  Users,
  Invited,       \* the user whose address the one invite names
  Slots,         \* handlers in flight
  MaxEvents  \* forms submitted, pages opened, requests that fail and changes made elsewhere: a bound

ASSUME WebSessionAssumption ==
  Invited \in Users /\ MaxEvents \in Nat

VARIABLES
  acct,       \* accounts: there, must_change_password, plan selected, member of a team
  invite,     \* status of the invite
  cookie,     \* whom auth_token names
  me,         \* query "me": its data, whether it is stale, what has changed since it was read
  get,        \* its fetch in flight, with the answer the API has given
  demo,       \* sessionStorage: live demo
  page, nav,  \* the page shown; the one a navigation is on its way to
  live,       \* the run of the invite page's effect that is not cancelled: its slot and dependencies
  task,       \* handlers
  left,       \* how many of those may still happen
  told        \* history: handlers that in this step said something else than what they had done

server == <<acct, invite, cookie>>
place == <<page, nav, live>>
vars == <<server, me, get, demo, place, task, left, told>>

-----------------------------------------------------------------------------
None == "none"
Paths == {"home", "login", "signup", "plans", "password", "app", "accept", "decline"}
Guarded == {"plans", "password", "app"}
Observing == {"plans", "app", "accept", "decline"}   \* pages that call useMe
Changes == {"password", "plan", "accept", "signin", "joined", "lost", "failed", "elsewhere"}

\* A member of a team has not always selected a plan; must_change_password is set in rows
\* of earlier releases only.
Account(row, must, plan, team) == [row |-> row, must |-> must, plan |-> plan, team |-> team]
NoAccount == Account("none", FALSE, FALSE, FALSE)
Deleted == Account("deleted", FALSE, FALSE, FALSE)
Accounts == {NoAccount} \union {Account("there", must, plan, team) : must, plan, team \in BOOLEAN}

\* A place: where to go after signing in and whether the link carries an invite.
At(path) == [path |-> path, back |-> None, invite |-> FALSE]
Nowhere == At(None)
NoOne == [user |-> None, must |-> FALSE, ready |-> FALSE]
NoMe == [data |-> NoOne, stale |-> TRUE, unseen |-> {}]
NoGet == [status |-> 0, data |-> NoOne, unseen |-> {}]
NotLive == [slot |-> None, user |-> None]
Task(kind, user, step, from) ==
  [kind |-> kind, user |-> user, step |-> step, from |-> from, ready |-> FALSE, done |-> FALSE]
Idle == Task(None, None, "idle", Nowhere)

There(u) == acct[u].row = "there"
\* What GET /me would say now.
Snapshot ==
  IF cookie = None \/ ~There(cookie) THEN NoOne
  ELSE [user |-> cookie, must |-> acct[cookie].must, ready |-> acct[cookie].plan \/ acct[cookie].team]

\* In live demo apiFetch throws before anything is sent.
Asked == [status |-> IF demo THEN 500 ELSE IF cookie = None THEN 401 ELSE IF Snapshot = NoOne THEN 404 ELSE 200,
          data |-> IF demo THEN NoOne ELSE Snapshot, unseen |-> {}]
Fetching == get.status # 0
Observed == page.path \in Observing /\ ~demo

Init ==
  /\ acct \in [Users -> Accounts]
  /\ invite = "pending"
  /\ cookie \in {u \in Users : There(u)} \union {None}
  /\ me = NoMe /\ get = NoGet /\ demo = FALSE
  /\ page = Nowhere /\ nav \in {At(path) : path \in Paths} /\ live = NotLive
  /\ task = [s \in Slots |-> Idle]
  /\ left = MaxEvents
  /\ told = {}

-----------------------------------------------------------------------------
(* Guards: beforeLoad of the routes. *)

\* Where a guard that has an answer sends its page.
Verdict(path, data) ==
  CASE path # "password" /\ data.must -> "password"
    [] path = "password" /\ ~data.must -> IF data.ready THEN "app" ELSE "plans"
    [] path = "app" /\ ~data.must /\ ~data.ready -> "plans"
    [] OTHER -> path
RightPlace(path) == IF Snapshot = NoOne THEN "login" ELSE Verdict(path, Snapshot)
Login(path) == [At("login") EXCEPT !.back = IF path = "app" THEN "app" ELSE None]

\* A navigation that takes the data d.
Decides(d) ==
  LET to == Verdict(nav.path, d) IN
  /\ IF to = nav.path THEN page' = nav /\ nav' = Nowhere /\ live' = NotLive
     ELSE nav' = At(to) /\ UNCHANGED <<page, live>>
  /\ demo' = (demo /\ ~(nav.path = "app" /\ to = "app"))
\* A guard without an answer: every error but a redirect leads to the login page.
TurnsAway == nav' = Login(nav.path) /\ UNCHANGED <<page, live, demo>>

Free(loc) == loc.path \notin Guarded \/ (loc.path = "app" /\ demo)
Waits == nav # Nowhere /\ ~Free(nav) /\ me.data = NoOne

\* Pages without a guard, and the workspace in live demo.
Arrive ==
  /\ nav # Nowhere /\ Free(nav)
  /\ page' = nav /\ nav' = Nowhere /\ live' = NotLive
  /\ UNCHANGED <<server, me, get, demo, task, left>>

\* ensureQueryData takes what is cached, stale or not.
GuardCached ==
  /\ nav # Nowhere /\ ~Free(nav) /\ me.data # NoOne
  /\ Decides(me.data)
  /\ UNCHANGED <<server, me, get, task, left>>

GuardAsks ==
  /\ Waits /\ ~Fetching
  /\ get' = Asked
  /\ UNCHANGED <<server, me, demo, place, task, left>>

-----------------------------------------------------------------------------
(* The query. *)

\* A handler that says something else than what it has done.
Misreport(t, said, why) ==
  IF (said = "ok") = t.done THEN {} ELSE {[kind |-> t.kind, said |-> said, why |-> why]}
\* The handlers that ask for /me: those that began the fetch in flight and those that joined
\* it.  It fails with both, but not with invalidateQueries, which ignores errors.
Joining == {s \in Slots : task[s].step = "joined"}
Pending == {s \in Slots : task[s].step \in {"await", "joined"}}
Settled(t) == IF t.step = "refetch" THEN [t EXCEPT !.step = "settle"] ELSE t
FailTasks == [s \in Slots |-> IF s \in Pending THEN Idle ELSE Settled(task[s])]
FailReports(failed) == UNION {Misreport(task[s], "error", "me") : s \in failed}

\* An observing page fetches what is missing or invalidated, and anything once it is half a
\* minute old and the window is focused.
Observe ==
  /\ Observed /\ ~Fetching
  /\ get' = Asked
  /\ UNCHANGED <<server, me, demo, place, task, left>>
\* Nobody has observed the query for five minutes.
Collect ==
  /\ me.data # NoOne /\ ~Observed /\ ~Fetching
  /\ me' = NoMe
  /\ UNCHANGED <<server, get, demo, place, task, left>>

AnswerOk ==
  /\ get.status = 200
  /\ me' = [data |-> get.data, stale |-> FALSE, unseen |-> get.unseen]
  /\ get' = NoGet
  /\ task' = [s \in Slots |-> IF s \in Pending THEN [task[s] EXCEPT !.step = "go", !.ready = get.data.ready]
                             ELSE Settled(task[s])]
  /\ IF Waits THEN Decides(get.data) ELSE UNCHANGED <<place, demo>>
  /\ UNCHANGED <<server, left>>
\* 401 takes the query out of the cache (apiFetch); any other failure leaves its data.
AnswerFails ==
  /\ Fetching
  /\ \/ get.status # 200 /\ UNCHANGED left
     \/ left > 0 /\ left' = left - 1
  /\ me' = IF get.status = 401 THEN NoMe
            ELSE IF me.data = NoOne THEN me ELSE [me EXCEPT !.unseen = @ \union {"failed"}]
  /\ get' = NoGet
  /\ task' = FailTasks /\ told' = FailReports(Pending)
  /\ IF Waits THEN TurnsAway
     ELSE UNCHANGED <<place, demo>>
  /\ UNCHANGED server

\* What the API has changed since me and get were read.
Changed(change) ==
  /\ me' = IF me.data = NoOne THEN me ELSE [me EXCEPT !.unseen = @ \union {change}]
  /\ get' = IF Fetching THEN [get EXCEPT !.unseen = @ \union {change}] ELSE get
\* Slot s goes on as t, without a word.
Continues(s, t) == task' = [task EXCEPT ![s] = t] /\ told' = {}
Ends(s, t, said, why) == task' = [task EXCEPT ![s] = Idle] /\ told' = Misreport(t, said, why)

\* invalidateQueries awaits the fetch of an observed query: its fetch in flight is joined when
\* there are no data, and asked anew when there are; who began the old one then awaits the new
\* one, who joined it fails.
Invalidate(s, t, change) ==
  LET observed == page.path \in Observing /\ ~demo'
      anew == observed /\ (me.data # NoOne \/ ~Fetching)
      failed == IF anew THEN Joining ELSE {}
  IN  /\ me' = IF me.data = NoOne THEN me ELSE [me EXCEPT !.stale = TRUE, !.unseen = @ \union {change}]
      /\ get' = IF anew THEN Asked' ELSE IF Fetching THEN [get EXCEPT !.unseen = @ \union {change}] ELSE get
      /\ task' = [x \in Slots |-> IF x = s THEN [t EXCEPT !.step = IF observed THEN "refetch" ELSE "settle"]
                                  ELSE IF x \in failed THEN Idle ELSE task[x]]
      /\ told' = FailReports(failed)

\* Mutant: what is cached will do.
RefetchCached(s, change) ==
  Changed(change) /\ Continues(s, [task[s] EXCEPT !.step = "go", !.done = TRUE, !.ready = me.data.ready])
\* fetchQuery joins a fetch in flight, whenever that was asked.
Join(seen) == [get EXCEPT !.unseen = @ \union seen]
AskingStep == IF Fetching THEN "joined" ELSE "await"
\* fetchFreshMe, right after an answer.
Refetch(s, change) ==
  /\ me' = IF me.data = NoOne THEN me ELSE [me EXCEPT !.unseen = @ \union {change}]
  /\ get' = IF Fetching THEN Join({change, "joined"}) ELSE Asked'
  /\ Continues(s, [task[s] EXCEPT !.step = AskingStep, !.done = TRUE])

\* Mutant: the fetch is cancelled, the data stay.
RemoveFetch(s, said, t) ==
  /\ UNCHANGED me /\ get' = NoGet
  /\ task' = [FailTasks EXCEPT ![s] = Idle]
  /\ told' = FailReports(Pending) \union Misreport(t, said, "lost")
\* removeQueries: the data go, and so does the fetch in flight, with those who await it.
Remove(s, said, t) ==
  /\ me' = NoMe /\ get' = NoGet
  /\ task' = [FailTasks EXCEPT ![s] = Idle]
  /\ told' = FailReports(Pending) \union Misreport(t, said, "lost")

-----------------------------------------------------------------------------
(* The handlers.  A form is submitted on its page; what comes after an await *)
(* happens wherever the user has gone meanwhile.                             *)

Busy(kind) ==
  \E x \in Slots : /\ task[x].kind = kind
                   /\ kind \in {"login", "signup"} => task[x].step \in {"post", "signin", "refetch", "settle"}
Submits(s, kind, user) ==
  /\ task[s] = Idle /\ left > 0 /\ ~Busy(kind)
  /\ task' = [task EXCEPT ![s] = Task(kind, user, "post", page)]
  /\ left' = left - 1
  /\ UNCHANGED <<server, me, get>>

\* Signing out ends a live demo first.
Submit(s) ==
  \/ /\ \/ \E u \in Users : page.path = "login" /\ Submits(s, "login", u)
        \/ \E u \in Users : page.path = "signup" /\ (page.invite => u = Invited) /\ Submits(s, "signup", u)
        \/ page.path = "password" /\ Submits(s, "password", None)
        \/ page.path = "plans" /\ \E kind \in {"select", "continue"} : Submits(s, kind, None)
        \/ page.path = "app" /\ Submits(s, "delete", None)
        \/ page.path = "accept" /\ me.data.user \notin {None, Invited} /\ Submits(s, "exit", None)
     /\ UNCHANGED <<demo, place>>
  \/ page.path = "app" /\ Submits(s, "logout", None) /\ demo' = FALSE /\ UNCHANGED place

\* The invite page's effect runs when the page opens and whenever the user of "me" is another;
\* the run before it is cancelled: it goes on, without a word.
EffectRuns(s) ==
  /\ page.path \in {"accept", "decline"} /\ task[s] = Idle
  /\ live.slot = None \/ live.user # me.data.user
  /\ task' = [task EXCEPT ![s] = Task(page.path, me.data.user, IF page.path = "accept" THEN "lookup" ELSE "post", page)]
  /\ live' = [slot |-> s, user |-> me.data.user]
  /\ UNCHANGED <<server, me, get, demo, page, nav, left>>
Cancelled(s) == task[s].kind \in {"accept", "decline"} /\ live.slot # s

Does(s, step) == task[s].step = step
Step(s, step) == [task[s] EXCEPT !.step = step]
Done(s, step) == [task[s] EXCEPT !.step = step, !.done = TRUE]
Quietly(s, said) == IF Cancelled(s) THEN IF task[s].done THEN "ok" ELSE "error" ELSE said
Fault == left > 0 /\ left' = left - 1

\* A sign-up that ends before its fetch of /me.
Untold(s) == IF task[s].step \in {"signin", "join"} THEN Changed("lost") ELSE UNCHANGED <<me, get>>
\* A request that is not sent, does not arrive or is refused: the toast shows the error.
Unsent(s) ==
  /\ task[s].step \in {"post", "signin", "lookup", "join"} /\ task[s].kind \notin {"logout", "exit"}
  /\ IF demo /\ task[s].kind \notin {"login", "signup"} THEN UNCHANGED left ELSE Fault
  /\ Ends(s, task[s], Quietly(s, "error"), "lost")
  /\ Untold(s)
  /\ UNCHANGED <<server, demo, place>>
Refused(s) ==
  /\ Ends(s, task[s], Quietly(s, "error"), "refused")
  /\ Untold(s)
  /\ UNCHANGED <<server, demo, place, left>>
\* 401 and 403 through apiFetch.
Forbidden(s) ==
  /\ Remove(s, Quietly(s, "error"), task[s])
  /\ IF Fetching /\ Waits THEN TurnsAway ELSE UNCHANGED <<place, demo>>
  /\ UNCHANGED <<server, left>>
\* An answer that is lost after the API has done what was asked.
Lost(s, t) == Ends(s, [t EXCEPT !.done = TRUE], Quietly(s, "error"), "lost")

\* The answer to a sign-up brings a cookie, and signing in follows.
Create(s) ==
  /\ Does(s, "post") /\ task[s].kind = "signup"
  /\ LET u == task[s].user IN
     IF acct[u].row # "none" THEN Refused(s)
     ELSE /\ acct' = [acct EXCEPT ![u].row = "there"]
          /\ UNCHANGED <<invite, demo, place>>
          /\ \/ cookie' = u /\ Changed("signin") /\ Continues(s, Done(s, "signin")) /\ UNCHANGED left
             \/ UNCHANGED <<cookie, me, get>> /\ Lost(s, task[s]) /\ Fault

\* The cookie comes with the answer.
SignIn(s) ==
  /\ Does(s, IF task[s].kind = "signup" THEN "signin" ELSE "post") /\ task[s].kind \in {"login", "signup"}
  /\ IF There(task[s].user)
     THEN /\ cookie' = task[s].user /\ demo' = FALSE
          /\ UNCHANGED <<acct, invite>>
          /\ Invalidate(s, [task[s] EXCEPT !.done = TRUE], "signin")
          /\ UNCHANGED <<place, left>>
     ELSE Refused(s)

\* logoutRequest: whatever comes of it, the query goes and the page changes.
SignOut(s) ==
  /\ Does(s, "post") /\ task[s].kind \in {"logout", "exit"}
  /\ \/ cookie' = None /\ UNCHANGED left /\ Remove(s, "ok", [task[s] EXCEPT !.done = TRUE])
     \/ cookie' = cookie /\ Fault /\ Remove(s, "ok", task[s])
  /\ nav' = At(IF task[s].kind = "logout" THEN "login" ELSE "accept")
  /\ UNCHANGED <<acct, invite, demo, page, live>>

Delete(s) ==
  /\ Does(s, "post") /\ task[s].kind = "delete" /\ ~demo
  /\ IF cookie = None THEN Forbidden(s)
     ELSE /\ acct' = [acct EXCEPT ![cookie] = Deleted]
          /\ \/ /\ cookie' = None /\ UNCHANGED left
                /\ Remove(s, "ok", [task[s] EXCEPT !.done = TRUE])
                /\ nav' = At("home")
             \/ cookie' = cookie /\ Fault /\ Lost(s, task[s]) /\ Changed("lost") /\ UNCHANGED nav
          /\ UNCHANGED <<invite, demo, page, live>>

\* changePassword (of a row that must change it) and selectPlan.
StorePassword(s) ==
  /\ Does(s, "post") /\ task[s].kind = "password" /\ ~demo
  /\ IF cookie = None THEN Forbidden(s)
     ELSE IF ~There(cookie) THEN Refused(s)
     ELSE /\ acct' = [acct EXCEPT ![cookie].must = FALSE]
          /\ UNCHANGED <<invite, cookie, demo, place>>
          /\ \/ Invalidate(s, [task[s] EXCEPT !.done = TRUE], "password") /\ UNCHANGED left
             \/ Changed("lost") /\ Lost(s, task[s]) /\ Fault
SelectPlan(s) ==
  /\ Does(s, "post") /\ task[s].kind \in {"select", "continue"} /\ ~demo
  /\ IF cookie = None \/ (cookie # None /\ acct[cookie].team) THEN Forbidden(s)
     ELSE IF ~There(cookie) THEN Refused(s)
     ELSE /\ acct' = [acct EXCEPT ![cookie].plan = TRUE]
          /\ UNCHANGED <<invite, cookie, demo, place>>
          /\ \/ /\ IF task[s].kind = "continue" THEN Invalidate(s, [task[s] EXCEPT !.done = TRUE], "plan")
                   ELSE Refetch(s, "plan")
                /\ UNCHANGED left
             \/ Changed("lost") /\ Lost(s, task[s]) /\ Fault

\* An invite that is answered already, perhaps by an earlier run of the effect.
Spent(s, status) ==
  LET t == [task[s] EXCEPT !.done = @ \/ invite = status]
  IN  /\ Ends(s, t, IF Cancelled(s) /\ t.done THEN "ok" ELSE "error", IF task[s].done THEN "refused" ELSE "again")
      /\ Untold(s)
      /\ UNCHANGED <<server, demo, place, left>>

\* The invite page without an account to accept with, with another's, and with the right one.
Lookup(s) ==
  /\ Does(s, "lookup") /\ ~demo
  /\ IF invite # "pending" THEN Spent(s, "accepted")
     ELSE /\ IF Cancelled(s) \/ task[s].user \notin {None, Invited} THEN Continues(s, Idle) /\ UNCHANGED nav
             ELSE IF task[s].user = Invited THEN Continues(s, Step(s, "post")) /\ UNCHANGED nav
             ELSE /\ nav' = [path |-> IF There(Invited) THEN "login" ELSE "signup", back |-> "accept", invite |-> TRUE]
                  /\ Continues(s, Idle)
          /\ UNCHANGED <<server, me, get, demo, page, live, left>>

AcceptInvite(s) ==
  /\ \/ Does(s, "post") /\ task[s].kind = "accept"
     \/ Does(s, "join")
  /\ ~demo
  /\ IF cookie = None \/ (invite = "pending" /\ There(cookie) /\ cookie # Invited) THEN Forbidden(s)
     ELSE IF ~There(cookie) THEN Refused(s)
     ELSE IF invite # "pending" THEN Spent(s, "accepted")
     ELSE /\ acct' = [acct EXCEPT ![cookie].team = TRUE]
          /\ invite' = "accepted"
          /\ UNCHANGED <<cookie, demo, page, live>>
          /\ \/ /\ UNCHANGED left
                /\ IF Does(s, "join") THEN Refetch(s, "accept") /\ UNCHANGED nav
                   ELSE /\ Changed("accept")
                        /\ Ends(s, [task[s] EXCEPT !.done = TRUE], "ok", "lost")
                        /\ nav' = IF Cancelled(s) THEN nav ELSE At("app")
             \/ Changed("lost") /\ Lost(s, task[s]) /\ Fault /\ UNCHANGED nav

\* No account is needed.
DeclineInvite(s) ==
  /\ Does(s, "post") /\ task[s].kind = "decline" /\ ~demo
  /\ IF invite # "pending" THEN Spent(s, "declined")
     ELSE /\ invite' = "declined"
          /\ \/ /\ UNCHANGED left
                /\ Ends(s, [task[s] EXCEPT !.done = TRUE], "ok", "lost")
                /\ nav' = IF Cancelled(s) THEN nav ELSE At(IF task[s].user = None THEN "home" ELSE "app")
             \/ Lost(s, task[s]) /\ Fault /\ UNCHANGED nav
          /\ UNCHANGED <<acct, cookie, me, get, demo, page, live>>

\* fetchFreshMe asks or joins; prefetchMe takes what is cached first.
FetchFresh(s) ==
  /\ Does(s, "settle")
  /\ IF task[s].kind = "signup" /\ task[s].from.invite
     THEN Continues(s, Step(s, "join")) /\ UNCHANGED get
     ELSE IF task[s].kind = "password" /\ me.data # NoOne
     THEN Continues(s, [Step(s, "go") EXCEPT !.ready = me.data.ready]) /\ UNCHANGED get
     ELSE Continues(s, Step(s, AskingStep)) /\ get' = IF Fetching THEN Join({"joined"}) ELSE Asked
  /\ UNCHANGED <<server, me, demo, place, left>>

\* Mutant: a sign-in, too, must find the plan in /me.
GoOnboarded(s) ==
  /\ Does(s, "go")
  /\ IF ~task[s].ready THEN Ends(s, task[s], "error", "stale") /\ UNCHANGED nav
     ELSE Ends(s, task[s], "ok", "me") /\ nav' = At("app")
  /\ UNCHANGED <<server, me, get, demo, page, live, left>>
\* navigate, at last.
Target(t) ==
  CASE t.kind = "login" -> IF t.from.back = None THEN "app" ELSE t.from.back
    [] t.kind = "signup" -> IF t.from.invite THEN "app" ELSE "plans"
    [] t.kind = "password" -> IF t.ready THEN "app" ELSE "plans"
    [] OTHER -> "app"
Go(s) ==
  /\ Does(s, "go")
  /\ IF task[s].kind \in {"select", "continue"} /\ ~task[s].ready
     THEN Ends(s, task[s], "error", "stale") /\ UNCHANGED nav
     ELSE Ends(s, task[s], "ok", "me") /\ nav' = At(Target(task[s]))
  /\ UNCHANGED <<server, me, get, demo, page, live, left>>

-----------------------------------------------------------------------------
(* The user and the world. *)

\* A link; during a navigation it takes its place.
Click(path) ==
  /\ IF nav = Nowhere THEN UNCHANGED left ELSE left > 0 /\ left' = left - 1
  /\ page # Nowhere
  /\ nav' = At(path)
  /\ UNCHANGED <<server, me, get, demo, page, live, task>>
\* A page that is opened anew begins without cache and handlers; the live demo stays.
Open(path) ==
  /\ nav = Nowhere /\ left > 0
  /\ me' = NoMe /\ get' = NoGet /\ task' = [s \in Slots |-> Idle]
  /\ page' = Nowhere /\ nav' = At(path) /\ live' = NotLive
  /\ left' = left - 1
  /\ UNCHANGED <<server, demo>>
\* Sign-in with a provider comes back to /dashboard with a cookie.
OAuth(u) ==
  /\ page.path \in {"login", "signup"} /\ left > 0
  /\ There(u) /\ cookie' = u
  /\ me' = NoMe /\ get' = NoGet /\ task' = [s \in Slots |-> Idle]
  /\ page' = Nowhere /\ nav' = At("app") /\ live' = NotLive
  /\ left' = left - 1
  /\ UNCHANGED <<acct, invite, demo>>
ViewDemo ==
  /\ page.path = "home" /\ nav = Nowhere
  /\ demo' = TRUE /\ nav' = At("app")
  /\ UNCHANGED <<server, me, get, page, live, task, left>>
\* While the demo is on isAuthenticated is false.
ExitDemo ==
  /\ page.path = "app" /\ demo
  /\ demo' = FALSE /\ nav' = At("home")
  /\ UNCHANGED <<server, me, get, page, live, task, left>>
\* A request of the workspace is answered 403: no team, or the quota.
WorkspaceForbidden ==
  /\ page.path = "app" /\ ~demo /\ me.data # NoOne /\ left > 0
  /\ left' = left - 1
  /\ me' = NoMe /\ get' = NoGet
  /\ task' = FailTasks /\ told' = FailReports(Pending)
  /\ UNCHANGED <<server, demo, place>>

\* Another tab, device or user of the same accounts.
Elsewhere ==
  /\ left > 0 /\ left' = left - 1
  /\ \/ \E u \in Users \union {None} : (u # None => There(u)) /\ cookie' = u /\ UNCHANGED <<acct, invite>>
     \/ \E u \in {x \in Users : There(x)} :
          /\ \E a \in {Deleted, [acct[u] EXCEPT !.plan = TRUE]} : acct' = [acct EXCEPT ![u] = a]
          /\ UNCHANGED <<cookie, invite>>
     \/ invite = "pending" /\ invite' = "revoked" /\ UNCHANGED <<acct, cookie>>
  /\ Changed("elsewhere")
  /\ UNCHANGED <<demo, place, task>>

Handler(s) ==
  \/ Unsent(s) \/ Create(s) \/ SignIn(s) \/ SignOut(s) \/ Delete(s) \/ StorePassword(s) \/ SelectPlan(s)
  \/ Lookup(s) \/ AcceptInvite(s) \/ DeclineInvite(s) \/ FetchFresh(s) \/ Go(s)
Silent ==
  \/ Arrive \/ GuardCached \/ GuardAsks \/ AnswerOk \/ Observe \/ Collect
  \/ \E s \in Slots : Submit(s) \/ EffectRuns(s)
  \/ \E path \in {"login", "plans", "app"} : Click(path)
  \/ \E path \in Paths \ {"home"} : Open(path)
  \/ \E u \in Users : OAuth(u)
  \/ ViewDemo \/ ExitDemo \/ Elsewhere
Next ==
  \/ Silent /\ told' = {}
  \/ AnswerFails \/ WorkspaceForbidden \/ \E s \in Slots : Handler(s)

Spec == Init /\ [][Next]_vars

-----------------------------------------------------------------------------
TypeOK ==
  /\ acct \in [Users -> {NoAccount, Deleted} \union Accounts]
  /\ invite \in {"pending", "accepted", "declined", "revoked"}
  /\ cookie \in Users \union {None}
  /\ me.unseen \subseteq Changes /\ get.unseen \subseteq Changes
  /\ get.status \in {0, 200, 401, 404, 500}
  /\ me.data = NoOne => me = NoMe
  /\ page.path \in Paths \union {None} /\ nav.path \in Paths \union {None}
  /\ live.slot \in Slots \union {None}
  /\ left \in 0 .. MaxEvents

\* A guard decides by a cached /me of any age.  It leads to a page that the account does not
\* call for only while a fetch is under way, after a fetch that a handler joined instead of asking
\* anew, after a change that refreshes nothing (a password stored from a page that does not
\* observe /me, an invite accepted), or after a lost answer, a failed fetch or a change made
\* elsewhere.  Its own fetch errs when the answer is overtaken, in live demo, and by failing:
\* without an answer a guard takes everybody to the login page.
Underway == Fetching \/ \E s \in Slots : task[s].step \in {"signin", "settle", "join"}
Right == (IF nav' = Nowhere THEN page'.path ELSE nav'.path) = RightPlace(nav.path)
RedirectsExplained ==
  [][/\ GuardCached => \/ Right \/ Underway
                       \/ me.unseen \intersect {"password", "accept", "joined", "lost", "failed", "elsewhere"} # {}
     /\ Waits /\ (AnswerOk \/ AnswerFails) => \/ Right \/ get.unseen # {}
                                              \/ get.status = 500 \/ left' # left]_vars

\* The user the workspace shows is the one its requests act as; another is shown only until the
\* fetch that is due, while a sign-in goes on, after a sign-in that joined a fetch of /me sent
\* with the cookie before it, or after a lost answer, a failed fetch or a change of cookie in
\* another tab.
IdentityExplained ==
  page.path = "app" /\ ~demo /\ me.data.user \notin {None, cookie} =>
    \/ me.stale \/ Fetching \/ me.unseen \intersect {"lost", "failed", "elsewhere"} # {}
    \/ {"joined", "signin"} \subseteq me.unseen
    \/ \E s \in Slots : task[s].kind \in {"login", "signup"} /\ task[s].done

\* A form that reports success has been served, but for signing out, which always reports it.
\* One that reports an error has changed nothing, unless its answer was lost; or the fetch of
\* /me it waits for failed, was cancelled by another handler or had been sent too early; or a
\* sign-up could not accept its invite; or the invite was answered by an earlier run of the effect.
ReportsExplained ==
  \A r \in told :
    \/ r.why = "lost" /\ (r.said = "error" \/ r.kind \in {"logout", "exit"})
    \/ r.why = "me" /\ r.kind \in {"login", "signup", "password", "select", "continue"} /\ r.said = "error"
    \/ r.why = "stale" /\ r.kind \in {"select", "continue"} /\ r.said = "error"
    \/ <<r.kind, r.why>> \in {<<"signup", "refused">>, <<"decline", "again">>, <<"accept", "again">>}
=============================================================================
