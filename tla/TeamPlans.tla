------------------------------- MODULE TeamPlans -------------------------------
(***************************************************************************)
(* The requests that change plans, teams and accounts in a transaction:    *)
(* selectPlan, acceptTeamInvite and transferTeamOwnership                  *)
(* (access.controller.js) and deleteMe (auth.controller.js).  Each sends   *)
(* BEGIN, its statements and COMMIT with pool.query, which lends a         *)
(* connection for one statement only: whichever was returned last, or a    *)
(* new one.  A transaction belongs to a connection, not to the request, so *)
(* requests in flight together may share or split transactions.            *)
(*                                                                         *)
(* Postgres appears as committed rows, the uncommitted writes of each      *)
(* connection, row locks and the detection of deadlocks (READ COMMITTED).  *)
(* A statement that had to wait sees the rows committed meanwhile.         *)
(***************************************************************************)
EXTENDS Naturals, FiniteSets, Sequences, SequencesExt

CONSTANTS
  Users,
  MaxTeams,  \* ids of teams are drawn in order, a bound
  Requests,
  Conns,     \* connections of the pool (max)
  Scenarios  \* what the requests ask for together, from which rows

\* Of a request: who asks for what, about which plan, colleague and team.  (The rows from
\* which requests start are the subject of RowsAssumption.)
ASSUME TeamPlansAssumption ==
  /\ MaxTeams \in Nat \ {0}
  /\ "none" \notin Requests \union Users
  /\ Users \intersect (1..MaxTeams) = {}
  /\ \A w \in Scenarios, r \in Requests :
       /\ w.work[r].kind \in {"select", "accept", "transfer", "delete", "scan"}
       /\ w.work[r].user \in Users /\ w.work[r].to \in Users /\ w.work[r].team \in 1..MaxTeams
       /\ w.work[r].plan \in {"free", "individual_monthly", "individual_yearly", "team"}

VARIABLES
  db,     \* committed rows
  conn,   \* connections: transaction, its writes and the parent rows it holds
  idle,   \* connections nobody uses, the one returned last at the end
  req,    \* requests: statements to come, what was read, the answer
  born,   \* how many team ids have been drawn
  mixed,  \* history: requests whose statements and transaction did not stay together
  lost    \* history: requests one of whose writes was rolled back

plansVars == <<db, conn, idle, req, born, mixed, lost>>

-----------------------------------------------------------------------------
None == "none"
Teams == 1..MaxTeams
Plans == {"free", "individual_monthly", "individual_yearly", "team"}
Roles == {"admin", "member"}

\* Rows by table and key, and what the models tell apart of them; None: no such row.
PlanOf(u) == <<"users", u>>
TeamRow(t) == <<"teams", t>>
Member(t, u) == <<"team_members", t, u>>
Invite(t, u) == <<"team_member_invites", t, u>>
Sub(x) == <<"subscriptions", x>>
Scan(u) == <<"scans", u>>

Keys == {PlanOf(u) : u \in Users} \union {TeamRow(t) : t \in Teams}
  \union {Member(t, u) : t \in Teams, u \in Users} \union {Invite(t, u) : t \in Teams, u \in Users}
  \union {Sub(x) : x \in Users \union Teams} \union {Scan(u) : u \in Users}
Values == {None, "pending", "accepted", "active", "owned", "orphan"} \union Plans \union Roles \union Users

\* Row k refers to row x by a foreign key (those the models rely on).
Refers(k, x) ==
  \/ \E t \in Teams : x = TeamRow(t) /\ k \in {Sub(t)} \union {Member(t, u) : u \in Users}
  \/ \E u \in Users : x = PlanOf(u) /\ k = Sub(u)

\* The rows there at first: what their columns may hold, foreign keys, and a subscription
\* for each team (selectPlan inserts both).
ASSUME RowsAssumption ==
  \A w \in Scenarios :
    /\ w.rows \in [Keys -> Values]
    /\ \A u \in Users : w.rows[PlanOf(u)] \in Plans \union {None}
    /\ \A t \in Teams : w.rows[TeamRow(t)] \in Users \union {None}
    /\ \A t \in Teams, u \in Users : w.rows[Member(t, u)] \in Roles \union {None}
    /\ \A x \in Users \union Teams : w.rows[Sub(x)] \in {None, "active"}
    /\ \A k, x \in Keys : Refers(k, x) /\ w.rows[k] # None => w.rows[x] # None
    /\ \A t \in Teams : w.rows[TeamRow(t)] # None => w.rows[Sub(t)] # None

Empty == [k \in {} |-> None]
Closed == [tx |-> "none", pending |-> Empty, refs |-> {}, holder |-> None, by |-> {}]

\* What statements on connection c see: their own transaction over the committed rows.
View(c) == [k \in Keys |-> IF k \in DOMAIN conn[c].pending THEN conn[c].pending[k] ELSE db[k]]

Owned(u, v) == {t \in Teams : v[TeamRow(t)] = u}
Joined(u, v) == {t \in Teams : v[Member(t, u)] # None}
HasUser(u, v) == v[PlanOf(u)] # None

Cleared == <<"readPlan", "BEGIN", "listTeams", "deleteTeam", "deleteMemberships", "updatePlan">>
NewPlan(w) == CASE w.plan = "free" -> <<>>
                [] w.plan = "team" -> <<"insertTeam", "insertTeamSub">>
                [] OTHER -> <<"insertUserSub">>

\* Mutant: the branch of the free plan answers without COMMIT.
SelectUncommitted(w) == Cleared \o NewPlan(w) \o (IF w.plan = "free" THEN <<>> ELSE <<"COMMIT">>)

\* Mutant: the teams a user owns survive a change of plan.
SelectKeepsTeams(w) ==
  <<"readPlan", "BEGIN", "deleteMemberships", "updatePlan">> \o NewPlan(w) \o <<"COMMIT">>

\* The statements of a request, in the order in which the handler awaits them.
SelectProgram(w) == Cleared \o NewPlan(w) \o <<"COMMIT">>
Program(w) ==
  CASE w.kind = "select" -> SelectProgram(w)
    [] w.kind = "accept" ->
         <<"findInvite", "BEGIN", "upsertMember", "acceptInvite", "COMMIT", "readBack">>
    [] w.kind = "transfer" ->
         <<"readPlan", "findTarget", "BEGIN", "setOwner", "formerOwnerAdmin", "targetMember", "COMMIT">>
    [] w.kind = "delete" ->
         <<"BEGIN", "findUser", "deleteScans", "deleteSubs", "deleteMemberships", "deleteUser", "COMMIT">>
    [] w.kind = "scan" -> <<"insertScan">>

PlansInit ==
  /\ \E w \in Scenarios :
       /\ db = w.rows
       /\ req = [r \in Requests |->
                   [work |-> w.work[r], todo |-> Program(w.work[r]), on |-> None,
                    teams |-> {}, team |-> w.work[r].team, verdict |-> "ok"]]
  /\ conn = [c \in Conns |-> Closed]
  /\ idle = <<>>
  /\ born = Max({0} \union {t \in Teams : db[TeamRow(t)] # None})
  /\ mixed = {} /\ lost = {}

-----------------------------------------------------------------------------
Busy == {req[r].on : r \in Requests} \ {None}
InPool == Busy \union Range(idle)

\* pool.query takes the idle connection that was returned last, or opens one; a
\* request waits when all are at work.
Acquire(r) ==
  /\ req[r].todo # <<>> /\ req[r].on = None
  /\ IF idle # <<>>
     THEN /\ req' = [req EXCEPT ![r].on = Last(idle)]
          /\ idle' = Front(idle)
     ELSE /\ Conns \ InPool # {}
          /\ req' = [req EXCEPT ![r].on = CHOOSE c \in Conns \ InPool : TRUE]
          /\ UNCHANGED idle
  /\ UNCHANGED <<db, conn, born, mixed, lost>>

Sent(r, s) == req[r].on # None /\ req[r].todo # <<>> /\ Head(req[r].todo) = s
\* After BEGIN, in the inner try block.
InTry(r) == req[r].work.kind # "scan" /\ "BEGIN" \notin Range(req[r].todo)
\* What follows COMMIT (readBack) is in the try block, but no longer in the transaction.
InTransaction(r) == InTry(r) /\ Range(req[r].todo) \intersect {"COMMIT", "ROLLBACK"} # {}
Replied(r) == req[r].todo = <<>>

\* Rows that go with team t, and with user u (ON DELETE CASCADE; scans stay, ownerless).
TeamCascade(t, v) ==
  {k \in {TeamRow(t), Sub(t)} \union {Member(t, u) : u \in Users} \union {Invite(t, u) : u \in Users} : v[k] # None}
UserCascade(u, v) ==
  {k \in {PlanOf(u), Sub(u)} \union {Member(t, u) : t \in Teams} : v[k] # None}
    \union UNION {TeamCascade(t, v) : t \in Owned(u, v)}

Set(keys, value) == [k \in keys |-> value]
\* UPDATE or DELETE of rows that may be there.
Change(keys, value, v) == Set({k \in keys : v[k] # None}, value)
Join(f, g) == [k \in DOMAIN f \union DOMAIN g |-> IF k \in DOMAIN f THEN f[k] ELSE g[k]]

FirstOf(teams) == CHOOSE t \in teams : \A o \in teams : t <= o

\* The rows statement s of request q writes, given the rows v it sees.
Writes(q, s, v) ==
  LET u == q.work.user IN
  CASE s = "deleteTeam"        -> Set(TeamCascade(FirstOf(q.teams), v), None)
    [] s = "deleteMemberships" -> Change({Member(t, u) : t \in Teams}, None, v)
    [] s = "updatePlan"        -> Change({PlanOf(u)}, q.work.plan, v)
    [] s = "insertTeam"        -> Set({TeamRow(born + 1)}, u)
    [] s = "insertTeamSub"     -> Set({Sub(q.team)}, "active")
    [] s = "insertUserSub"     -> Set({Sub(u)}, "active")
    [] s = "upsertMember"      -> Set({Member(q.team, u)}, "member")
    [] s = "acceptInvite"      -> Change({Invite(q.team, u)}, "accepted", v)
    [] s = "setOwner"          -> Change({TeamRow(q.team)}, q.work.to, v)
    [] s = "formerOwnerAdmin"  -> Set({Member(q.team, u)}, "admin")
    [] s = "targetMember"      -> Change({Member(q.team, q.work.to)}, "member", v)
    [] s = "deleteScans"       -> Change({Scan(u)}, None, v)
    [] s = "deleteSubs"        -> Change({Sub(u)}, None, v)
    [] s = "deleteUser"        -> Join(Change({Scan(u)}, "orphan", v), Set(UserCascade(u, v), None))
    [] s = "insertScan"        -> Set({Scan(u)}, "owned")
    [] OTHER                   -> Empty

\* The parent rows whose presence the foreign keys of statement s demand.
Parents(q, s, v) ==
  CASE s \in {"insertTeam", "insertUserSub", "insertScan"} -> {PlanOf(q.work.user)}
    [] s = "insertTeamSub" -> {TeamRow(q.team)}
    [] s \in {"upsertMember", "formerOwnerAdmin"} -> {TeamRow(q.team), PlanOf(q.work.user)}
    [] s = "setOwner" -> IF v[TeamRow(q.team)] # None THEN {PlanOf(q.work.to)} ELSE {}
    [] OTHER -> {}

\* Connection c's statement has to wait for the transaction of d: for a row d has
\* written, a parent row d has deleted, or to delete a parent row d relies on.
Waits(c, d) ==
  \E r \in Requests :
    /\ req[r].on = c /\ c # d /\ req[r].todo # <<>> /\ conn[c].tx # "aborted"
    /\ LET s == Head(req[r].todo)
           written == Writes(req[r], s, View(c)) IN
       \/ DOMAIN written \intersect DOMAIN conn[d].pending # {}
       \/ \E k \in Parents(req[r], s, View(c)) :
            k \in DOMAIN conn[d].pending /\ conn[d].pending[k] = None
       \/ \E k \in DOMAIN written : written[k] = None /\ k \in conn[d].refs

Blocked(c) == \E d \in Conns : Waits(c, d)

\* History: request r executes on c while the transaction there is another's, or while
\* its own transaction is elsewhere.
Mixing(r) ==
  LET c == req[r].on IN
  IF conn[c].holder = r \/ (conn[c].tx = "none" /\ ~InTransaction(r)) THEN {}
  ELSE {r} \union ({conn[c].holder} \ {None})

Release(c) == idle' = Append(idle, c)

-----------------------------------------------------------------------------
\* The transaction x after one more statement, of request r.
Extended(x, r, written, parents) ==
  [x EXCEPT !.pending = Join(written, @), !.refs = @ \union parents,
            !.by = IF written = Empty THEN @ ELSE @ \union {r}]

\* A statement goes through: in the connection's transaction if one is open there,
\* or by itself.
Succeed(r, q) ==
  LET c == req[r].on
      s == Head(req[r].todo)
      written == Writes(req[r], s, View(c)) IN
  /\ conn[c].tx # "aborted" /\ ~Blocked(c)
  /\ \A k \in Parents(req[r], s, View(c)) : View(c)[k] # None
  /\ IF conn[c].tx = "open"
     THEN /\ conn' = [conn EXCEPT ![c] = Extended(@, r, written, Parents(req[r], s, View(c)))]
          /\ UNCHANGED db
     ELSE db' = [k \in Keys |-> IF k \in DOMAIN written THEN written[k] ELSE db[k]] /\ UNCHANGED conn
  /\ req' = [req EXCEPT ![r] = [q EXCEPT !.on = None]]
  /\ mixed' = mixed \union Mixing(r)
  /\ Release(c)
  /\ UNCHANGED lost

\* The handler's next statement; refusals answer without any.
Goes(r) == [req[r] EXCEPT !.todo = Tail(@)]
Refuses(r) == [req[r] EXCEPT !.todo = <<>>, !.verdict = "refused"]

Writing == {"deleteMemberships", "updatePlan", "insertTeamSub", "insertUserSub", "upsertMember",
            "acceptInvite", "setOwner", "formerOwnerAdmin", "targetMember", "deleteScans",
            "deleteSubs", "deleteUser", "insertScan"}
Write(r) ==
  /\ \E s \in Writing : Sent(r, s)
  /\ Succeed(r, Goes(r))
  /\ UNCHANGED born

\* getEffectivePlan: selectPlan is refused to members of somebody's team, the transfer
\* to everybody but an owner.
ReadPlan(r) ==
  /\ Sent(r, "readPlan")
  /\ LET u == req[r].work.user
         v == View(req[r].on) IN
     /\ HasUser(u, v)
     /\ IF req[r].work.kind = "select"
        THEN Succeed(r, IF Owned(u, v) = {} /\ Joined(u, v) # {} THEN Refuses(r) ELSE Goes(r))
        ELSE \/ Owned(u, v) = {} /\ Succeed(r, Refuses(r))
             \/ \E t \in Owned(u, v) : Succeed(r, [Goes(r) EXCEPT !.team = t])
  /\ UNCHANGED born

ListTeams(r) ==
  /\ Sent(r, "listTeams")
  /\ LET owned == Owned(req[r].work.user, View(req[r].on)) IN
     Succeed(r, IF owned = {} THEN [req[r] EXCEPT !.todo = Tail(Tail(@))]
                ELSE [Goes(r) EXCEPT !.teams = owned])
  /\ UNCHANGED born

\* The loop's DELETEs, one after the other, by the ids listed before.
DeleteTeam(r) ==
  /\ Sent(r, "deleteTeam")
  /\ LET left == req[r].teams \ {FirstOf(req[r].teams)} IN
     Succeed(r, [IF left = {} THEN Goes(r) ELSE req[r] EXCEPT !.teams = left])
  /\ UNCHANGED born

FindInvite(r) ==
  /\ Sent(r, "findInvite")
  /\ Succeed(r, IF View(req[r].on)[Invite(req[r].team, req[r].work.user)] = "pending"
                THEN Goes(r) ELSE Refuses(r))
  /\ UNCHANGED born

FindTarget(r) ==
  /\ Sent(r, "findTarget")
  /\ Succeed(r, IF View(req[r].on)[Member(req[r].team, req[r].work.to)] # None
                THEN Goes(r) ELSE Refuses(r))
  /\ UNCHANGED born

FindUser(r) ==
  /\ Sent(r, "findUser")
  /\ Succeed(r, IF HasUser(req[r].work.user, View(req[r].on)) THEN Goes(r)
                ELSE [req[r] EXCEPT !.todo = <<"ROLLBACK">>, !.verdict = "refused"])
  /\ UNCHANGED born

ReadBack(r) ==
  /\ Sent(r, "readBack")
  /\ HasUser(req[r].work.user, View(req[r].on))
  /\ Succeed(r, Goes(r))
  /\ UNCHANGED born

InsertTeam(r) ==
  /\ Sent(r, "insertTeam") /\ born < MaxTeams
  /\ Succeed(r, [Goes(r) EXCEPT !.team = born + 1])
  /\ born' = born + 1

\* BEGIN in an open transaction, and COMMIT or ROLLBACK without one, only warn.
Begin(r) ==
  /\ Sent(r, "BEGIN")
  /\ LET c == req[r].on IN
     /\ conn[c].tx # "aborted"
     /\ conn' = IF conn[c].tx = "open" THEN conn
                ELSE [conn EXCEPT ![c].tx = "open", ![c].holder = r]
     /\ mixed' = mixed \union (IF conn[c].tx = "open" THEN {r, conn[c].holder} ELSE {})
     /\ req' = [req EXCEPT ![r] = [Goes(r) EXCEPT !.on = None]]
     /\ Release(c)
  /\ UNCHANGED <<db, born, lost>>

\* COMMIT of a failed transaction rolls it back and still succeeds.
Commit(r) ==
  /\ Sent(r, "COMMIT")
  /\ LET c == req[r].on
         p == conn[c].pending IN
     /\ db' = [k \in Keys |-> IF conn[c].tx = "open" /\ k \in DOMAIN p THEN p[k] ELSE db[k]]
     /\ mixed' = mixed \union Mixing(r)
     /\ conn' = [conn EXCEPT ![c] = Closed]
     /\ req' = [req EXCEPT ![r] = [Goes(r) EXCEPT !.on = None]]
     /\ Release(c)
  /\ UNCHANGED <<born, lost>>

Rollback(r) ==
  /\ Sent(r, "ROLLBACK")
  /\ LET c == req[r].on IN
     /\ lost' = lost \union conn[c].by
     /\ mixed' = mixed \union Mixing(r)
     /\ conn' = [conn EXCEPT ![c] = Closed]
     /\ req' = [req EXCEPT ![r] = [Goes(r) EXCEPT !.on = None]]
     /\ Release(c)
  /\ UNCHANGED <<db, born>>

\* Every d in some cycle of waiting connections.
Deadlocked(c) ==
  \E D \in SUBSET Conns :
    /\ c \in D
    /\ \A d \in D : (\E e \in D : Waits(d, e)) /\ (\E e \in D : Waits(e, d))

\* A statement is rejected: the transaction failed before, a parent row is missing, the
\* user is gone (getEffectivePlan throws), or Postgres breaks a deadlock.  An open
\* transaction is lost; the handler sends ROLLBACK from its catch block, or just answers.
Reject(r) ==
  LET c == req[r].on
      s == Head(req[r].todo)
      v == View(c)
      missing == \/ \E k \in Parents(req[r], s, v) : v[k] = None
                 \/ s \in {"readPlan", "readBack"} /\ ~HasUser(req[r].work.user, v)
      failed == [req[r] EXCEPT !.on = None, !.verdict = "error",
                               !.todo = IF InTry(r) THEN <<"ROLLBACK">> ELSE <<>>] IN
  /\ c # None /\ req[r].todo # <<>> /\ s # "ROLLBACK" /\ s # "COMMIT"
  /\ \/ conn[c].tx = "aborted"
     \/ missing /\ ~Blocked(c)
     \/ Deadlocked(c)
  /\ IF conn[c].tx = "open" /\ ~(s \in {"readPlan", "readBack"} /\ ~Deadlocked(c))
     THEN /\ lost' = lost \union conn[c].by
          /\ conn' = [conn EXCEPT ![c] = [Closed EXCEPT !.tx = "aborted", !.holder = conn[c].holder]]
     ELSE UNCHANGED <<conn, lost>>
  /\ req' = [req EXCEPT ![r] = failed]
  /\ mixed' = mixed \union Mixing(r)
  /\ Release(c)
  /\ UNCHANGED <<db, born>>

\* Ten seconds pass only while each request is answered, to come, or waiting for a lock.
Rests(r) == \/ Replied(r)
            \/ req[r].on = None /\ req[r].todo = Program(req[r].work)
            \/ req[r].on # None /\ Blocked(req[r].on)
\* Mutant: a connection with an open transaction is never ended.
EndIdleClean(c) ==
  /\ idle # <<>> /\ c = Head(idle) /\ conn[c].tx = "none"
  /\ \A r \in Requests : Rests(r)
  /\ idle' = Tail(idle)
  /\ UNCHANGED <<db, conn, req, born, mixed, lost>>

\* The pool ends the connection that is idle for longest, after idleTimeoutMillis (10 s),
\* and the transaction on it.
IdleTimeout(c) ==
  /\ idle # <<>> /\ c = Head(idle)
  /\ \A r \in Requests : Rests(r)
  /\ idle' = Tail(idle)
  /\ conn' = [conn EXCEPT ![c] = Closed]
  /\ lost' = lost \union conn[c].by
  /\ UNCHANGED <<db, req, born, mixed>>

Execute(r) ==
  \/ Write(r) \/ ReadPlan(r) \/ ListTeams(r) \/ DeleteTeam(r) \/ FindInvite(r) \/ FindTarget(r)
  \/ FindUser(r) \/ ReadBack(r) \/ InsertTeam(r) \/ Begin(r) \/ Commit(r) \/ Rollback(r) \/ Reject(r)

PlansNext ==
  \/ \E r \in Requests : Acquire(r) \/ Execute(r)
  \/ \E c \in Conns : IdleTimeout(c)

\* A request goes on, a statement that need not wait ends, the pool's timer runs.
PlansFairness ==
  /\ \A r \in Requests : SF_plansVars(Acquire(r)) /\ WF_plansVars(Execute(r))
  /\ \A c \in Conns : WF_plansVars(IdleTimeout(c))

PlansSpec == PlansInit /\ [][PlansNext]_plansVars
FairPlansSpec == PlansSpec /\ PlansFairness

-----------------------------------------------------------------------------
\* Types of the rows, the connections and the requests.
PlansTypeOK ==
  /\ db \in [Keys -> Values]
  /\ \A c \in Conns :
       /\ conn[c].tx \in {"none", "open", "aborted"}
       /\ DOMAIN conn[c].pending \subseteq Keys /\ conn[c].refs \subseteq Keys
       /\ conn[c].tx # "open" => conn[c].pending = Empty /\ conn[c].by = {}
  /\ Range(idle) \subseteq Conns /\ Range(idle) \intersect Busy = {}
  /\ born \in 0..MaxTeams
  /\ \A r \in Requests : req[r].verdict \in {"ok", "refused", "error"}

\* An answer "ok" whose writes were rolled back has one cause only: connections were
\* mixed up.  A request that kept its connection to itself never loses what it
\* acknowledged (the shape BEGIN .. COMMIT, ROLLBACK in catch, of all four handlers).
LossExplained ==
  \A r \in lost : Replied(r) /\ req[r].verdict = "ok" => r \in mixed

\* After a change to a plan without team ("prevents stale team-based unlimited access
\* after switching away from Team", access.controller.js:146) the user owns or belongs
\* to a team only through another request that gave it to them meanwhile, or because
\* connections were mixed up.
Switched(r) ==
  /\ req[r].work.kind = "select" /\ req[r].work.plan # "team"
  /\ Replied(r) /\ req[r].verdict = "ok"
GivenMeanwhile(r) ==
  \E q \in Requests \ {r} :
    \/ req[q].work.user = req[r].work.user /\ req[q].work.kind \in {"accept", "transfer"}
    \/ req[q].work.user = req[r].work.user /\ req[q].work.kind = "select" /\ req[q].work.plan = "team"
    \/ req[q].work.to = req[r].work.user /\ req[q].work.kind = "transfer"
StaleTeamExplained ==
  [][\A r \in Requests : ~Switched(r) /\ Switched(r)' =>
       LET u == req[r].work.user IN
       \/ Owned(u, db') = {} /\ Joined(u, db') = {}
       \/ r \in mixed' \/ GivenMeanwhile(r)]_plansVars

\* Every request is answered: a transaction left open on a connection of the pool, lock
\* waits and deadlocks keep nobody waiting for ever.
RequestsEnd == \A r \in Requests : <>Replied(r)

=============================================================================
