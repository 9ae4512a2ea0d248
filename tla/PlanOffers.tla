------------------------------ MODULE PlanOffers ------------------------------
(***************************************************************************)
(* What the API lets a user do with the rows of TeamPlans                  *)
(* (access-control.service.js, selectPlan's checks, the team listings of   *)
(* access.controller.js and the profile of GET /me), and what the pages    *)
(* offer and say from that profile (planAccess.ts, plans.tsx, the billing  *)
(* and team cards of _app.settings.tsx, the menu of AppLayout.tsx).        *)
(*                                                                         *)
(* A case k fixes what the rows do not hold: which subscriptions are past  *)
(* expires_at, who has plan_selected, how many scans count, whether paid   *)
(* plans are enabled in the API and in the build of the web application.   *)
(***************************************************************************)
EXTENDS TeamPlans

CONSTANT ScanCounts  \* numbers of scans that count against the plan

Unlimited == 1000000   \* stands for null: above every count

ASSUME ScanCountsAssumption == ScanCounts \subseteq 0..Unlimited - 1

Codes == {"free", "individual_monthly", "individual_yearly", "team"}
Paid == Codes \ {"free"}

Cases(u, v) ==
  [late : SUBSET {x \in {u} \union Owned(u, v) \union Joined(u, v) : v[Sub(x)] # None},
   selected : {TRUE, v[PlanOf(u)] # "free"}, used : ScanCounts, api : BOOLEAN, web : BOOLEAN]

\* getTeamContext: an owned team before a joined one, LIMIT 1 in no order.
Contexts(u, v) ==
  IF Owned(u, v) # {} THEN {[team |-> t, role |-> "owner"] : t \in Owned(u, v)}
  ELSE IF Joined(u, v) # {} THEN {[team |-> t, role |-> v[Member(t, u)]] : t \in Joined(u, v)}
  ELSE {[team |-> 0, role |-> None]}

isSubscriptionActive(x, v, k) == v[Sub(x)] = "active" /\ x \notin k.late

scanLimitForPlanCode(p) ==
  CASE p = "team" -> Unlimited [] p = "individual_monthly" -> 50 [] p = "individual_yearly" -> 600 [] OTHER -> 2

hadPaidPlanBefore(u, c, v) == v[Sub(u)] # None \/ (c.team # 0 /\ v[Sub(c.team)] # None)

getEffectivePlan(u, c, v, k) ==
  LET code == IF c.team # 0 THEN "team" ELSE v[PlanOf(u)]
      live == isSubscriptionActive(IF c.team # 0 THEN c.team ELSE u, v, k) IN
  [role |-> c.role, team |-> c.team, planCode |-> code, scanLimit |-> scanLimitForPlanCode(code),
   hasPaidHistory |-> hadPaidPlanBefore(u, c, v),
   accessState |-> IF code = "free" THEN "free"
                   ELSE IF c.team # 0 THEN IF live THEN "team_active" ELSE "team_expired"
                   ELSE IF live THEN "paid_active" ELSE "paid_expired"]

canStartScan(e, used) ==
  IF e.accessState \in {"team_expired", "paid_expired"} THEN "plan_expired"
  ELSE CASE e.planCode = "free" -> IF used >= 2 THEN "free_limit_reached" ELSE "ok"
         [] e.planCode = "team" -> IF e.accessState # "team_active" THEN "plan_expired" ELSE "ok"
         [] OTHER -> IF used >= e.scanLimit THEN "individual_limit_reached" ELSE "ok"

canDownloadReport(e) == e.planCode # "free" \/ e.hasPaidHistory
canManageTeam(e) == e.role \in {"owner", "admin"}
\* selectPlan's checks: paid plans enabled, and not somebody else's team.
SelectAllowed(e, p, k) == (p \in Paid => k.api) /\ e.role \in {None, "owner"}

subscriptionStatusFromEffectivePlan(e, k) ==
  IF k.selected /\ e.accessState \in {"paid_active", "team_active"} THEN "active"
  ELSE IF k.selected /\ e.accessState \in {"paid_expired", "team_expired"} THEN "expired"
  ELSE "none"

fetchUserProfile(u, e, v, k) ==
  [plan |-> v[PlanOf(u)], organizationPlan |-> IF e.team # 0 THEN e.planCode ELSE None,
   planSelected |-> k.selected \/ e.team # 0, status |-> subscriptionStatusFromEffectivePlan(e, k),
   scanLimit |-> e.scanLimit, history |-> e.hasPaidHistory, role |-> e.role]

-----------------------------------------------------------------------------
\* The pages, given the profile me.
WebPlan(me) == IF me.organizationPlan # None THEN me.organizationPlan ELSE me.plan
isFreePlan(me) == WebPlan(me) = "free"
isExpiredPlan(me) == me.status = "expired"
WebManagesTeam(me) == WebPlan(me) = "team" /\ me.status = "active" /\ me.role = "owner"
shouldShowUpgradeCard(me) == ~me.planSelected \/ isFreePlan(me) \/ isExpiredPlan(me)

\* Mutant: the cards of members are not locked.
CardEnabledToMembers(me, p, mode) ==
  /\ ~(WebPlan(me) = p /\ ~(mode = "onboarding" /\ ~me.planSelected))
  /\ ~(p = "free" /\ me.history)

\* getPlanCardState: the card of plan p can be clicked.
CardEnabled(me, p, mode) ==
  /\ me.role # "member"
  /\ ~(WebPlan(me) = p /\ ~(mode = "onboarding" /\ ~me.planSelected))
  /\ ~(p = "free" /\ me.history)

\* plans.tsx: paid cards also wait for VITE_ENABLE_PAID_PLANS ("Coming soon").
Cards(me, mode, k) == {p \in Codes : CardEnabled(me, p, mode) /\ (p \in Paid => k.web)}

\* BillingCard: the line under the plan's name, and how much is left.
BillingLine(me) ==
  IF isFreePlan(me) THEN "start" ELSE IF isExpiredPlan(me) THEN "renew" ELSE "ready"
Remaining(me, k) == IF k.used >= me.scanLimit THEN 0 ELSE me.scanLimit - k.used
\* The detail page's report button.
ReportButton(me) == me.history

\* The members of team t as /team/me lists them (the owner put first if missing) and
\* as /team/details does (users of both kinds, the owner's role before the row's).
MyTeamMembers(t, v) ==
  LET active == {[user |-> u, role |-> IF u = v[TeamRow(t)] THEN "owner" ELSE v[Member(t, u)]] :
                    u \in {w \in Users : v[Member(t, w)] # None}} IN
  IF \E m \in active : m.user = v[TeamRow(t)] THEN active
  ELSE active \union {[user |-> v[TeamRow(t)], role |-> "owner"]}
DetailsMembers(t, v) ==
  {[user |-> u, role |-> IF v[TeamRow(t)] = u THEN "owner" ELSE v[Member(t, u)]] :
     u \in {w \in Users : v[TeamRow(t)] = w \/ v[Member(t, w)] # None}}
\* TeamDetailsCard: nobody without a team, for whom the API answers not_in_team.
TeamCard(e, v) == IF e.team = 0 THEN {} ELSE DetailsMembers(e.team, v)

-----------------------------------------------------------------------------
\* The rows after selectPlan of p by u ran to its COMMIT without company.
AfterSelect(u, p, v) ==
  LET gone == (UNION {TeamCascade(t, v) : t \in Owned(u, v)}) \union {Member(t, u) : t \in Teams}
      left == [j \in Keys |-> IF j \in gone THEN None ELSE v[j]]
      new  == CHOOSE t \in Teams : left[TeamRow(t)] = None IN
  [j \in Keys |->
     CASE j = PlanOf(u) -> p
       [] p = "team" /\ j = TeamRow(new) -> u
       [] p = "team" /\ j = Sub(new) -> "active"
       [] p \in Paid \ {"team"} /\ j = Sub(u) -> "active"
       [] OTHER -> left[j]]
\* What it inserts has not expired.
AfterCase(u, p, k) ==
  [k EXCEPT !.selected = TRUE,
            !.late = @ \ (CASE p = "free" -> {} [] p = "team" -> Teams [] OTHER -> {u})]

May(u, c, v, k) == canStartScan(getEffectivePlan(u, c, v, k), k.used)
Me(u, c, v, k) == fetchUserProfile(u, getEffectivePlan(u, c, v, k), v, k)
Several(u, v) == Cardinality(Contexts(u, v)) > 1

\* A card that can be clicked is accepted, but for team admins (plansAccess locks the
\* cards of the role "member" only, selectPlan refuses everybody but owners), when
\* the two switches of paid plans differ, or when LIMIT 1 has several teams to pick from.
OffersAccepted(u, v, k, me, e) ==
  \A mode \in {"onboarding", "change"} : \A p \in Cards(me, mode, k) :
    SelectAllowed(e, p, k) \/ me.role = "admin" \/ k.web # k.api \/ Several(u, v)

\* The billing card says what POST /scan does: "renewal" when it is refused, "ready"
\* and "start" while scans are left, but for members who never chose a plan
\* themselves (their status is "none" even when the team's plan has expired) and for
\* former owners whose plan is still "team".
BillingTold(u, v, k, me, e) ==
  LET may == canStartScan(e, k.used) = "ok" IN
  \/ Several(u, v)
  \/ CASE BillingLine(me) = "renew" -> ~may
       [] BillingLine(me) = "start" -> may = (Remaining(me, k) > 0)
       [] OTHER -> \/ may = (Remaining(me, k) > 0)
                   \/ me.role # None /\ ~k.selected
                   \/ me.role = None /\ me.plan = "team"

\* The report button is there exactly when the report may be downloaded, but for a paid
\* plan that no subscription stands behind, where it is missing: a former owner's, or
\* that of a team committed without its subscription (cut: connections were mixed up).
ReportsTold(u, v, k, me, e, cut) ==
  \/ Several(u, v)
  \/ ReportButton(me) = canDownloadReport(e)
  \/ ~ReportButton(me) /\ WebPlan(me) # "free" /\ (me.role = None \/ cut)

\* Who is offered the team page may manage the team; who has a team finds himself on
\* the card and on the page in the role his profile names, next to one owner.
TeamTold(u, v, k, me, e) ==
  /\ WebManagesTeam(me) => canManageTeam(e)
  /\ e.team # 0 =>
       /\ TeamCard(e, v) = MyTeamMembers(e.team, v)
       /\ [user |-> u, role |-> e.role] \in TeamCard(e, v)
       /\ Cardinality({m \in TeamCard(e, v) : m.role = "owner"}) = 1

\* One click on an enabled card of the change page, to rows and case afterwards.
Clicks(u, v, k) ==
  UNION {{<<AfterSelect(u, p, v), AfterCase(u, p, k)>> : p \in Cards(Me(u, c, v, k), "change", k)} :
           c \in Contexts(u, v)}
CanScan(u, v, k) == \E c \in Contexts(u, v) : May(u, c, v, k) = "ok"

SomeIdLeft(v) == \E t \in Teams : v[TeamRow(t)] = None

\* "Renew or upgrade to resume scans": who manages his own plan and is refused a scan
\* can scan again after at most two clicks.  The first may have to go to another plan,
\* since the card of the current plan is disabled even when it has expired.  (A new team
\* needs an id below the bound MaxTeams.)
WayBack(u, v, k, me, e) ==
  k.api /\ k.web /\ me.role \in {None, "owner"} /\ canStartScan(e, k.used) # "ok" /\ SomeIdLeft(v) =>
    \E x \in Clicks(u, v, k) : CanScan(u, x[1], x[2]) \/ \E y \in Clicks(u, x[1], x[2]) : CanScan(u, y[1], y[2])

PagesRight(v, cut) ==
  \A u \in {w \in Users : HasUser(w, v)} : \A k \in Cases(u, v) : \A c, a \in Contexts(u, v) :
    LET me == Me(u, c, v, k)
        e  == getEffectivePlan(u, a, v, k) IN
    /\ OffersAccepted(u, v, k, me, e) /\ BillingTold(u, v, k, me, e) /\ ReportsTold(u, v, k, me, e, cut)
    /\ TeamTold(u, v, k, me, e) /\ WayBack(u, v, k, me, e)

\* A user who had a paid plan loses that history only when the team it came from is
\* gone, left, or no longer the one that getTeamContext finds, or when a deletion of the
\* account was split over connections (split) and has gone half its way.
HistoryKept(v, w, split) ==
  \A u \in Users \ split :
    HasUser(u, w) /\ (\E c \in Contexts(u, v) : hadPaidPlanBefore(u, c, v))
                  /\ (\A c \in Contexts(u, w) : ~hadPaidPlanBefore(u, c, w)) =>
      \E c \in Contexts(u, v) : c.team # 0 /\ \A d \in Contexts(u, w) : d.team # c.team

\* The users whose deletion's statements and transaction did not stay together.
SplitDeletions == {req[r].work.user : r \in {q \in mixed : req[q].work.kind = "delete"}}

\* Whatever requests commit, and whatever connections were mixed up: a page loaded
\* afterwards tells each user what the API lets him do.
PlanPagesExplained == [][db' # db => PagesRight(db', mixed' # {}) /\ HistoryKept(db, db', SplitDeletions')]_plansVars

=============================================================================
