------------------------------ MODULE MCTeamPlans ------------------------------
(* Instances of TeamPlans for TLC: ana owns team 1, ben is its member or invited. *)
EXTENDS PlanOffers, TLC

CONSTANTS ana, ben, r1, r2

BothUsers == {ana, ben}

Table(member, invite) ==
  [k \in Keys |->
     CASE k = PlanOf(ana) -> "team"
       [] k = PlanOf(ben) -> "free"
       [] k = TeamRow(1) -> ana
       [] k = Sub(1) -> "active"
       [] k = Member(1, ben) -> member
       [] k = Invite(1, ben) -> invite
       [] OTHER -> None]

Ask(kind, user, plan, to) == [kind |-> kind, user |-> user, plan |-> plan, to |-> to, team |-> 1]
BothRequests == {r1, r2}
Pair(a, b, rows) == [work |-> [r \in BothRequests |-> IF r = r1 THEN a ELSE b], rows |-> rows]

AnaLeaves == Ask("select", ana, "free", ana)
AnaAlone  == Ask("select", ana, "individual_monthly", ana)
AnaTeam   == Ask("select", ana, "team", ana)
BenLeaves == Ask("select", ben, "free", ben)
BenTeam   == Ask("select", ben, "team", ben)
BenJoins  == Ask("accept", ben, "free", ben)
Transfer  == Ask("transfer", ana, "free", ben)
AnaScans  == Ask("scan", ana, "free", ana)
AnaGone   == Ask("delete", ana, "free", ana)

\* Pairs of requests that touch each other's rows.
WhileInvited ==
  {Pair(a, b, Table(None, "pending")) :
     a \in {BenJoins}, b \in {AnaLeaves, AnaGone, BenTeam, BenLeaves, BenJoins}}
WhileMember ==
  {Pair(a, b, Table("member", "accepted")) :
     a \in {AnaLeaves, Transfer}, b \in {AnaLeaves, AnaAlone, AnaTeam, AnaScans, Transfer, AnaGone}}
\* Ana handed her team over and was removed from it: her plan is still "team", and her
\* own subscription from before is there.
Former ==
  [Table(None, None) EXCEPT ![TeamRow(1)] = ben, ![PlanOf(ben)] = "free", ![Sub(ana)] = "active"]
AfterHandover ==
  {Pair(AnaScans, a, Former) : a \in {AnaAlone, AnaTeam, BenLeaves}}
    \union {Pair(AnaGone, a, Former) : a \in {AnaScans, AnaAlone}}
WhileAdmin == {Pair(Transfer, BenLeaves, Table("admin", "accepted"))}
Pairs == AfterHandover \union WhileAdmin \union WhileInvited \union (WhileMember \ {Pair(Transfer, AnaLeaves, Table("member", "accepted"))})

=============================================================================
