------------------------------ MODULE TeamInvites ------------------------------
(***************************************************************************)
(* The members and the invite of one team: addTeamMember, acceptTeamInvite, *)
(* declineTeamInvite, resendTeamInvite, lookupTeamInvite, removeTeamMember, *)
(* updateTeamMemberRole, transferTeamOwnership and getMyTeam               *)
(* (access.controller.js), one step per statement, and the page            *)
(* _app.team.tsx, which offers its controls from the team it read last.    *)
(*                                                                         *)
(* Each handler reads, checks, and then writes by id alone, so requests in *)
(* flight together can write over what others have changed.  The           *)
(* transactions of accept and transfer commit as one step here: TeamPlans  *)
(* is about the ones that lose their connection.                           *)
(***************************************************************************)
EXTENDS Naturals, FiniteSets, Sequences

CONSTANTS
  Users, Owner, Admin,  \* Owner and Admin hold these roles at first
  Invitee,              \* the user with the invited address
  Requests,             \* requests in flight
  Menus,                \* how many requests of each kind arrive, a bound: functions of Kinds
  MaxTokens             \* how many invite tokens are drawn, a bound

\* The requests of the team routes.
Kinds == {"add", "accept", "decline", "lookup", "resend", "remove", "setRole", "transfer", "team"}

ASSUME TeamInvitesAssumption ==
  /\ {Owner, Admin, Invitee} \subseteq Users /\ Owner # Admin /\ Invitee \notin {Owner, Admin}
  /\ MaxTokens \in Nat \ {0} /\ Menus \subseteq [Kinds -> Nat]

VARIABLES
  owner,    \* teams.owner_user_id
  members,  \* team_members.role of each user, None: no row (status is always 'active')
  invite,   \* the row of team_member_invites for the invited address
  drawn,    \* how many tokens have been drawn
  mailed,   \* tokens whose links have reached the invited address
  req,      \* requests: statements to come and what they have read
  left,     \* how many requests of each kind are still to come
  crossed,  \* history: <<k, m>>: a request of kind k wrote after one of kind m had, meanwhile
  barred    \* history: tokens drawn before the invitee was removed last

vars == <<owner, members, invite, drawn, mailed, req, left, crossed, barred>>

-----------------------------------------------------------------------------
None == "none"
Roles == {"owner", "admin", "member"}
Tokens == 1..MaxTokens
NoInvite == [status |-> None, token |-> 0, due |-> FALSE]
canManageMembers(role) == role \in {"owner", "admin"}
canManageAdmins(role) == role = "owner"

\* The statements of a request, in the order in which the handler awaits them.
Program(kind) ==
  CASE kind = "add"      -> <<"owned", "joined", "expireDue", "memberOfEmail", "upsertInvite", "mail">>
    [] kind = "resend"   -> <<"owned", "joined", "findById", "renewInvite", "mail">>
    [] kind = "remove"   -> <<"owned", "joined", "findOwner", "findTarget", "deleteMember">>
    [] kind = "setRole"  -> <<"owned", "joined", "findOwner", "findTarget", "updateRole">>
    [] kind = "transfer" -> <<"owned", "joined", "findTarget", "setOwner">>
    [] kind = "accept"   -> <<"findByToken", "join">>
    [] kind = "decline"  -> <<"findByToken", "declineById">>
    [] kind = "lookup"   -> <<"findByToken">>
    [] kind = "team"     -> <<"owned", "joined", "expireDue">>

Ask(kind, by, target, role, token) ==
  [kind |-> kind, by |-> by, target |-> target, role |-> role, token |-> token]

\* What the API may be asked: user ids and roles are free, tokens come from the mails.
Calls ==
  {Ask(k, u, None, None, 0) : k \in {"add", "resend", "team"}, u \in Users}
    \union {Ask(k, u, t, None, 0) : k \in {"remove", "transfer"}, u \in Users, t \in Users}
    \union {Ask("setRole", u, t, x, 0) : u \in Users, t \in Users, x \in {"admin", "member"}}
    \union {Ask(k, Invitee, None, None, t) : k \in {"accept", "decline", "lookup"}, t \in mailed}

Idle == [ask |-> Ask("team", None, None, None, 0), offered |-> FALSE, todo |-> <<>>,
         role |-> None, token |-> 0, met |-> {}, verdict |-> "ok"]

Init ==
  /\ owner = Owner
  /\ invite \in {NoInvite, [status |-> "pending", token |-> 1, due |-> FALSE],
                 [status |-> "accepted", token |-> 0, due |-> FALSE]}
  /\ members = [u \in Users |-> IF u = Admin THEN "admin"
                               ELSE IF u = Invitee /\ invite.status = "accepted" THEN "member" ELSE None]
  /\ drawn = invite.token
  /\ mailed = 1..drawn
  /\ req = [r \in Requests |-> Idle]
  /\ left \in Menus
  /\ crossed = {} /\ barred = {}

-----------------------------------------------------------------------------
Answered(r) == req[r].todo = <<>>
At(r, s) == ~Answered(r) /\ Head(req[r].todo) = s
Goes(r) == [req[r] EXCEPT !.todo = Tail(@)]
Refuses(r) == [Idle EXCEPT !.verdict = "refused"]

Ends(r, verdict) == [Idle EXCEPT !.verdict = verdict]

\* A read: only the request's own record changes.
Reads(r, q) ==
  /\ req' = [req EXCEPT ![r] = q]
  /\ UNCHANGED <<owner, members, invite, drawn, mailed, left, crossed, barred>>

\* A write: the others in flight have met it.
Writes(r, q) ==
  LET k == req[r].ask.kind IN
  /\ req' = [x \in Requests |-> IF x = r THEN q
                                ELSE IF Answered(x) THEN req[x] ELSE [req[x] EXCEPT !.met = @ \union {k}]]
  /\ crossed' = crossed \union {<<k, met>> : met \in req[r].met}
  /\ UNCHANGED <<drawn, mailed, left>>

\* What getMyTeam answers user u.
RoleOf(u) == IF u = owner THEN "owner" ELSE members[u]
ShownInvite == IF invite.status = "accepted" /\ RoleOf(Invitee) # None THEN None ELSE invite.status

\* Mutant: Remove is offered for every member but the owner.
OfferedAnyRemoval(u) ==
  IF ~canManageMembers(RoleOf(u)) THEN {}
  ELSE {Ask("remove", u, m, None, 0) : m \in {v \in Users : RoleOf(v) \in {"admin", "member"}}}

\* The controls _app.team.tsx offers user u, as the calls of their handlers; the
\* invited address is free text.
Offered(u) ==
  IF ~canManageMembers(RoleOf(u)) THEN {}
  ELSE {Ask("resend", u, None, None, 0) : x \in {ShownInvite} \intersect {"pending", "declined", "expired"}}
    \union {Ask("remove", u, m, None, 0) :
              m \in {v \in Users : \/ RoleOf(v) = "member"
                                   \/ RoleOf(v) = "admin" /\ canManageAdmins(RoleOf(u))}}
    \union (IF RoleOf(u) # "owner" THEN {}
            ELSE {Ask("setRole", u, m, IF RoleOf(m) = "admin" THEN "member" ELSE "admin", 0) :
                    m \in {v \in Users : RoleOf(v) \in {"admin", "member"}}}
              \union {Ask("transfer", u, m, None, 0) : m \in {v \in Users : RoleOf(v) \in {"admin", "member"}}})

Draws(ask) == ask.kind \in {"add", "resend"}
\* A request arrives.
Start(r, ask) ==
  /\ Answered(r) /\ left[ask.kind] > 0
  /\ ask.kind = "transfer" => ask.target # ask.by
  /\ Draws(ask) => drawn + Cardinality({x \in Requests : ~Answered(x) /\ Draws(req[x].ask)}) < MaxTokens
  /\ left' = [left EXCEPT ![ask.kind] = @ - 1]
  /\ req' = [req EXCEPT ![r] = [Idle EXCEPT !.ask = ask, !.offered = ask \in Offered(ask.by),
                                            !.todo = Program(ask.kind)]]
  /\ UNCHANGED <<owner, members, invite, drawn, mailed, crossed, barred>>

-----------------------------------------------------------------------------
\* canManageTeam, or the role check of transfer and getMyTeam.
Entitled(kind, role) ==
  CASE kind = "team" -> role # None
    [] kind = "transfer" -> role = "owner"
    [] OTHER -> canManageMembers(role)

\* getTeamContext: first the teams the user owns, then, without one, the memberships.
Owned(r) ==
  /\ At(r, "owned")
  /\ Reads(r, IF req[r].ask.by = owner THEN [Goes(r) EXCEPT !.role = "owner", !.todo = Tail(@)] ELSE Goes(r))
Joined(r) ==
  /\ At(r, "joined")
  /\ LET role == members[req[r].ask.by] IN
     Reads(r, IF Entitled(req[r].ask.kind, role) THEN [Goes(r) EXCEPT !.role = role] ELSE Refuses(r))

FindOwner(r) ==
  /\ At(r, "findOwner")
  /\ Reads(r, IF req[r].ask.target = owner THEN Refuses(r) ELSE Goes(r))

\* Mutant: an admin may remove or demote admins.
FindAnyTarget(r) ==
  /\ At(r, "findTarget")
  /\ Reads(r, IF members[req[r].ask.target] = None THEN Refuses(r) ELSE Goes(r))

\* The target's row; only an owner manages admins.
FindTarget(r) ==
  /\ At(r, "findTarget")
  /\ LET role == members[req[r].ask.target] IN
     Reads(r, IF \/ role = None
                 \/ ~canManageAdmins(req[r].role) /\ (role = "admin" \/ req[r].ask.role = "admin")
              THEN Refuses(r) ELSE Goes(r))

\* Mutant: pending invites are expired whatever their age.
ExpireAny(r) ==
  /\ At(r, "expireDue")
  /\ IF invite.status = "pending"
     THEN /\ invite' = [invite EXCEPT !.status = "expired"]
          /\ Writes(r, Goes(r))
          /\ UNCHANGED <<owner, members, barred>>
     ELSE Reads(r, Goes(r))

\* expirePendingInvitesForTeam
ExpireDue(r) ==
  /\ At(r, "expireDue")
  /\ IF invite.status = "pending" /\ invite.due
     THEN /\ invite' = [invite EXCEPT !.status = "expired"]
          /\ Writes(r, Goes(r))
          /\ UNCHANGED <<owner, members, barred>>
     ELSE Reads(r, Goes(r))

MemberOfEmail(r) ==
  /\ At(r, "memberOfEmail")
  /\ Reads(r, IF members[Invitee] # None THEN Refuses(r) ELSE Goes(r))

\* Mutant: an accepted invite may be sent again.
FindAnyById(r) ==
  /\ At(r, "findById")
  /\ Reads(r, IF invite.status = None THEN Refuses(r) ELSE Goes(r))

FindById(r) ==
  /\ At(r, "findById")
  /\ Reads(r, IF invite.status \in {None, "accepted"} THEN Refuses(r) ELSE Goes(r))

\* A new token: the INSERT .. ON CONFLICT of addTeamMember, the UPDATE of resendTeamInvite.
IssueToken(r) ==
  /\ At(r, "upsertInvite") \/ At(r, "renewInvite")
  /\ invite' = [status |-> "pending", token |-> drawn + 1, due |-> FALSE]
  /\ drawn' = drawn + 1
  /\ req' = [x \in Requests |->
               IF x = r THEN [Goes(r) EXCEPT !.token = drawn + 1]
               ELSE IF Answered(x) THEN req[x] ELSE [req[x] EXCEPT !.met = @ \union {req[r].ask.kind}]]
  /\ crossed' = crossed \union {<<req[r].ask.kind, met>> : met \in req[r].met}
  /\ UNCHANGED <<owner, members, mailed, left, barred>>

\* sendTeamInviteEmail: sent, or the answer is 502 and the row stays as it is.
Mail(r) ==
  /\ At(r, "mail")
  /\ \/ /\ mailed' = mailed \union {req[r].token}
        /\ req' = [req EXCEPT ![r] = Ends(r, "ok")]
     \/ /\ req' = [req EXCEPT ![r] = Ends(r, "mailFailed")]
        /\ UNCHANGED mailed
  /\ UNCHANGED <<owner, members, invite, drawn, left, crossed, barred>>

\* The row of the token: refusals of accept, decline and lookup; a due invite is expired
\* by the next statement.
FindByToken(r) ==
  /\ At(r, "findByToken")
  /\ Reads(r, IF invite.status # "pending" \/ invite.token # req[r].ask.token THEN Refuses(r)
              ELSE IF invite.due THEN [req[r] EXCEPT !.todo = <<"expireById">>]
              ELSE IF req[r].ask.kind = "lookup" THEN Ends(r, "ok") ELSE Goes(r))

ExpireById(r) ==
  /\ At(r, "expireById")
  /\ invite' = [invite EXCEPT !.status = "expired"]
  /\ Writes(r, Refuses(r))
  /\ UNCHANGED <<owner, members, barred>>

\* Mutant: accepting leaves the token in the row.
JoinKeepsToken(r) ==
  /\ At(r, "join")
  /\ members' = [members EXCEPT ![req[r].ask.by] = "member"]
  /\ Writes(r, Ends(r, "ok"))
  /\ UNCHANGED <<owner, invite, barred>>

\* The transaction of acceptTeamInvite.
Join(r) ==
  /\ At(r, "join")
  /\ members' = [members EXCEPT ![req[r].ask.by] = "member"]
  /\ invite' = [invite EXCEPT !.status = "accepted", !.token = 0]
  /\ Writes(r, Ends(r, "ok"))
  /\ UNCHANGED <<owner, barred>>

DeclineById(r) ==
  /\ At(r, "declineById")
  /\ invite' = [invite EXCEPT !.status = "declined", !.token = 0]
  /\ Writes(r, Ends(r, "ok"))
  /\ UNCHANGED <<owner, members, barred>>

DeleteMember(r) ==
  /\ At(r, "deleteMember")
  /\ members' = [members EXCEPT ![req[r].ask.target] = None]
  /\ barred' = IF req[r].ask.target = Invitee /\ members[Invitee] # None THEN 1..drawn ELSE barred
  /\ Writes(r, Ends(r, "ok"))
  /\ UNCHANGED <<owner, invite>>

UpdateRole(r) ==
  /\ At(r, "updateRole")
  /\ members' = [members EXCEPT ![req[r].ask.target] = IF @ = None THEN None ELSE req[r].ask.role]
  /\ Writes(r, Ends(r, "ok"))
  /\ UNCHANGED <<owner, invite, barred>>

\* The transaction of transferTeamOwnership: it checks nothing again.
SetOwner(r) ==
  /\ At(r, "setOwner")
  /\ owner' = req[r].ask.target
  /\ members' = [members EXCEPT ![req[r].ask.by] = "admin",
                                ![req[r].ask.target] = IF @ = None THEN None ELSE "member"]
  /\ Writes(r, Ends(r, "ok"))
  /\ UNCHANGED <<invite, barred>>

\* Seven days pass.
Lapse ==
  /\ invite.status = "pending" /\ ~invite.due
  /\ invite' = [invite EXCEPT !.due = TRUE]
  /\ UNCHANGED <<owner, members, drawn, mailed, req, left, crossed, barred>>

Next ==
  \/ \E r \in Requests :
       \/ \E ask \in Calls : Start(r, ask)
       \/ Owned(r) \/ Joined(r) \/ FindOwner(r) \/ FindTarget(r) \/ ExpireDue(r) \/ MemberOfEmail(r)
       \/ FindById(r) \/ IssueToken(r) \/ Mail(r) \/ FindByToken(r) \/ ExpireById(r) \/ Join(r)
       \/ DeclineById(r) \/ DeleteMember(r) \/ UpdateRole(r) \/ SetOwner(r)
  \/ Lapse

Spec == Init /\ [][Next]_vars

-----------------------------------------------------------------------------
\* Types of the rows and the requests; a row has a token exactly while it was not answered.
TypeOK ==
  /\ owner \in Users
  /\ members \in [Users -> {None, "admin", "member"}]
  /\ invite.status \in {None, "pending", "accepted", "declined", "expired"}
  /\ invite.token \in 0..drawn /\ (invite.status = "pending" => invite.token # 0)
  /\ invite.status \in {None, "accepted", "declined"} => invite.token = 0
  /\ invite.due \in BOOLEAN
  /\ drawn \in Nat /\ mailed \subseteq 1..drawn /\ barred \subseteq 1..drawn
  /\ left \in [Kinds -> Nat]
  /\ crossed \subseteq Kinds \X Kinds
  /\ \A r \in Requests :
       /\ req[r].met \subseteq Kinds /\ req[r].role \in Roles \union {None}
       /\ req[r].verdict \in {"ok", "refused", "mailFailed"}

\* The invite agrees with the team: nobody belongs to it with an open, declined or expired
\* invite, unless accepting crossed a request that wrote the same invite (the UPDATEs of
\* access.controller.js:503, 548, 593 go by id alone), or a transfer crossed a removal:
\* then the invitee owns the team without a membership, may be invited although owner,
\* and gets the membership back by a transfer.
Crossed(pairs) == crossed \intersect pairs # {}
AcceptRaces == {"add", "resend", "decline", "lookup", "accept"} \X {"accept"}
OwnerRaces == {<<"transfer", "remove">>, <<"remove", "transfer">>}
InviteAgrees ==
  RoleOf(Invitee) # None => invite.status = "accepted" \/ Crossed(AcceptRaces \union OwnerRaces)

\* A link dies of age alone: an invite that is not due yet is marked expired only by a
\* request that read it before another sent it anew.
FreshLinkLives ==
  [][invite.status = "pending" /\ ~invite.due /\ invite'.status = "expired"
       => \E pair \in crossed' : pair[1] \in {"accept", "decline", "lookup"} /\ pair[2] \in {"add", "resend"}]_vars

Steps(r, s) == At(r, s) /\ ~At(r, s)'

\* Removing sticks: who was removed comes back only with an invite drawn after that,
\* unless requests crossed: the removal met an invite that was being accepted, or one of
\* the crossings above left a member with an open invite, which removing leaves alone.
RemovalRaces == AcceptRaces \union OwnerRaces \union {<<"accept", "remove">>}
RemovalSticks ==
  [][\A r \in Requests : Steps(r, "join") =>
       req[r].ask.token \notin barred \/ Crossed(RemovalRaces)']_vars

\* Ownership leaves only by the owner's own request and to a member, and admins are
\* removed, demoted or appointed by the owner alone, unless the request overlapped a
\* transfer, a removal or a change of role (what was read is not checked again).
RightsKept ==
  [][\A r \in Requests :
       LET by == req[r].ask.by
           to == req[r].ask.target IN
       /\ Steps(r, "setOwner") =>
            (by = owner /\ members[to] # None) \/ req[r].met \intersect {"transfer", "remove"} # {}
       /\ Steps(r, "deleteMember") /\ members[to] = "admin" =>
            by = owner \/ req[r].met \intersect {"transfer", "setRole"} # {}
       /\ Steps(r, "updateRole") /\ "admin" \in {members[to], members'[to]} =>
            by = owner \/ req[r].met \intersect {"transfer", "setRole"} # {}]_vars

\* What the page offers the server accepts, as long as no other request wrote since the
\* page read the team.
OfferedIsAllowed ==
  [][\A r \in Requests :
       req[r].offered /\ req[r].met = {} /\ req'[r].todo = <<>> => req'[r].verdict # "refused"]_vars

=============================================================================
