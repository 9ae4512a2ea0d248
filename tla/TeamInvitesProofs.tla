--------------------------- MODULE TeamInvitesProofs ---------------------------
(***************************************************************************)
(* Proofs about TeamInvites for any users, any number of requests in       *)
(* flight and any number of requests of each kind.                         *)
(***************************************************************************)
EXTENDS TeamInvites, TLAPS

-----------------------------------------------------------------------------
(* The statements still to come, by the kind of the request *)

Managing == {"add", "resend", "remove", "setRole", "transfer", "team"}
ByToken == {"accept", "decline", "lookup"}

\* What a request of a kind may still have to do.
Todos(kind) ==
  CASE kind = "add"      -> {<<"owned", "joined", "expireDue", "memberOfEmail", "upsertInvite", "mail">>,
                             <<"joined", "expireDue", "memberOfEmail", "upsertInvite", "mail">>,
                             <<"expireDue", "memberOfEmail", "upsertInvite", "mail">>,
                             <<"memberOfEmail", "upsertInvite", "mail">>, <<"upsertInvite", "mail">>,
                             <<"mail">>}
    [] kind = "resend"   -> {<<"owned", "joined", "findById", "renewInvite", "mail">>,
                             <<"joined", "findById", "renewInvite", "mail">>,
                             <<"findById", "renewInvite", "mail">>, <<"renewInvite", "mail">>, <<"mail">>}
    [] kind = "remove"   -> {<<"owned", "joined", "findOwner", "findTarget", "deleteMember">>,
                             <<"joined", "findOwner", "findTarget", "deleteMember">>,
                             <<"findOwner", "findTarget", "deleteMember">>,
                             <<"findTarget", "deleteMember">>, <<"deleteMember">>}
    [] kind = "setRole"  -> {<<"owned", "joined", "findOwner", "findTarget", "updateRole">>,
                             <<"joined", "findOwner", "findTarget", "updateRole">>,
                             <<"findOwner", "findTarget", "updateRole">>, <<"findTarget", "updateRole">>,
                             <<"updateRole">>}
    [] kind = "transfer" -> {<<"owned", "joined", "findTarget", "setOwner">>,
                             <<"joined", "findTarget", "setOwner">>, <<"findTarget", "setOwner">>,
                             <<"setOwner">>}
    [] kind = "accept"   -> {<<"findByToken", "join">>, <<"join">>, <<"expireById">>}
    [] kind = "decline"  -> {<<"findByToken", "declineById">>, <<"declineById">>, <<"expireById">>}
    [] kind = "lookup"   -> {<<"findByToken">>, <<"expireById">>}
    [] kind = "team"     -> {<<"owned", "joined", "expireDue">>, <<"joined", "expireDue">>, <<"expireDue">>}

Lists == {<<>>} \union UNION {Todos(k) : k \in Kinds}
Request ==
  [ask : [kind : Kinds, by : Users \union {None}, target : Users \union {None},
          role : {"admin", "member", None}, token : Nat],
   offered : BOOLEAN, todo : Lists,
   role : Roles \union {None}, token : Nat, met : SUBSET Kinds, verdict : {"ok", "refused", "mailFailed"}]

\* A request in flight is one that may be made, at a statement of its kind.
Shape(r) ==
  /\ req[r] \in Request
  /\ Answered(r) => ~req[r].offered
  /\ ~Answered(r) =>
       /\ req[r].todo \in Todos(req[r].ask.kind)
       /\ req[r].offered => req[r].ask.kind \in {"resend", "remove", "setRole", "transfer"}
       /\ req[r].ask.by \in Users
       /\ req[r].ask.kind \in ByToken => req[r].ask.by = Invitee
       /\ req[r].ask.kind \in {"remove", "setRole", "transfer"} => req[r].ask.target \in Users
       /\ req[r].ask.kind \in {"remove", "transfer"} => req[r].ask.role = None
       /\ req[r].ask.kind = "setRole" => req[r].ask.role # None
       /\ req[r].ask.kind = "transfer" => req[r].ask.target # req[r].ask.by

Types ==
  /\ owner \in Users
  /\ members \in [Users -> {None, "admin", "member"}]
  /\ invite \in [status : {None, "pending", "accepted", "declined", "expired"}, token : Nat, due : BOOLEAN]
  /\ drawn \in Nat /\ mailed \subseteq Nat /\ barred \subseteq 1..drawn
  /\ crossed \subseteq Kinds \X Kinds
  /\ DOMAIN req = Requests

-----------------------------------------------------------------------------
(* The inductive invariant: what a request has read still holds, or it has met one that *)
(* changed it, or the history has one of the crossings that the properties name.        *)

Races == AcceptRaces \union OwnerRaces
Entered(r) ==
  ~Answered(r) /\ Head(req[r].todo) \in {"findOwner", "findTarget", "deleteMember", "updateRole", "setOwner"}
Meets(r, kinds) == req[r].met \intersect kinds # {}

\* The rights a request was found to have.
RightsRead(r) ==
  LET ask == req[r].ask IN
  /\ Entered(r) => req[r].role \in {"owner", "admin"} /\ (ask.kind = "transfer" => req[r].role = "owner")
  /\ Entered(r) /\ req[r].role = "owner" => ask.by = owner \/ Meets(r, {"transfer"})
  /\ At(r, "setOwner") => members[ask.target] # None \/ Meets(r, {"remove"})
  /\ At(r, "deleteMember") /\ req[r].role # "owner" =>
       members[ask.target] # "admin" \/ Meets(r, {"transfer", "setRole"})
  /\ At(r, "updateRole") /\ req[r].role # "owner" =>
       ask.role # "admin" /\ (members[ask.target] # "admin" \/ Meets(r, {"transfer", "setRole"}))

\* The invite and the membership a request was found to be about.
InviteRead(r) ==
  LET ask == req[r].ask IN
  /\ At(r, "upsertInvite") => members[Invitee] = None \/ Meets(r, {"accept"}) \/ Crossed(Races)
  /\ At(r, "renewInvite") \/ At(r, "declineById") \/ At(r, "expireById") =>
       invite.status # "accepted" \/ Meets(r, {"accept"})
  /\ At(r, "expireById") => (invite.status = "pending" => invite.due) \/ Meets(r, {"add", "resend"})
  /\ At(r, "join") => (ask.token \in barred => Crossed(RemovalRaces) \/ Meets(r, {"remove"}))
  /\ Entered(r) /\ ask.kind = "transfer" /\ ask.by = Invitee =>
       RoleOf(Invitee) # None \/ Meets(r, {"remove"}) \/ Crossed(Races)
  /\ At(r, "findTarget") \/ At(r, "deleteMember") =>
       (ask.kind = "remove" /\ ask.target = Invitee => owner # Invitee \/ Meets(r, {"transfer"}))

\* A request from the page that has met nobody finds what the page had read.
OfferStands(r) ==
  LET ask == req[r].ask IN
  ~Answered(r) /\ req[r].offered /\ req[r].met = {} =>
    /\ ~At(r, "mail") => ask \in Offered(ask.by)
    /\ At(r, "joined") => ask.by # owner
    /\ Entered(r) => req[r].role = RoleOf(ask.by)

InvitePart ==
  /\ RoleOf(Invitee) # None => invite.status = "accepted" \/ Crossed(Races)
  /\ owner = Invitee /\ members[Invitee] = None => Crossed(Races)
  /\ invite.status = "pending" /\ invite.token \in barred => Crossed(RemovalRaces)

Kept(r) == Shape(r) /\ RightsRead(r) /\ InviteRead(r) /\ OfferStands(r)
TeamInv == Types /\ InvitePart /\ \A r \in Requests : Kept(r)

-----------------------------------------------------------------------------
(* The order of the statements *)

\* The first statement after the role check.
First(kind) ==
  CASE kind \in {"add", "team"} -> "expireDue"
    [] kind = "resend" -> "findById"
    [] kind \in {"remove", "setRole"} -> "findOwner"
    [] kind = "transfer" -> "findTarget"
    [] OTHER -> "end"

\* The statement after s in a request of a kind, "end" after the last.
After(kind, s) ==
  CASE s = "owned" -> "joined"
    [] s = "joined" -> First(kind)
    [] s = "expireDue" -> IF kind = "add" THEN "memberOfEmail" ELSE "end"
    [] s = "memberOfEmail" -> "upsertInvite"
    [] s = "findById" -> "renewInvite"
    [] s \in {"upsertInvite", "renewInvite"} -> "mail"
    [] s = "findOwner" -> "findTarget"
    [] s = "findTarget" -> IF kind = "remove" THEN "deleteMember"
                           ELSE IF kind = "setRole" THEN "updateRole" ELSE "setOwner"
    [] s = "findByToken" -> IF kind = "accept" THEN "join" ELSE IF kind = "decline" THEN "declineById" ELSE "end"
    [] OTHER -> "end"

\* The kinds of requests with a statement s.
KindsAt(s) ==
  CASE s \in {"owned", "joined"} -> Managing
    [] s = "expireDue" -> {"add", "team"}
    [] s \in {"memberOfEmail", "upsertInvite"} -> {"add"}
    [] s \in {"findById", "renewInvite"} -> {"resend"}
    [] s = "mail" -> {"add", "resend"}
    [] s = "findOwner" -> {"remove", "setRole"}
    [] s = "findTarget" -> {"remove", "setRole", "transfer"}
    [] s = "deleteMember" -> {"remove"}
    [] s = "updateRole" -> {"setRole"}
    [] s = "setOwner" -> {"transfer"}
    [] s \in {"findByToken", "expireById"} -> ByToken
    [] s = "join" -> {"accept"}
    [] s = "declineById" -> {"decline"}
    [] OTHER -> {}

\* A request at todo is of a kind that has the statement, and goes on to the one after.
Ordered(kind, todo) ==
  /\ todo # <<>> /\ kind \in KindsAt(Head(todo))
  /\ IF After(kind, Head(todo)) = "end" THEN Tail(todo) = <<>>
     ELSE Tail(todo) \in Todos(kind) /\ Tail(todo) # <<>> /\ Head(Tail(todo)) = After(kind, Head(todo))

LEMMA Statements == \A kind \in Kinds : \A todo \in Todos(kind) : Ordered(kind, todo)
<1>1. \A todo \in Todos("add") : Ordered("add", todo)
  <2>1. Ordered("add", <<"owned", "joined", "expireDue", "memberOfEmail", "upsertInvite", "mail">>)
    BY DEF Ordered, Todos, First, After, KindsAt, Managing, ByToken
  <2>2. Ordered("add", <<"joined", "expireDue", "memberOfEmail", "upsertInvite", "mail">>)
    BY DEF Ordered, Todos, First, After, KindsAt, Managing, ByToken
  <2>3. Ordered("add", <<"expireDue", "memberOfEmail", "upsertInvite", "mail">>)
    BY DEF Ordered, Todos, First, After, KindsAt, Managing, ByToken
  <2>4. Ordered("add", <<"memberOfEmail", "upsertInvite", "mail">>)
    BY DEF Ordered, Todos, First, After, KindsAt, Managing, ByToken
  <2>5. Ordered("add", <<"upsertInvite", "mail">>)
    BY DEF Ordered, Todos, First, After, KindsAt, Managing, ByToken
  <2>6. Ordered("add", <<"mail">>)
    BY DEF Ordered, Todos, First, After, KindsAt, Managing, ByToken
  <2> QED BY <2>1, <2>2, <2>3, <2>4, <2>5, <2>6 DEF Todos
<1>2. \A todo \in Todos("resend") : Ordered("resend", todo)
  <2>1. Ordered("resend", <<"owned", "joined", "findById", "renewInvite", "mail">>)
    BY DEF Ordered, Todos, First, After, KindsAt, Managing, ByToken
  <2>2. Ordered("resend", <<"joined", "findById", "renewInvite", "mail">>)
    BY DEF Ordered, Todos, First, After, KindsAt, Managing, ByToken
  <2>3. Ordered("resend", <<"findById", "renewInvite", "mail">>)
    BY DEF Ordered, Todos, First, After, KindsAt, Managing, ByToken
  <2>4. Ordered("resend", <<"renewInvite", "mail">>)
    BY DEF Ordered, Todos, First, After, KindsAt, Managing, ByToken
  <2>5. Ordered("resend", <<"mail">>)
    BY DEF Ordered, Todos, First, After, KindsAt, Managing, ByToken
  <2> QED BY <2>1, <2>2, <2>3, <2>4, <2>5 DEF Todos
<1>3. \A todo \in Todos("remove") : Ordered("remove", todo)
  <2>1. Ordered("remove", <<"owned", "joined", "findOwner", "findTarget", "deleteMember">>)
    BY DEF Ordered, Todos, First, After, KindsAt, Managing, ByToken
  <2>2. Ordered("remove", <<"joined", "findOwner", "findTarget", "deleteMember">>)
    BY DEF Ordered, Todos, First, After, KindsAt, Managing, ByToken
  <2>3. Ordered("remove", <<"findOwner", "findTarget", "deleteMember">>)
    BY DEF Ordered, Todos, First, After, KindsAt, Managing, ByToken
  <2>4. Ordered("remove", <<"findTarget", "deleteMember">>)
    BY DEF Ordered, Todos, First, After, KindsAt, Managing, ByToken
  <2>5. Ordered("remove", <<"deleteMember">>)
    BY DEF Ordered, Todos, First, After, KindsAt, Managing, ByToken
  <2> QED BY <2>1, <2>2, <2>3, <2>4, <2>5 DEF Todos
<1>4. \A todo \in Todos("setRole") : Ordered("setRole", todo)
  <2>1. Ordered("setRole", <<"owned", "joined", "findOwner", "findTarget", "updateRole">>)
    BY DEF Ordered, Todos, First, After, KindsAt, Managing, ByToken
  <2>2. Ordered("setRole", <<"joined", "findOwner", "findTarget", "updateRole">>)
    BY DEF Ordered, Todos, First, After, KindsAt, Managing, ByToken
  <2>3. Ordered("setRole", <<"findOwner", "findTarget", "updateRole">>)
    BY DEF Ordered, Todos, First, After, KindsAt, Managing, ByToken
  <2>4. Ordered("setRole", <<"findTarget", "updateRole">>)
    BY DEF Ordered, Todos, First, After, KindsAt, Managing, ByToken
  <2>5. Ordered("setRole", <<"updateRole">>)
    BY DEF Ordered, Todos, First, After, KindsAt, Managing, ByToken
  <2> QED BY <2>1, <2>2, <2>3, <2>4, <2>5 DEF Todos
<1>5. \A todo \in Todos("transfer") : Ordered("transfer", todo)
  <2>1. Ordered("transfer", <<"owned", "joined", "findTarget", "setOwner">>)
    BY DEF Ordered, Todos, First, After, KindsAt, Managing, ByToken
  <2>2. Ordered("transfer", <<"joined", "findTarget", "setOwner">>)
    BY DEF Ordered, Todos, First, After, KindsAt, Managing, ByToken
  <2>3. Ordered("transfer", <<"findTarget", "setOwner">>)
    BY DEF Ordered, Todos, First, After, KindsAt, Managing, ByToken
  <2>4. Ordered("transfer", <<"setOwner">>)
    BY DEF Ordered, Todos, First, After, KindsAt, Managing, ByToken
  <2> QED BY <2>1, <2>2, <2>3, <2>4 DEF Todos
<1>6. \A todo \in Todos("accept") : Ordered("accept", todo)
  <2>1. Ordered("accept", <<"findByToken", "join">>)
    BY DEF Ordered, Todos, First, After, KindsAt, Managing, ByToken
  <2>2. Ordered("accept", <<"join">>)
    BY DEF Ordered, Todos, First, After, KindsAt, Managing, ByToken
  <2>3. Ordered("accept", <<"expireById">>)
    BY DEF Ordered, Todos, First, After, KindsAt, Managing, ByToken
  <2> QED BY <2>1, <2>2, <2>3 DEF Todos
<1>7. \A todo \in Todos("decline") : Ordered("decline", todo)
  <2>1. Ordered("decline", <<"findByToken", "declineById">>)
    BY DEF Ordered, Todos, First, After, KindsAt, Managing, ByToken
  <2>2. Ordered("decline", <<"declineById">>)
    BY DEF Ordered, Todos, First, After, KindsAt, Managing, ByToken
  <2>3. Ordered("decline", <<"expireById">>)
    BY DEF Ordered, Todos, First, After, KindsAt, Managing, ByToken
  <2> QED BY <2>1, <2>2, <2>3 DEF Todos
<1>8. \A todo \in Todos("lookup") : Ordered("lookup", todo)
  <2>1. Ordered("lookup", <<"findByToken">>)
    BY DEF Ordered, Todos, First, After, KindsAt, Managing, ByToken
  <2>2. Ordered("lookup", <<"expireById">>)
    BY DEF Ordered, Todos, First, After, KindsAt, Managing, ByToken
  <2> QED BY <2>1, <2>2 DEF Todos
<1>9. \A todo \in Todos("team") : Ordered("team", todo)
  <2>1. Ordered("team", <<"owned", "joined", "expireDue">>)
    BY DEF Ordered, Todos, First, After, KindsAt, Managing, ByToken
  <2>2. Ordered("team", <<"joined", "expireDue">>)
    BY DEF Ordered, Todos, First, After, KindsAt, Managing, ByToken
  <2>3. Ordered("team", <<"expireDue">>)
    BY DEF Ordered, Todos, First, After, KindsAt, Managing, ByToken
  <2> QED BY <2>1, <2>2, <2>3 DEF Todos
<1> QED BY <1>1, <1>2, <1>3, <1>4, <1>5, <1>6, <1>7, <1>8, <1>9 DEF Kinds

LEMMA WithTodo ==
  ASSUME NEW q \in Request, NEW todo
  PROVE  [q EXCEPT !.todo = todo] =
           [ask |-> q.ask, offered |-> q.offered, todo |-> todo, role |-> q.role, token |-> q.token,
            met |-> q.met, verdict |-> q.verdict]
  BY DEF Request

LEMMA Advance ==
  ASSUME NEW r \in Requests, Shape(r), NEW s, At(r, s)
  PROVE  /\ req[r].ask.kind \in Kinds /\ req[r].ask.kind \in KindsAt(s) /\ Goes(r) \in Request
         /\ req[r].todo \in Todos(req[r].ask.kind)
         /\ IF After(req[r].ask.kind, s) = "end" THEN Goes(r).todo = <<>>
            ELSE /\ Goes(r).todo \in Todos(req[r].ask.kind) /\ Goes(r).todo # <<>>
                 /\ Head(Goes(r).todo) = After(req[r].ask.kind, s)
         /\ Goes(r) = [ask |-> req[r].ask, offered |-> req[r].offered, todo |-> Tail(req[r].todo),
                       role |-> req[r].role, token |-> req[r].token, met |-> req[r].met,
                       verdict |-> req[r].verdict]
<1>1. /\ req[r] \in Request /\ req[r].ask.kind \in Kinds /\ req[r].todo \in Todos(req[r].ask.kind)
      /\ Head(req[r].todo) = s
  BY DEF Shape, At, Request
<1>2. Ordered(req[r].ask.kind, req[r].todo)
  BY <1>1, Statements
<1>3. Goes(r) = [ask |-> req[r].ask, offered |-> req[r].offered, todo |-> Tail(req[r].todo),
                 role |-> req[r].role, token |-> req[r].token, met |-> req[r].met,
                 verdict |-> req[r].verdict]
  BY <1>1, WithTodo, Zenon DEF Goes
<1>4. Tail(req[r].todo) \in Lists
  BY <1>1, <1>2 DEF Ordered, Lists
<1>5. Goes(r) \in Request
  BY <1>1, <1>3, <1>4 DEF Request
<1> QED BY <1>1, <1>2, <1>3, <1>5 DEF Ordered

LEMMA Targeted ==
  ASSUME NEW r \in Requests, Shape(r), NEW s \in {"findOwner", "findTarget", "deleteMember", "updateRole", "setOwner"},
         At(r, s)
  PROVE  req[r].ask.target \in Users
  BY Advance DEF KindsAt, Shape, At

-----------------------------------------------------------------------------
(* What a step leaves of the requests that do not take it *)

\* A step that writes nothing another request may have read, or only that the invite is due.
Quiet ==
  /\ UNCHANGED <<owner, members, barred, crossed>>
  /\ invite' = invite \/ invite' = [invite EXCEPT !.due = TRUE]

LEMMA QuietKept ==
  ASSUME NEW x \in Requests, Types, Kept(x), req'[x] = req[x], Quiet
  PROVE  Kept(x)'
<1>1. /\ invite'.status = invite.status /\ invite'.token = invite.token /\ (invite.due => invite'.due)
      /\ owner' = owner /\ members' = members /\ barred' = barred /\ crossed' = crossed
  BY DEF Quiet, Types
<1>2. Shape(x)' /\ RightsRead(x)'
  BY <1>1 DEF Kept, Shape, RightsRead, Entered, Meets, At, Answered
<1>3. RoleOf(Invitee)' = RoleOf(Invitee) /\ (Crossed(Races) <=> Crossed(Races)')
      /\ (Crossed(RemovalRaces) <=> Crossed(RemovalRaces)')
  BY <1>1 DEF RoleOf, Crossed, Races, RemovalRaces, AcceptRaces, OwnerRaces
<1>4. InviteRead(x)'
  BY <1>1, <1>3 DEF Kept, InviteRead, Entered, Meets, At, Answered
<1>5. \A u : Offered(u)' = Offered(u) /\ RoleOf(u)' = RoleOf(u)
  BY <1>1 DEF Offered, ShownInvite, RoleOf
<1>6. OfferStands(x)'
  BY <1>1, <1>5 DEF Kept, OfferStands, Entered, At, Answered
<1> QED BY <1>2, <1>4, <1>6 DEF Kept

\* What the writes of a request of kind k change of what others may have read.
Changes(k) ==
  /\ crossed \subseteq crossed'
  /\ owner' # owner => k = "transfer"
  /\ \A u \in Users : /\ members[u] # None /\ members'[u] = None => k = "remove"
                      /\ members[u] # "admin" /\ members'[u] = "admin" => k \in {"transfer", "setRole"}
  /\ members[Invitee] = None /\ members'[Invitee] # None => k = "accept" \/ Crossed(Races)'
  /\ invite'.status = "accepted" => invite.status = "accepted" \/ k = "accept"
  /\ invite'.status = "pending" /\ ~invite'.due =>
       (invite.status = "pending" /\ ~invite.due) \/ k \in {"add", "resend"}
  /\ barred' # barred => k = "remove"
  /\ RoleOf(Invitee) # None => RoleOf(Invitee)' # None \/ k = "remove" \/ Crossed(Races)'

LEMMA MetKept ==
  ASSUME NEW x \in Requests, Types, Kept(x), ~Answered(x), NEW k \in Kinds,
         req'[x] = [req[x] EXCEPT !.met = @ \union {k}], Changes(k)
  PROVE  Kept(x)'
<1>1. /\ req'[x] = [ask |-> req[x].ask, offered |-> req[x].offered, todo |-> req[x].todo,
                    role |-> req[x].role, token |-> req[x].token, met |-> req[x].met \union {k},
                    verdict |-> req[x].verdict]
      /\ req[x] \in Request
  BY DEF Kept, Shape, Request
<1>2. /\ req'[x].ask = req[x].ask /\ req'[x].todo = req[x].todo /\ req'[x].role = req[x].role
      /\ req'[x].met = req[x].met \union {k} /\ req'[x].offered = req[x].offered
  BY <1>1
<1>3. Shape(x)'
  <2>1. req'[x] \in Request
    BY <1>1 DEF Request
  <2> QED BY <1>2, <2>1 DEF Kept, Shape, Answered
<1>4. \A K : Meets(x, K) => Meets(x, K)'
  BY <1>2 DEF Meets
<1>5. \A K : k \in K => Meets(x, K)'
  BY <1>2 DEF Meets
<1>6. (Crossed(Races) => Crossed(Races)') /\ (Crossed(RemovalRaces) => Crossed(RemovalRaces)')
  BY DEF Crossed, Races, RemovalRaces, AcceptRaces, OwnerRaces, Changes
<1>7. (Entered(x)' <=> Entered(x)) /\ \A s : At(x, s)' <=> At(x, s)
  BY <1>2 DEF Entered, At, Answered
<1>8. Invitee \in Users
  BY TeamInvitesAssumption
<1>9. RightsRead(x)'
  <2>1. At(x, "setOwner") \/ At(x, "deleteMember") \/ At(x, "updateRole") => req[x].ask.target \in Users
    BY Targeted DEF Kept
  <2> QED BY <1>2, <1>4, <1>5, <1>7, <2>1 DEF Kept, RightsRead, Changes
<1>10. InviteRead(x)'
  BY <1>2, <1>4, <1>5, <1>6, <1>7, <1>8 DEF Kept, InviteRead, Changes
<1>11. OfferStands(x)'
  BY <1>2 DEF OfferStands
<1> QED BY <1>3, <1>9, <1>10, <1>11 DEF Kept

-----------------------------------------------------------------------------
(* The steps *)

\* The action property about the page's offers, for one request.
OfferHolds(r) == req[r].offered /\ req[r].met = {} /\ req'[r].todo = <<>> => req'[r].verdict # "refused"

\* Answered requests promise nothing.
LEMMA AnsweredKept ==
  ASSUME NEW r \in Requests, req'[r] \in Request, req'[r].todo = <<>>, ~req'[r].offered
  PROVE  Kept(r)'
  BY DEF Kept, Shape, RightsRead, InviteRead, OfferStands, Answered, At, Entered

LEMMA IdleRequest ==
  /\ Idle \in Request /\ Idle.todo = <<>> /\ ~Idle.offered
  /\ \A r \in Requests, v \in {"ok", "refused", "mailFailed"} :
       /\ Ends(r, v) \in Request /\ Ends(r, v).todo = <<>> /\ ~Ends(r, v).offered /\ Ends(r, v).verdict = v
       /\ Refuses(r) \in Request /\ Refuses(r).todo = <<>> /\ ~Refuses(r).offered
       /\ Refuses(r).verdict = "refused"
<1>1. <<>> \in Lists
  BY DEF Lists
<1> QED BY <1>1 DEF Idle, Ends, Refuses, Request, Ask, Kinds, Roles

\* A step of request r that writes nothing keeps the invariant if r does.
LEMMA ReadStep ==
  ASSUME TeamInv, NEW r \in Requests, NEW q, Reads(r, q), Kept(r)'
  PROVE  TeamInv'
<1>1. /\ Types' /\ Quiet /\ \A x \in Requests \ {r} : req'[x] = req[x]
  BY DEF TeamInv, Types, Reads, Quiet
<1>2. \A x \in Requests : Kept(x)'
  BY <1>1, QuietKept DEF TeamInv
<1>3. InvitePart'
  BY DEF TeamInv, InvitePart, RoleOf, Crossed, Reads
<1> QED BY <1>1, <1>2, <1>3 DEF TeamInv

\* A step of request r that writes keeps what the others have read, if it changes only
\* what requests of its kind change.
LEMMA WriteStep ==
  ASSUME TeamInv, NEW r \in Requests, NEW q, Changes(req[r].ask.kind), ~Answered(r),
         req' = [x \in Requests |-> IF x = r THEN q
                                    ELSE IF Answered(x) THEN req[x]
                                    ELSE [req[x] EXCEPT !.met = @ \union {req[r].ask.kind}]],
         Types', InvitePart', Kept(r)'
  PROVE  TeamInv'
<1>1. ASSUME NEW x \in Requests, x # r PROVE Kept(x)'
  <2>1. CASE Answered(x)
    <3>1. req'[x] = req[x]
      BY <1>1, <2>1
    <3> QED BY <2>1, <3>1, AnsweredKept DEF TeamInv, Kept, Shape, Answered
  <2>2. CASE ~Answered(x)
    <3>1. req[r].ask.kind \in Kinds
      BY DEF TeamInv, Kept, Shape, Request
    <3>2. req'[x] = [req[x] EXCEPT !.met = @ \union {req[r].ask.kind}]
      BY <1>1, <2>2
    <3> QED BY <2>2, <3>1, <3>2, MetKept DEF TeamInv
  <2> QED BY <2>1, <2>2
<1> QED BY <1>1 DEF TeamInv

\* A request in flight that goes on, with the same call.
LEMMA MovedShape ==
  ASSUME NEW r \in Requests, Shape(r), ~Answered(r), NEW q \in Request, req'[r] = q,
         q.ask = req[r].ask, q.offered = req[r].offered,
         q.todo \in Todos(q.ask.kind)
  PROVE  Shape(r)' /\ ~Answered(r)'
<1>1. q.todo # <<>>
  BY Statements DEF Ordered, Request
<1> QED BY <1>1 DEF Shape, Answered

LEMMA SameOffers ==
  ASSUME UNCHANGED <<owner, members, invite>>
  PROVE  \A u : Offered(u)' = Offered(u) /\ RoleOf(u)' = RoleOf(u)
  BY DEF Offered, ShownInvite, RoleOf

\* Where a request has got to, for the parts of the invariant.
LEMMA NowAt ==
  ASSUME NEW r \in Requests, NEW q, req'[r] = q, q.todo # <<>>, NEW t, Head(q.todo) = t
  PROVE  /\ ~Answered(r)' /\ \A s : At(r, s)' <=> s = t
         /\ Entered(r)' <=> t \in {"findOwner", "findTarget", "deleteMember", "updateRole", "setOwner"}
         /\ \A K : Meets(r, K)' <=> q.met \intersect K # {}
  BY DEF Answered, At, Entered, Meets

LEMMA OwnedStep ==
  ASSUME TeamInv, NEW r \in Requests, Owned(r)
  PROVE  TeamInv'
<1> DEFINE kind == req[r].ask.kind
<1>1. /\ Kept(r) /\ Shape(r) /\ At(r, "owned") /\ ~Answered(r) /\ kind \in Managing /\ kind \in Kinds
      /\ Goes(r) \in Request /\ Goes(r).todo \in Todos(kind)
      /\ Goes(r).ask = req[r].ask /\ Goes(r).offered = req[r].offered /\ Goes(r).met = req[r].met
      /\ Goes(r).todo # <<>> /\ Head(Goes(r).todo) = "joined"
  BY Advance DEF Owned, At, TeamInv, Kept, KindsAt, After
<1>2. CASE req[r].ask.by = owner
  <2> DEFINE q == [Goes(r) EXCEPT !.role = "owner", !.todo = Tail(@)]
  <2>1. Reads(r, q) /\ req'[r] = q
    BY <1>2 DEF Owned, Reads, TeamInv, Types
  <2>2. /\ q \in [ask : {req[r].ask}, offered : BOOLEAN, todo : {Tail(Goes(r).todo)},
                  role : {"owner"}, token : Nat, met : {req[r].met}, verdict : {"ok", "refused", "mailFailed"}]
        /\ q.offered = req[r].offered
    BY <1>1 DEF Request
  <2>3. /\ Tail(Goes(r).todo) \in Todos(kind) /\ Tail(Goes(r).todo) # <<>>
        /\ Head(Tail(Goes(r).todo)) = First(kind)
    BY <1>1, Statements DEF Ordered, After, First, Managing
  <2>4. q \in Request
    BY <1>1, <2>2, <2>3 DEF Request, Lists, Shape, Roles
  <2> HIDE DEF q
  <2>5. Shape(r)'
    BY <1>1, <2>1, <2>2, <2>3, <2>4, MovedShape
  <2>6. /\ \A s : At(r, s)' <=> s = First(kind)
        /\ Entered(r)' <=> First(kind) \in {"findOwner", "findTarget", "deleteMember", "updateRole", "setOwner"}
    BY <2>1, <2>2, <2>3, NowAt
  <2>7. req'[r].ask = req[r].ask /\ req'[r].role = "owner" /\ req'[r].met = req[r].met /\ owner' = owner
    BY <2>1, <2>2 DEF Reads
  <2>8. RightsRead(r)'
    BY <1>1, <1>2, <2>6, <2>7 DEF RightsRead, First, Managing
  <2>9. InviteRead(r)'
    BY <1>1, <1>2, <2>6, <2>7 DEF InviteRead, First, Managing, RoleOf, None
  <2>10. OfferStands(r)'
    <3>1. /\ req[r].offered /\ req[r].met = {} => req[r].ask \in Offered(req[r].ask.by)
          /\ ~At(r, "mail")
      BY <1>1 DEF OfferStands, Kept, At
    <3>2. \A u : Offered(u)' = Offered(u) /\ RoleOf(u)' = RoleOf(u)
      BY <2>1, SameOffers DEF Reads
    <3>3. ~At(r, "joined")' /\ RoleOf(req[r].ask.by) = "owner" /\ req'[r].offered = req[r].offered
      BY <1>1, <1>2, <2>1, <2>2, <2>6 DEF First, Managing, RoleOf
    <3> QED BY <2>7, <3>1, <3>2, <3>3 DEF OfferStands
  <2> QED BY <2>1, <2>5, <2>8, <2>9, <2>10, ReadStep DEF Kept
<1>3. CASE req[r].ask.by # owner
  <2>1. Reads(r, Goes(r)) /\ req'[r] = Goes(r)
    BY <1>3 DEF Owned, Reads, TeamInv, Types
  <2>2. Shape(r)'
    BY <1>1, <2>1, MovedShape
  <2>3. (\A s : At(r, s)' <=> s = "joined") /\ ~Entered(r)'
    BY <1>1, <2>1, NowAt
  <2>4. RightsRead(r)' /\ InviteRead(r)'
    BY <2>3 DEF RightsRead, InviteRead
  <2>5. OfferStands(r)'
    BY <1>1, <1>3, <2>1, <2>3, SameOffers DEF OfferStands, Reads, Kept, At, Answered
  <2> QED BY <2>1, <2>2, <2>4, <2>5, ReadStep DEF Kept
<1> QED BY <1>2, <1>3

\* A request that goes on to its next statement.
LEMMA GoesOn ==
  ASSUME NEW r \in Requests, Shape(r), NEW s, At(r, s), After(req[r].ask.kind, s) # "end",
         NEW q \in Request, req'[r] = q, q.ask = req[r].ask, q.offered = req[r].offered,
         q.met = req[r].met, q.todo = Goes(r).todo
  PROVE  /\ Shape(r)' /\ \A x : At(r, x)' <=> x = After(req[r].ask.kind, s)
         /\ Entered(r)' <=> After(req[r].ask.kind, s) \in
                              {"findOwner", "findTarget", "deleteMember", "updateRole", "setOwner"}
         /\ \A K : Meets(r, K)' <=> Meets(r, K)
         /\ req'[r].ask = req[r].ask /\ req'[r].offered = req[r].offered /\ req'[r].met = req[r].met
<1>1. /\ Goes(r).todo \in Todos(req[r].ask.kind) /\ Goes(r).todo # <<>>
      /\ Head(Goes(r).todo) = After(req[r].ask.kind, s) /\ ~Answered(r)
  BY Advance DEF At
<1>2. Shape(r)'
  BY <1>1, MovedShape
<1> QED BY <1>1, <1>2, NowAt DEF Meets

LEMMA JoinedStep ==
  ASSUME TeamInv, NEW r \in Requests, Joined(r)
  PROVE  TeamInv' /\ OfferHolds(r)
<1> DEFINE kind == req[r].ask.kind
           by == req[r].ask.by
           role == members[by]
<1>1. /\ Kept(r) /\ Shape(r) /\ At(r, "joined") /\ ~Answered(r) /\ kind \in Managing /\ kind \in Kinds
      /\ Goes(r) \in Request /\ by \in Users
      /\ Goes(r).ask = req[r].ask /\ Goes(r).offered = req[r].offered /\ Goes(r).met = req[r].met
      /\ After(kind, "joined") = First(kind) /\ First(kind) # "end" /\ Goes(r).todo # <<>>
      /\ role \in {None, "admin", "member"}
  <2>1. Shape(r) /\ Kept(r) /\ At(r, "joined") /\ ~Answered(r) /\ by \in Users
    BY DEF TeamInv, Kept, Shape, At, Joined
  <2>2. kind \in Managing /\ After(kind, "joined") = First(kind) /\ First(kind) # "end"
    BY <2>1, Advance DEF KindsAt, After, First, Managing
  <2>3. role \in {None, "admin", "member"}
    BY <2>1 DEF TeamInv, Types
  <2> QED BY <2>1, <2>2, <2>3, Advance
<1>2. CASE Entitled(kind, role)
  <2> DEFINE q == [Goes(r) EXCEPT !.role = role]
  <2>1. Reads(r, q) /\ req'[r] = q
    <3>1. Reads(r, q)
      BY <1>2, Zenon DEF Joined
    <3> QED BY <3>1 DEF Reads, TeamInv, Types
  <2>2. /\ q \in Request /\ q.role = role /\ q.ask = req[r].ask /\ q.offered = req[r].offered
        /\ q.met = req[r].met /\ q.todo = Goes(r).todo
    BY <1>1 DEF Request, Roles
  <2> HIDE DEF q
  <2>3. /\ Shape(r)' /\ \A x : At(r, x)' <=> x = First(kind)
        /\ Entered(r)' <=> First(kind) \in {"findOwner", "findTarget", "deleteMember", "updateRole", "setOwner"}
        /\ req'[r].ask = req[r].ask /\ req'[r].offered = req[r].offered /\ req'[r].met = req[r].met
    BY <1>1, <2>1, <2>2, GoesOn
  <2>4. req'[r].role = role /\ kind # "transfer" /\ (Entered(r)' => role = "admin")
    BY <1>1, <1>2, <2>1, <2>2, <2>3 DEF None, Entitled, canManageMembers, First, Managing
  <2>5. RightsRead(r)' /\ InviteRead(r)'
    BY <1>1, <2>3, <2>4 DEF RightsRead, InviteRead, First, Managing
  <2>6. OfferStands(r)'
    <3>1. req[r].offered /\ req[r].met = {} => req[r].ask \in Offered(by) /\ by # owner
      BY <1>1 DEF OfferStands, Kept, At
    <3>2. \A u : Offered(u)' = Offered(u) /\ RoleOf(u)' = RoleOf(u)
      BY <2>1, SameOffers DEF Reads
    <3>3. ~At(r, "joined")'
      BY <1>1, <2>3 DEF First, Managing
    <3> QED BY <2>3, <2>4, <3>1, <3>2, <3>3 DEF OfferStands, RoleOf
  <2> QED BY <1>1, <2>1, <2>2, <2>3, <2>5, <2>6, ReadStep DEF Kept, OfferHolds
<1>3. CASE ~Entitled(kind, role)
  <2>1. Reads(r, Refuses(r)) /\ req'[r] = Refuses(r)
    BY <1>3 DEF Joined, Reads, TeamInv, Types
  <2>2. Kept(r)'
    BY <2>1, IdleRequest, AnsweredKept
  <2>3. ~(req[r].offered /\ req[r].met = {})
    <3> SUFFICES ASSUME req[r].offered, req[r].met = {} PROVE FALSE
      OBVIOUS
    <3>1. req[r].ask \in Offered(by) /\ RoleOf(by) = role
      BY <1>1 DEF OfferStands, Kept, At, RoleOf
    <3>2. canManageMembers(role) /\ role # "owner" /\ kind # "transfer" /\ kind # "team"
      BY <1>1, <3>1 DEF Offered, Ask, None
    <3> QED BY <1>3, <3>2 DEF Entitled
  <2> QED BY <2>1, <2>2, <2>3, ReadStep DEF OfferHolds
<1> QED BY <1>2, <1>3

LEMMA ReadEnds ==
  ASSUME TeamInv, NEW r \in Requests, NEW q \in Request, q.todo = <<>>, ~q.offered, Reads(r, q)
  PROVE  TeamInv' /\ req'[r] = q
<1>1. req'[r] = q
  BY DEF Reads, TeamInv, Types
<1> QED BY <1>1, AnsweredKept, ReadStep

Finding == {"findOwner", "findTarget", "memberOfEmail", "findById", "findByToken", "expireDue"}

\* A statement that reads and finds nothing to refuse leaves an offer as it stands.
LEMMA ReadGoesOn ==
  ASSUME TeamInv, NEW r \in Requests, NEW s \in Finding, At(r, s), After(req[r].ask.kind, s) # "end",
         Reads(r, Goes(r))
  PROVE  /\ Kept(r) /\ req'[r].todo # <<>> /\ Shape(r)' /\ OfferStands(r)'
         /\ req[r].ask.kind \in KindsAt(s) /\ \A x : At(r, x) <=> x = s
         /\ \A x : At(r, x)' <=> x = After(req[r].ask.kind, s)
         /\ req'[r].ask = req[r].ask /\ req'[r].role = req[r].role /\ (Entered(r)' => Entered(r))
         /\ req'[r].met = req[r].met
         /\ UNCHANGED <<owner, members, invite, barred, crossed>>
<1>1. /\ Kept(r) /\ Shape(r) /\ req[r].ask.kind \in KindsAt(s) /\ Goes(r) \in Request
      /\ Goes(r).todo # <<>> /\ \A x : At(r, x) <=> x = s
      /\ Goes(r).ask = req[r].ask /\ Goes(r).offered = req[r].offered /\ Goes(r).met = req[r].met
      /\ Goes(r).role = req[r].role
  BY Advance DEF TeamInv, Kept, At
<1>2. req'[r] = Goes(r) /\ UNCHANGED <<owner, members, invite, barred, crossed>>
  BY DEF Reads, TeamInv, Types
<1>3. /\ Shape(r)' /\ \A x : At(r, x)' <=> x = After(req[r].ask.kind, s)
      /\ Entered(r)' <=> After(req[r].ask.kind, s) \in
                           {"findOwner", "findTarget", "deleteMember", "updateRole", "setOwner"}
      /\ \A K : Meets(r, K)' <=> Meets(r, K)
      /\ req'[r].ask = req[r].ask /\ req'[r].offered = req[r].offered /\ req'[r].met = req[r].met
  BY <1>1, <1>2, GoesOn
<1>4. Entered(r)' => Entered(r)
  BY <1>1, <1>3 DEF Finding, After, Entered, At
<1>5. OfferStands(r)'
  <2>1. After(req[r].ask.kind, s) # "joined" /\ s # "mail"
    BY DEF Finding, After
  <2>2. req'[r].role = req[r].role /\ \A u : Offered(u)' = Offered(u) /\ RoleOf(u)' = RoleOf(u)
    BY <1>1, <1>2, SameOffers
  <2> QED BY <1>1, <1>3, <1>4, <2>1, <2>2 DEF Kept, OfferStands, Answered, At
<1> QED BY <1>1, <1>2, <1>3, <1>4, <1>5

\* What the offers of the page say of a request that has met nobody.
LEMMA OfferMeans ==
  ASSUME TeamInv, NEW r \in Requests, ~Answered(r), req[r].offered, req[r].met = {}, ~At(r, "mail")
  PROVE  LET ask == req[r].ask IN
         /\ ask.kind = "resend" => invite.status \in {"pending", "declined", "expired"}
         /\ ask.kind \in {"remove", "setRole", "transfer"} =>
              ask.target # owner /\ members[ask.target] \in {"admin", "member"}
         /\ ask.kind = "remove" => ask.role = None /\ (members[ask.target] = "admin" => RoleOf(ask.by) = "owner")
         /\ ask.kind = "setRole" => RoleOf(ask.by) = "owner"
         /\ ask.kind \in {"resend", "remove", "setRole", "transfer"}
<1>1. req[r].ask \in Offered(req[r].ask.by) /\ req[r].ask.kind \in {"resend", "remove", "setRole", "transfer"}
  BY DEF TeamInv, Kept, Shape, OfferStands
<1>2. /\ owner \in Users /\ invite.status \in {None, "pending", "accepted", "declined", "expired"}
  BY DEF TeamInv, Types
<1>3. ASSUME NEW u, RoleOf(u) \in {"admin", "member"} PROVE u # owner /\ members[u] = RoleOf(u)
  BY <1>3 DEF RoleOf
<1>4. ShownInvite \in {"pending", "declined", "expired"} => invite.status \in {"pending", "declined", "expired"}
  BY DEF ShownInvite, None
<1> DEFINE by == req[r].ask.by
           ask == req[r].ask
<1>5. CASE ask \in {Ask("resend", by, None, None, 0) : x \in {ShownInvite} \intersect {"pending", "declined", "expired"}}
  BY <1>4, <1>5 DEF Ask
<1>6. CASE ask \in {Ask("remove", by, m, None, 0) :
              m \in {v \in Users : \/ RoleOf(v) = "member"
                                   \/ RoleOf(v) = "admin" /\ canManageAdmins(RoleOf(by))}}
  BY <1>3, <1>6 DEF Ask, canManageAdmins
<1>7. CASE /\ RoleOf(by) = "owner"
           /\ ask \in {Ask("setRole", by, m, IF RoleOf(m) = "admin" THEN "member" ELSE "admin", 0) :
                    m \in {v \in Users : RoleOf(v) \in {"admin", "member"}}}
  BY <1>3, <1>7 DEF Ask
<1>8. CASE ask \in {Ask("transfer", by, m, None, 0) : m \in {v \in Users : RoleOf(v) \in {"admin", "member"}}}
  BY <1>3, <1>8 DEF Ask
<1> QED BY <1>1, <1>5, <1>6, <1>7, <1>8 DEF Offered

LEMMA FindOwnerStep ==
  ASSUME TeamInv, NEW r \in Requests, FindOwner(r)
  PROVE  TeamInv' /\ OfferHolds(r)
<1>1. At(r, "findOwner") /\ Shape(r) /\ ~Answered(r) /\ req[r].ask.kind \in {"remove", "setRole"}
  BY Advance DEF FindOwner, TeamInv, Kept, At, KindsAt
<1>2. CASE req[r].ask.target = owner
  <2>1. TeamInv' /\ req'[r] = Refuses(r)
    BY <1>2, IdleRequest, ReadEnds DEF FindOwner
  <2>2. ~(req[r].offered /\ req[r].met = {})
    BY <1>1, <1>2, OfferMeans DEF At
  <2> QED BY <2>1, <2>2 DEF OfferHolds
<1>3. CASE req[r].ask.target # owner
  <2>1. Reads(r, Goes(r)) /\ After(req[r].ask.kind, "findOwner") = "findTarget"
    BY <1>3 DEF FindOwner, After
  <2>2. /\ Kept(r) /\ req'[r].todo # <<>> /\ Shape(r)' /\ OfferStands(r)'
        /\ (\A x : At(r, x)' <=> x = "findTarget") /\ (Entered(r)' => Entered(r))
        /\ req'[r].ask = req[r].ask /\ req'[r].role = req[r].role
        /\ req'[r].met = req[r].met
        /\ UNCHANGED <<owner, members, invite, barred, crossed>>
    BY <1>1, <2>1, ReadGoesOn DEF Finding
  <2>3. RightsRead(r)'
    BY <2>2 DEF Kept, RightsRead, Meets
  <2>4. InviteRead(r)'
    BY <1>1, <1>3, <2>2 DEF InviteRead, Meets
  <2> QED BY <2>1, <2>2, <2>3, <2>4, ReadStep DEF Kept, OfferHolds
<1> QED BY <1>2, <1>3

LEMMA FindTargetStep ==
  ASSUME TeamInv, NEW r \in Requests, FindTarget(r)
  PROVE  TeamInv' /\ OfferHolds(r)
<1> DEFINE role == members[req[r].ask.target]
           refused == \/ role = None
                      \/ ~canManageAdmins(req[r].role) /\ (role = "admin" \/ req[r].ask.role = "admin")
<1>1. /\ At(r, "findTarget") /\ Kept(r) /\ Shape(r) /\ ~Answered(r) /\ Entered(r)
      /\ req[r].ask.kind \in {"remove", "setRole", "transfer"}
      /\ req[r].ask.target \in Users /\ role \in {None, "admin", "member"}
  <2>1. req[r].ask.target \in Users => role \in {None, "admin", "member"}
    BY DEF TeamInv, Types
  <2> QED BY <2>1, Advance, Targeted DEF FindTarget, TeamInv, Kept, At, KindsAt, Entered
<1>2. CASE refused
  <2>1. TeamInv' /\ req'[r] = Refuses(r)
    BY <1>2, IdleRequest, ReadEnds DEF FindTarget
  <2>2. ~(req[r].offered /\ req[r].met = {})
    <3> SUFFICES ASSUME req[r].offered, req[r].met = {} PROVE FALSE
      OBVIOUS
    <3>1. role # None
      BY <1>1, OfferMeans DEF At, None
    <3>2. req[r].role = RoleOf(req[r].ask.by) /\ (req[r].ask.kind = "transfer" => req[r].role = "owner")
      BY <1>1 DEF Kept, OfferStands, RightsRead
    <3>3. req[r].ask.kind = "setRole" => req[r].role = "owner"
      BY <1>1, <3>2, OfferMeans DEF At
    <3>4. req[r].ask.kind = "remove" => req[r].ask.role = None /\ (role = "admin" => req[r].role = "owner")
      BY <1>1, <3>2, OfferMeans DEF At
    <3> QED BY <1>1, <1>2, <3>1, <3>2, <3>3, <3>4 DEF canManageAdmins, None
  <2> QED BY <2>1, <2>2 DEF OfferHolds
<1>3. CASE ~refused
  <2> DEFINE next == After(req[r].ask.kind, "findTarget")
  <2>1. Reads(r, Goes(r))
    BY <1>3 DEF FindTarget
  <2>2. /\ next \in {"deleteMember", "updateRole", "setOwner"}
        /\ next = "deleteMember" => req[r].ask.kind = "remove"
    BY <1>1 DEF After
  <2>3. /\ req'[r].todo # <<>> /\ Shape(r)' /\ OfferStands(r)'
        /\ (\A x : At(r, x)' <=> x = next) /\ (Entered(r)' => Entered(r))
        /\ req'[r].ask = req[r].ask /\ req'[r].role = req[r].role
        /\ req'[r].met = req[r].met
        /\ UNCHANGED <<owner, members, invite, barred, crossed>>
    BY <1>1, <2>1, <2>2, ReadGoesOn DEF Finding
  <2>4. RightsRead(r)'
    BY <1>1, <1>3, <2>2, <2>3 DEF Kept, RightsRead, Meets, canManageAdmins
  <2>5. RoleOf(Invitee)' = RoleOf(Invitee) /\ (Crossed(Races)' <=> Crossed(Races))
    BY <2>3 DEF RoleOf, Crossed, Races, AcceptRaces, OwnerRaces
  <2>6. InviteRead(r)'
    BY <1>1, <2>2, <2>3, <2>5 DEF Kept, InviteRead, Meets
  <2> QED BY <2>1, <2>3, <2>4, <2>6, ReadStep DEF Kept, OfferHolds
<1> QED BY <1>2, <1>3

LEMMA MemberOfEmailStep ==
  ASSUME TeamInv, NEW r \in Requests, MemberOfEmail(r)
  PROVE  TeamInv' /\ OfferHolds(r)
<1>1. At(r, "memberOfEmail") /\ Shape(r) /\ req[r].ask.kind = "add" /\ ~req[r].offered
  BY Advance DEF MemberOfEmail, TeamInv, Kept, At, KindsAt, Shape
<1>2. CASE members[Invitee] # None
  BY <1>1, <1>2, IdleRequest, ReadEnds DEF MemberOfEmail, OfferHolds
<1>3. CASE members[Invitee] = None
  <2>1. Reads(r, Goes(r)) /\ After("add", "memberOfEmail") = "upsertInvite"
    BY <1>3 DEF MemberOfEmail, After
  <2>2. /\ req'[r].todo # <<>> /\ Shape(r)' /\ OfferStands(r)' /\ (Entered(r)' => Entered(r)) /\ ~Entered(r)
        /\ (\A x : At(r, x)' <=> x = "upsertInvite") /\ members' = members
    BY <1>1, <2>1, ReadGoesOn DEF Finding, Entered, At
  <2>3. RightsRead(r)' /\ InviteRead(r)'
    BY <1>3, <2>2 DEF RightsRead, InviteRead
  <2> QED BY <2>1, <2>2, <2>3, ReadStep DEF Kept, OfferHolds
<1> QED BY <1>2, <1>3

LEMMA FindByIdStep ==
  ASSUME TeamInv, NEW r \in Requests, FindById(r)
  PROVE  TeamInv' /\ OfferHolds(r)
<1>1. At(r, "findById") /\ Shape(r) /\ req[r].ask.kind = "resend" /\ ~Answered(r)
  BY Advance DEF FindById, TeamInv, Kept, At, KindsAt
<1>2. CASE invite.status \in {None, "accepted"}
  <2>1. TeamInv' /\ req'[r] = Refuses(r)
    BY <1>2, IdleRequest, ReadEnds DEF FindById
  <2>2. ~(req[r].offered /\ req[r].met = {})
    BY <1>1, <1>2, OfferMeans DEF At, None
  <2> QED BY <2>1, <2>2 DEF OfferHolds
<1>3. CASE invite.status \notin {None, "accepted"}
  <2>1. Reads(r, Goes(r)) /\ After("resend", "findById") = "renewInvite"
    BY <1>3 DEF FindById, After
  <2>2. /\ req'[r].todo # <<>> /\ Shape(r)' /\ OfferStands(r)' /\ (Entered(r)' => Entered(r)) /\ ~Entered(r)
        /\ (\A x : At(r, x)' <=> x = "renewInvite") /\ invite' = invite
    BY <1>1, <2>1, ReadGoesOn DEF Finding, Entered, At
  <2>3. RightsRead(r)' /\ InviteRead(r)'
    BY <1>3, <2>2 DEF RightsRead, InviteRead
  <2> QED BY <2>1, <2>2, <2>3, ReadStep DEF Kept, OfferHolds
<1> QED BY <1>2, <1>3

\* The same of the steps that are no plain reads: a request arrives, mails, or time passes.
LEMMA QuietStep ==
  ASSUME TeamInv, Quiet, Types', \A x \in Requests : req'[x] = req[x] \/ Kept(x)'
  PROVE  TeamInv'
<1>1. \A x \in Requests : Kept(x)'
  BY QuietKept DEF TeamInv
<1>2. invite'.status = invite.status /\ invite'.token = invite.token
  BY DEF Quiet, TeamInv, Types
<1>3. InvitePart'
  BY <1>2 DEF TeamInv, InvitePart, RoleOf, Crossed, Quiet
<1> QED BY <1>1, <1>3 DEF TeamInv

LEMMA Programs ==
  ASSUME NEW kind \in Kinds
  PROVE  /\ Program(kind) \in Todos(kind) /\ Program(kind) \in Lists
         /\ Head(Program(kind)) \in {"owned", "findByToken"} /\ Program(kind) # <<>>
<1>1. Program(kind) \in Todos(kind)
  BY DEF Kinds, Program, Todos
<1>2. Head(Program(kind)) \in {"owned", "findByToken"}
  BY DEF Kinds, Program
<1> QED BY <1>1, <1>2, Statements DEF Ordered, Lists

LEMMA NewRequest ==
  ASSUME NEW ask, NEW offered, NEW todo
  PROVE  [Idle EXCEPT !.ask = ask, !.offered = offered, !.todo = todo] \in
           [ask : {ask}, offered : {offered}, todo : {todo}, role : {None}, token : {0}, met : {{}},
            verdict : {"ok"}]
  BY DEF Idle

LEMMA StartStep ==
  ASSUME TeamInv, NEW r \in Requests, NEW ask \in Calls, Start(r, ask)
  PROVE  TeamInv'
<1>1. /\ ask \in [kind : Kinds, by : Users, target : Users \union {None}, role : {"admin", "member", None}, token : Nat]
      /\ ask.kind \in ByToken => ask.by = Invitee
      /\ ask.kind \in {"remove", "setRole", "transfer"} => ask.target \in Users
      /\ ask.kind \in {"remove", "transfer"} => ask.role = None
      /\ ask.kind = "setRole" => ask.role # None
  <2>1. Invitee \in Users /\ mailed \subseteq Nat
    BY TeamInvitesAssumption DEF TeamInv, Types
  <2>2. CASE ask \in {Ask(k, u, None, None, 0) : k \in {"add", "resend", "team"}, u \in Users}
    BY <2>2 DEF Ask, Kinds, ByToken
  <2>3. CASE ask \in {Ask(k, u, t, None, 0) : k \in {"remove", "transfer"}, u \in Users, t \in Users}
    BY <2>3 DEF Ask, Kinds, ByToken
  <2>4. CASE ask \in {Ask("setRole", u, t, x, 0) : u \in Users, t \in Users, x \in {"admin", "member"}}
    BY <2>4 DEF Ask, Kinds, ByToken, None
  <2>5. CASE ask \in {Ask(k, Invitee, None, None, t) : k \in {"accept", "decline", "lookup"}, t \in mailed}
    BY <2>1, <2>5 DEF Ask, Kinds, ByToken
  <2> QED BY <2>2, <2>3, <2>4, <2>5 DEF Calls
<1>10. PICK off \in BOOLEAN :
          /\ off <=> ask \in Offered(ask.by)
          /\ req'[r] = [Idle EXCEPT !.ask = ask, !.offered = off, !.todo = Program(ask.kind)]
  <2>1. req'[r] = [Idle EXCEPT !.ask = ask, !.offered = ask \in Offered(ask.by), !.todo = Program(ask.kind)]
    BY DEF Start, TeamInv, Types
  <2>2. (ask \in Offered(ask.by)) \in BOOLEAN
    OBVIOUS
  <2> QED BY <2>1, <2>2, Zenon
<1> DEFINE q == [Idle EXCEPT !.ask = ask, !.offered = off, !.todo = Program(ask.kind)]
<1>2. /\ req'[r] = q /\ Types' /\ Quiet /\ \A x \in Requests \ {r} : req'[x] = req[x]
      /\ UNCHANGED <<owner, members, invite>> /\ (ask.kind = "transfer" => ask.target # ask.by)
  BY <1>10 DEF Start, TeamInv, Types, Quiet
<1>3. q \in [ask : {ask}, offered : {off}, todo : {Program(ask.kind)}, role : {None},
             token : {0}, met : {{}}, verdict : {"ok"}]
  BY NewRequest, Zenon
<1> HIDE DEF q
<1>4. /\ q.ask = ask /\ (q.offered <=> ask \in Offered(ask.by)) /\ q.todo = Program(ask.kind) /\ q.met = {}
      /\ q \in Request
  BY <1>10, <1>1, <1>3, Programs DEF Request, Roles
<1>5. (\A s : At(r, s)' <=> s = Head(Program(ask.kind))) /\ ~Entered(r)' /\ ~Answered(r)'
  BY <1>1, <1>2, <1>4, Programs, NowAt
<1>6. ask \in Offered(ask.by) => ask.kind \in {"resend", "remove", "setRole", "transfer"}
  BY DEF Offered, Ask
<1>7. Shape(r)'
  BY <1>1, <1>2, <1>4, <1>5, <1>6, Programs DEF Shape
<1>8. RightsRead(r)' /\ InviteRead(r)'
  BY <1>1, <1>5, Programs DEF RightsRead, InviteRead
<1>9. OfferStands(r)'
  BY <1>1, <1>2, <1>4, <1>5, SameOffers, Programs DEF OfferStands
<1> QED BY <1>2, <1>7, <1>8, <1>9, QuietStep DEF Kept

LEMMA MailStep ==
  ASSUME TeamInv, NEW r \in Requests, Mail(r)
  PROVE  TeamInv' /\ OfferHolds(r)
<1>1. req[r].token \in Nat
  BY DEF TeamInv, Kept, Shape, Request
<1>2. /\ \E v \in {"ok", "mailFailed"} : req'[r] = Ends(r, v)
      /\ Quiet /\ \A x \in Requests \ {r} : req'[x] = req[x]
  BY DEF Mail, TeamInv, Types, Quiet
<1>3. Types'
  BY <1>1 DEF Mail, TeamInv, Types
<1>4. Kept(r)' /\ OfferHolds(r)
  BY <1>2, IdleRequest, AnsweredKept DEF OfferHolds
<1> QED BY <1>2, <1>3, <1>4, QuietStep

LEMMA LapseStep ==
  ASSUME TeamInv, Lapse
  PROVE  TeamInv' /\ \A r \in Requests : req'[r] = req[r]
<1>1. Quiet /\ req' = req
  BY DEF Lapse, Quiet
<1>2. Types'
  BY DEF Lapse, TeamInv, Types
<1> QED BY <1>1, <1>2, QuietStep

LEMMA FindByTokenStep ==
  ASSUME TeamInv, NEW r \in Requests, FindByToken(r)
  PROVE  TeamInv' /\ OfferHolds(r)
<1> DEFINE kind == req[r].ask.kind
           matches == invite.status = "pending" /\ invite.token = req[r].ask.token
<1>1. /\ At(r, "findByToken") /\ Shape(r) /\ kind \in ByToken /\ kind \in Kinds /\ ~req[r].offered /\ ~Answered(r)
      /\ req[r] \in Request
  BY Advance DEF FindByToken, TeamInv, Kept, At, KindsAt, Shape, ByToken
<1>2. CASE ~matches
  <2>1. Reads(r, Refuses(r))
    BY <1>2 DEF FindByToken
  <2> QED BY <1>1, <2>1, IdleRequest, ReadEnds DEF OfferHolds
<1>3. CASE matches /\ invite.due
  <2> DEFINE q == [req[r] EXCEPT !.todo = <<"expireById">>]
  <2>1. Reads(r, q) /\ req'[r] = q
    BY <1>3 DEF FindByToken, Reads, TeamInv, Types
  <2>2. <<"expireById">> \in Todos(kind) /\ <<"expireById">> \in Lists
    BY <1>1 DEF Todos, ByToken, Lists
  <2>3. q = [ask |-> req[r].ask, offered |-> req[r].offered, todo |-> <<"expireById">>, role |-> req[r].role,
             token |-> req[r].token, met |-> req[r].met, verdict |-> req[r].verdict]
    BY <1>1, WithTodo, Zenon
  <2> HIDE DEF q
  <2>4. /\ q \in Request /\ q.ask = req[r].ask /\ q.offered = req[r].offered /\ q.met = req[r].met
        /\ q.todo = <<"expireById">>
    BY <1>1, <2>2, <2>3 DEF Request
  <2>5. Shape(r)'
    BY <1>1, <2>1, <2>2, <2>4, MovedShape
  <2>6. (\A s : At(r, s)' <=> s = "expireById") /\ ~Entered(r)'
    BY <2>1, <2>4, NowAt
  <2>7. invite' = invite /\ ~req'[r].offered
    BY <1>1, <2>1, <2>4 DEF Reads
  <2>8. RightsRead(r)' /\ InviteRead(r)' /\ OfferStands(r)'
    BY <1>3, <2>6, <2>7 DEF RightsRead, InviteRead, OfferStands
  <2> QED BY <1>1, <2>1, <2>5, <2>8, ReadStep DEF Kept, OfferHolds
<1>4. CASE matches /\ ~invite.due /\ kind = "lookup"
  <2>1. Reads(r, Ends(r, "ok"))
    BY <1>4 DEF FindByToken
  <2> QED BY <1>1, <2>1, IdleRequest, ReadEnds DEF OfferHolds
<1>5. CASE matches /\ ~invite.due /\ kind # "lookup"
  <2> DEFINE next == After(kind, "findByToken")
  <2>1. Reads(r, Goes(r))
    BY <1>5 DEF FindByToken
  <2>2. next = (IF kind = "accept" THEN "join" ELSE "declineById")
    BY <1>1, <1>5 DEF After, ByToken
  <2>3. /\ req'[r].todo # <<>> /\ Shape(r)' /\ OfferStands(r)' /\ (Entered(r)' => Entered(r)) /\ ~Entered(r)
        /\ (\A x : At(r, x)' <=> x = next) /\ invite' = invite /\ barred' = barred /\ crossed' = crossed
        /\ req'[r].ask = req[r].ask
    BY <1>1, <2>1, <2>2, ReadGoesOn DEF Finding, Entered, At
  <2>4. invite.token \in barred => Crossed(RemovalRaces)
    BY <1>5 DEF TeamInv, InvitePart
  <2>5. Crossed(RemovalRaces)' <=> Crossed(RemovalRaces)
    BY <2>3 DEF Crossed, RemovalRaces, AcceptRaces, OwnerRaces
  <2>6. RightsRead(r)' /\ InviteRead(r)'
    BY <1>5, <2>2, <2>3, <2>4, <2>5 DEF RightsRead, InviteRead
  <2> QED BY <1>1, <2>1, <2>3, <2>6, ReadStep DEF Kept, OfferHolds
<1> QED BY <1>2, <1>3, <1>4, <1>5

-----------------------------------------------------------------------------
(* The writes: what they change, and whom they have crossed *)

\* A request that writes after meeting one of another kind is in the history.
LEMMA Crossing ==
  ASSUME TeamInv, NEW r \in Requests, NEW kind, kind = req[r].ask.kind,
         crossed' = crossed \union {<<kind, met>> : met \in req[r].met}
  PROVE  /\ crossed \subseteq crossed' /\ crossed' \subseteq Kinds \X Kinds
         /\ \A K : Crossed(K) => Crossed(K)'
         /\ \A K, m : <<kind, m>> \in K /\ m \in req[r].met => Crossed(K)'
<1>1. kind \in Kinds /\ req[r].met \subseteq Kinds /\ crossed \subseteq Kinds \X Kinds
  BY DEF TeamInv, Types, Kept, Shape, Request
<1>2. \A m \in req[r].met : <<kind, m>> \in crossed'
  OBVIOUS
<1> QED BY <1>1, <1>2 DEF Crossed

LEMMA IssueTokenStep ==
  ASSUME TeamInv, NEW r \in Requests, IssueToken(r)
  PROVE  TeamInv' /\ OfferHolds(r)
<1> DEFINE kind == req[r].ask.kind
           q == [Goes(r) EXCEPT !.token = drawn + 1]
<1>1. PICK s \in {"upsertInvite", "renewInvite"} : At(r, s)
  BY DEF IssueToken
<1>2. /\ Kept(r) /\ Shape(r) /\ ~Answered(r) /\ Goes(r) \in Request /\ (\A x : At(r, x) <=> x = s)
      /\ kind = (IF s = "upsertInvite" THEN "add" ELSE "resend") /\ kind \in Kinds
      /\ Goes(r).ask = req[r].ask /\ Goes(r).offered = req[r].offered /\ Goes(r).met = req[r].met
      /\ Goes(r).todo # <<>>
  <2>1. Shape(r) /\ Kept(r) /\ ~Answered(r) /\ \A x : At(r, x) <=> x = s
    BY <1>1 DEF TeamInv, Kept, At
  <2>2. After(kind, s) # "end"
    BY DEF After
  <2> QED BY <1>1, <2>1, <2>2, Advance DEF KindsAt
<1>3. /\ req' = [x \in Requests |-> IF x = r THEN q
                                    ELSE IF Answered(x) THEN req[x] ELSE [req[x] EXCEPT !.met = @ \union {kind}]]
      /\ crossed' = crossed \union {<<kind, met>> : met \in req[r].met}
      /\ invite' = [status |-> "pending", token |-> drawn + 1, due |-> FALSE] /\ drawn' = drawn + 1
      /\ UNCHANGED <<owner, members, mailed, barred>>
  BY DEF IssueToken
<1>4. /\ crossed \subseteq crossed' /\ crossed' \subseteq Kinds \X Kinds
      /\ \A K : Crossed(K) => Crossed(K)'
      /\ \A K, m : <<kind, m>> \in K /\ m \in req[r].met => Crossed(K)'
  BY <1>3, Crossing
<1>5. /\ q \in Request /\ q.ask = req[r].ask /\ q.offered = req[r].offered /\ q.met = req[r].met
      /\ q.todo = Goes(r).todo /\ req'[r] = q
  BY <1>2, <1>3 DEF Request, TeamInv, Types
<1> HIDE DEF q
<1>6. Changes(kind)
  BY <1>2, <1>3, <1>4 DEF Changes, RoleOf
<1>7. Types'
  BY <1>3, <1>4 DEF TeamInv, Types
<1>8. Kept(r)'
  <2>1. After(kind, s) = "mail"
    BY DEF After
  <2>2. Shape(r)' /\ (\A x : At(r, x)' <=> x = "mail") /\ ~Entered(r)'
    BY <1>1, <1>2, <1>5, <2>1, GoesOn
  <2> QED BY <2>2 DEF Kept, RightsRead, InviteRead, OfferStands
<1>9. RoleOf(Invitee) # None => Crossed(Races)'
  <2>1. <<kind, "accept">> \in Races
    BY <1>2 DEF Races, AcceptRaces
  <2>2. CASE s = "upsertInvite"
    <3>1. members[Invitee] = None \/ Meets(r, {"accept"}) \/ Crossed(Races)
      BY <1>2, <2>2 DEF Kept, InviteRead
    <3>2. members[Invitee] = None /\ RoleOf(Invitee) # None => Crossed(Races)
      BY DEF TeamInv, InvitePart, RoleOf
    <3> QED BY <1>4, <2>1, <3>1, <3>2 DEF Meets
  <2>3. CASE s = "renewInvite"
    <3>1. invite.status # "accepted" \/ Meets(r, {"accept"})
      BY <1>2, <2>3 DEF Kept, InviteRead
    <3> QED BY <1>4, <2>1, <3>1 DEF Meets, TeamInv, InvitePart
  <2> QED BY <2>2, <2>3
<1>10. InvitePart'
  <2>1. RoleOf(Invitee)' = RoleOf(Invitee) /\ invite'.token \notin barred
    BY <1>3 DEF RoleOf, TeamInv, Types
  <2> QED BY <1>3, <1>4, <1>9, <2>1 DEF TeamInv, InvitePart
<1>11. OfferHolds(r)
  BY <1>2, <1>5 DEF OfferHolds
<1> QED BY <1>2, <1>3, <1>6, <1>7, <1>8, <1>10, <1>11, WriteStep

LEMMA WriteFacts ==
  ASSUME TeamInv, NEW r \in Requests, NEW s, At(r, s), NEW q, Writes(r, q)
  PROVE  LET kind == req[r].ask.kind IN
         /\ Kept(r) /\ Shape(r) /\ ~Answered(r) /\ kind \in Kinds /\ kind \in KindsAt(s)
         /\ \A x : At(r, x) <=> x = s
         /\ req' = [x \in Requests |-> IF x = r THEN q
                                       ELSE IF Answered(x) THEN req[x]
                                       ELSE [req[x] EXCEPT !.met = @ \union {kind}]]
         /\ req'[r] = q /\ drawn' = drawn /\ mailed' = mailed
         /\ crossed \subseteq crossed' /\ crossed' \subseteq Kinds \X Kinds
         /\ \A K : Crossed(K) => Crossed(K)'
         /\ \A K, m : <<kind, m>> \in K /\ m \in req[r].met => Crossed(K)'
<1> DEFINE kind == req[r].ask.kind
<1>1. /\ Kept(r) /\ Shape(r) /\ ~Answered(r) /\ \A x : At(r, x) <=> x = s
  BY DEF TeamInv, Kept, At
<1>2. kind \in Kinds /\ kind \in KindsAt(s)
  BY <1>1, Advance
<1>3. /\ req' = [x \in Requests |-> IF x = r THEN q
                                    ELSE IF Answered(x) THEN req[x] ELSE [req[x] EXCEPT !.met = @ \union {kind}]]
      /\ crossed' = crossed \union {<<kind, met>> : met \in req[r].met}
      /\ drawn' = drawn /\ mailed' = mailed
  BY DEF Writes
<1>4. req'[r] = q
  BY <1>3
<1>5. /\ crossed \subseteq crossed' /\ crossed' \subseteq Kinds \X Kinds
      /\ \A K : Crossed(K) => Crossed(K)'
      /\ \A K, m : <<kind, m>> \in K /\ m \in req[r].met => Crossed(K)'
  BY <1>3, Crossing
<1> QED BY <1>1, <1>2, <1>3, <1>4, <1>5

LEMMA ExpireDueStep ==
  ASSUME TeamInv, NEW r \in Requests, ExpireDue(r)
  PROVE  TeamInv' /\ OfferHolds(r)
<1> DEFINE kind == req[r].ask.kind
           next == After(kind, "expireDue")
<1>1. /\ At(r, "expireDue") /\ Shape(r) /\ kind \in {"add", "team"} /\ ~req[r].offered /\ Goes(r) \in Request
      /\ Goes(r).ask = req[r].ask /\ Goes(r).offered = req[r].offered /\ Goes(r).met = req[r].met
      /\ ~Answered(r)
  BY Advance DEF ExpireDue, TeamInv, Kept, At, KindsAt, Shape
<1>2. next = (IF kind = "add" THEN "memberOfEmail" ELSE "end")
  BY DEF After
<1>3. ASSUME req'[r] = Goes(r) PROVE Kept(r)'
  <2>1. CASE kind = "add"
    <3>1. Shape(r)' /\ (\A x : At(r, x)' <=> x = "memberOfEmail") /\ ~Entered(r)' /\ ~req'[r].offered
      BY <1>1, <1>2, <1>3, <2>1, GoesOn
    <3> QED BY <3>1 DEF Kept, RightsRead, InviteRead, OfferStands
  <2>2. CASE kind = "team"
    <3>1. Goes(r).todo = <<>>
      BY <1>1, <1>2, <2>2, Advance
    <3> QED BY <1>1, <1>3, <3>1, AnsweredKept
  <2> QED BY <1>1, <2>1, <2>2
<1>4. CASE invite.status = "pending" /\ invite.due
  <2>1. invite' = [invite EXCEPT !.status = "expired"] /\ Writes(r, Goes(r)) /\ UNCHANGED <<owner, members, barred>>
    BY <1>4 DEF ExpireDue
  <2>2. /\ req' = [x \in Requests |-> IF x = r THEN Goes(r)
                                      ELSE IF Answered(x) THEN req[x] ELSE [req[x] EXCEPT !.met = @ \union {kind}]]
        /\ req'[r] = Goes(r) /\ drawn' = drawn /\ mailed' = mailed
        /\ crossed \subseteq crossed' /\ crossed' \subseteq Kinds \X Kinds
        /\ \A K : Crossed(K) => Crossed(K)'
    BY <1>1, <2>1, WriteFacts
  <2>3. Types' /\ invite'.status = "expired"
    BY <2>1, <2>2 DEF TeamInv, Types
  <2>4. Changes(kind)
    BY <2>1, <2>2, <2>3 DEF Changes, RoleOf
  <2>5. InvitePart'
    BY <1>4, <2>1, <2>2, <2>3 DEF TeamInv, InvitePart, RoleOf
  <2> QED BY <1>1, <1>3, <2>2, <2>3, <2>4, <2>5, WriteStep DEF OfferHolds
<1>5. CASE ~(invite.status = "pending" /\ invite.due)
  <2>1. Reads(r, Goes(r)) /\ req'[r] = Goes(r)
    BY <1>5 DEF ExpireDue, Reads, TeamInv, Types
  <2> QED BY <1>1, <1>3, <2>1, ReadStep DEF OfferHolds
<1> QED BY <1>4, <1>5

LEMMA ExpireByIdStep ==
  ASSUME TeamInv, NEW r \in Requests, ExpireById(r)
  PROVE  /\ TeamInv' /\ OfferHolds(r)
         /\ invite.status = "pending" /\ ~invite.due =>
              \E pair \in crossed' : pair[1] \in {"accept", "decline", "lookup"} /\ pair[2] \in {"add", "resend"}
<1> DEFINE kind == req[r].ask.kind
<1>1. /\ At(r, "expireById") /\ invite' = [invite EXCEPT !.status = "expired"] /\ Writes(r, Refuses(r))
      /\ UNCHANGED <<owner, members, barred>>
  BY DEF ExpireById
<1>2. /\ Kept(r) /\ Shape(r) /\ ~Answered(r) /\ kind \in Kinds /\ kind \in KindsAt("expireById")
      /\ req' = [x \in Requests |-> IF x = r THEN Refuses(r)
                                    ELSE IF Answered(x) THEN req[x] ELSE [req[x] EXCEPT !.met = @ \union {kind}]]
      /\ req'[r] = Refuses(r) /\ drawn' = drawn /\ mailed' = mailed
      /\ crossed \subseteq crossed' /\ crossed' \subseteq Kinds \X Kinds
      /\ \A K : Crossed(K) => Crossed(K)'
      /\ \A K, m : <<kind, m>> \in K /\ m \in req[r].met => Crossed(K)'
  BY <1>1, WriteFacts
<1>3. kind \in ByToken /\ ~req[r].offered
  BY <1>2 DEF KindsAt, Shape, ByToken
<1>4. Types' /\ invite'.status = "expired"
  BY <1>1, <1>2 DEF TeamInv, Types
<1>5. Changes(kind)
  BY <1>1, <1>2, <1>4 DEF Changes, RoleOf
<1>6. Kept(r)' /\ OfferHolds(r)
  BY <1>2, <1>3, IdleRequest, AnsweredKept DEF OfferHolds
<1>7. InvitePart'
  <2>1. invite.status # "accepted" \/ Meets(r, {"accept"})
    BY <1>1, <1>2 DEF Kept, InviteRead
  <2>2. <<kind, "accept">> \in Races
    BY <1>3 DEF Races, AcceptRaces, ByToken
  <2> QED BY <1>1, <1>2, <1>4, <2>1, <2>2 DEF TeamInv, InvitePart, RoleOf, Meets
<1>8. ASSUME invite.status = "pending", ~invite.due
      PROVE \E pair \in crossed' : pair[1] \in {"accept", "decline", "lookup"} /\ pair[2] \in {"add", "resend"}
  <2>1. PICK m \in req[r].met : m \in {"add", "resend"}
    BY <1>1, <1>2, <1>8 DEF Kept, InviteRead, Meets
  <2>2. <<kind, m>> \in crossed'
    BY <1>1, <2>1 DEF Writes
  <2> QED BY <1>3, <2>1, <2>2 DEF ByToken
<1> QED BY <1>2, <1>4, <1>5, <1>6, <1>7, <1>8, WriteStep

LEMMA JoinStep ==
  ASSUME TeamInv, NEW r \in Requests, Join(r)
  PROVE  /\ TeamInv' /\ OfferHolds(r)
         /\ req[r].ask.token \notin barred \/ Crossed(RemovalRaces)'
<1> DEFINE kind == req[r].ask.kind
<1>1. /\ At(r, "join") /\ members' = [members EXCEPT ![req[r].ask.by] = "member"]
      /\ invite' = [invite EXCEPT !.status = "accepted", !.token = 0]
      /\ Writes(r, Ends(r, "ok")) /\ owner' = owner /\ barred' = barred
  BY DEF Join
<1>2. /\ Kept(r) /\ Shape(r) /\ ~Answered(r) /\ kind \in Kinds /\ kind \in KindsAt("join")
      /\ req' = [x \in Requests |-> IF x = r THEN Ends(r, "ok")
                                    ELSE IF Answered(x) THEN req[x] ELSE [req[x] EXCEPT !.met = @ \union {kind}]]
      /\ req'[r] = Ends(r, "ok") /\ drawn' = drawn /\ mailed' = mailed
      /\ crossed \subseteq crossed' /\ crossed' \subseteq Kinds \X Kinds
      /\ \A K : Crossed(K) => Crossed(K)'
      /\ \A K, m : <<kind, m>> \in K /\ m \in req[r].met => Crossed(K)'
  BY <1>1, WriteFacts
<1>3. kind = "accept" /\ req[r].ask.by = Invitee /\ Invitee \in Users
  BY <1>2, TeamInvitesAssumption DEF KindsAt, Shape, ByToken
<1>4. /\ Types' /\ invite'.status = "accepted"
      /\ \A u \in Users : members'[u] = IF u = Invitee THEN "member" ELSE members[u]
  BY <1>1, <1>2, <1>3 DEF TeamInv, Types
<1>5. RoleOf(Invitee)' # None
  BY <1>1, <1>3, <1>4 DEF RoleOf, None
<1>6. Changes(kind)
  BY <1>1, <1>2, <1>3, <1>4, <1>5 DEF Changes, None
<1>7. InvitePart'
  BY <1>3, <1>4 DEF InvitePart, None
<1>8. Kept(r)' /\ OfferHolds(r)
  BY <1>2, IdleRequest, AnsweredKept DEF OfferHolds
<1>9. ASSUME req[r].ask.token \in barred PROVE Crossed(RemovalRaces)'
  <2>1. Crossed(RemovalRaces) \/ Meets(r, {"remove"})
    BY <1>1, <1>2, <1>9 DEF Kept, InviteRead
  <2>2. <<kind, "remove">> \in RemovalRaces
    BY <1>3 DEF RemovalRaces
  <2> QED BY <1>2, <2>1, <2>2 DEF Meets
<1> QED BY <1>2, <1>4, <1>6, <1>7, <1>8, <1>9, WriteStep

LEMMA DeclineByIdStep ==
  ASSUME TeamInv, NEW r \in Requests, DeclineById(r)
  PROVE  TeamInv' /\ OfferHolds(r)
<1> DEFINE kind == req[r].ask.kind
<1>1. /\ At(r, "declineById") /\ invite' = [invite EXCEPT !.status = "declined", !.token = 0]
      /\ Writes(r, Ends(r, "ok")) /\ UNCHANGED <<owner, members, barred>>
  BY DEF DeclineById
<1>2. /\ Kept(r) /\ Shape(r) /\ ~Answered(r) /\ kind \in Kinds /\ kind \in KindsAt("declineById")
      /\ req' = [x \in Requests |-> IF x = r THEN Ends(r, "ok")
                                    ELSE IF Answered(x) THEN req[x] ELSE [req[x] EXCEPT !.met = @ \union {kind}]]
      /\ req'[r] = Ends(r, "ok") /\ drawn' = drawn /\ mailed' = mailed
      /\ crossed \subseteq crossed' /\ crossed' \subseteq Kinds \X Kinds
      /\ \A K : Crossed(K) => Crossed(K)'
      /\ \A K, m : <<kind, m>> \in K /\ m \in req[r].met => Crossed(K)'
  BY <1>1, WriteFacts
<1>3. Types' /\ invite'.status = "declined"
  BY <1>1, <1>2 DEF TeamInv, Types
<1>4. Changes(kind)
  BY <1>1, <1>2, <1>3 DEF Changes, RoleOf
<1>5. InvitePart'
  <2>1. invite.status # "accepted" \/ Meets(r, {"accept"})
    BY <1>1, <1>2 DEF Kept, InviteRead
  <2>2. <<kind, "accept">> \in Races
    BY <1>2 DEF Races, AcceptRaces, KindsAt
  <2> QED BY <1>1, <1>2, <1>3, <2>1, <2>2 DEF TeamInv, InvitePart, RoleOf, Meets
<1>6. Kept(r)' /\ OfferHolds(r)
  BY <1>2, IdleRequest, AnsweredKept DEF OfferHolds
<1> QED BY <1>2, <1>3, <1>4, <1>5, <1>6, WriteStep

LEMMA DeleteMemberStep ==
  ASSUME TeamInv, NEW r \in Requests, DeleteMember(r)
  PROVE  /\ TeamInv' /\ OfferHolds(r)
         /\ members[req[r].ask.target] = "admin" =>
              req[r].ask.by = owner \/ req[r].met \intersect {"transfer", "setRole"} # {}
<1> DEFINE kind == req[r].ask.kind
           to == req[r].ask.target
<1>1. /\ At(r, "deleteMember") /\ members' = [members EXCEPT ![to] = None]
      /\ barred' = (IF to = Invitee /\ members[Invitee] # None THEN 1..drawn ELSE barred)
      /\ Writes(r, Ends(r, "ok")) /\ owner' = owner /\ invite' = invite
  BY DEF DeleteMember
<1>2. /\ Kept(r) /\ Shape(r) /\ ~Answered(r) /\ kind \in Kinds /\ kind \in KindsAt("deleteMember")
      /\ req' = [x \in Requests |-> IF x = r THEN Ends(r, "ok")
                                    ELSE IF Answered(x) THEN req[x] ELSE [req[x] EXCEPT !.met = @ \union {kind}]]
      /\ req'[r] = Ends(r, "ok") /\ drawn' = drawn /\ mailed' = mailed
      /\ crossed \subseteq crossed' /\ crossed' \subseteq Kinds \X Kinds
      /\ \A K : Crossed(K) => Crossed(K)'
      /\ \A K, m : <<kind, m>> \in K /\ m \in req[r].met => Crossed(K)'
  BY <1>1, WriteFacts
<1>3. kind = "remove" /\ to \in Users /\ Invitee \in Users
  BY <1>2, TeamInvitesAssumption DEF KindsAt, Shape
<1>4. /\ Types' /\ \A u \in Users : members'[u] = IF u = to THEN None ELSE members[u]
  BY <1>1, <1>2, <1>3 DEF TeamInv, Types
<1>5. owner = Invitee /\ to = Invitee => Crossed(Races)'
  <2>1. to = Invitee => owner # Invitee \/ Meets(r, {"transfer"})
    BY <1>1, <1>2, <1>3 DEF Kept, InviteRead
  <2>2. <<kind, "transfer">> \in Races
    BY <1>3 DEF Races, OwnerRaces
  <2> QED BY <1>2, <2>1, <2>2 DEF Meets
<1>6. Changes(kind)
  BY <1>1, <1>2, <1>3, <1>4, <1>5 DEF Changes, None
<1>7. \A K : K \subseteq Races /\ Crossed(K)' => Crossed(RemovalRaces)'
  BY DEF Crossed, Races, RemovalRaces
<1>8. InvitePart'
  <2>1. RoleOf(Invitee)' # None => RoleOf(Invitee) # None
    BY <1>1, <1>3, <1>4 DEF RoleOf
  <2>2. invite.status = "pending" /\ to = Invitee /\ members[Invitee] # None => Crossed(Races)
    BY DEF TeamInv, InvitePart, RoleOf, None
  <2>3. (owner = Invitee /\ members'[Invitee] = None) => Crossed(Races)'
    BY <1>2, <1>3, <1>4, <1>5 DEF TeamInv, InvitePart
  <2>4. Crossed(Races)' => Crossed(RemovalRaces)'
    BY <1>7
  <2> QED BY <1>1, <1>2, <2>1, <2>2, <2>3, <2>4 DEF TeamInv, InvitePart
<1>9. Kept(r)' /\ OfferHolds(r)
  BY <1>2, IdleRequest, AnsweredKept DEF OfferHolds
<1>10. members[to] = "admin" => req[r].ask.by = owner \/ req[r].met \intersect {"transfer", "setRole"} # {}
  BY <1>1, <1>2 DEF Kept, RightsRead, Entered, Meets, At
<1> QED BY <1>2, <1>4, <1>6, <1>8, <1>9, <1>10, WriteStep

LEMMA UpdateRoleStep ==
  ASSUME TeamInv, NEW r \in Requests, UpdateRole(r)
  PROVE  /\ TeamInv' /\ OfferHolds(r)
         /\ "admin" \in {members[req[r].ask.target], members'[req[r].ask.target]} =>
              req[r].ask.by = owner \/ req[r].met \intersect {"transfer", "setRole"} # {}
<1> DEFINE kind == req[r].ask.kind
           to == req[r].ask.target
<1>1. /\ At(r, "updateRole") /\ members' = [members EXCEPT ![to] = IF @ = None THEN None ELSE req[r].ask.role]
      /\ Writes(r, Ends(r, "ok")) /\ owner' = owner /\ invite' = invite /\ barred' = barred
  BY DEF UpdateRole
<1>2. /\ Kept(r) /\ Shape(r) /\ ~Answered(r) /\ kind \in Kinds /\ kind \in KindsAt("updateRole")
      /\ req' = [x \in Requests |-> IF x = r THEN Ends(r, "ok")
                                    ELSE IF Answered(x) THEN req[x] ELSE [req[x] EXCEPT !.met = @ \union {kind}]]
      /\ req'[r] = Ends(r, "ok") /\ drawn' = drawn /\ mailed' = mailed
      /\ crossed \subseteq crossed' /\ crossed' \subseteq Kinds \X Kinds
      /\ \A K : Crossed(K) => Crossed(K)'
  BY <1>1, WriteFacts
<1>3. kind = "setRole" /\ to \in Users /\ Invitee \in Users /\ req[r].ask.role \in {"admin", "member"}
  BY <1>2, TeamInvitesAssumption DEF KindsAt, Shape, Request
<1>4. /\ Types'
      /\ \A u \in Users : members'[u] = IF u = to /\ members[u] # None THEN req[r].ask.role ELSE members[u]
  BY <1>1, <1>2, <1>3 DEF TeamInv, Types
<1>5. \A u \in Users : members[u] = None <=> members'[u] = None
  BY <1>3, <1>4 DEF None
<1>6. RoleOf(Invitee) = None <=> RoleOf(Invitee)' = None
  BY <1>1, <1>3, <1>5 DEF RoleOf, None
<1>7. Changes(kind)
  BY <1>1, <1>2, <1>3, <1>5, <1>6 DEF Changes
<1>8. InvitePart'
  BY <1>1, <1>2, <1>3, <1>5, <1>6 DEF TeamInv, InvitePart
<1>9. Kept(r)' /\ OfferHolds(r)
  BY <1>2, IdleRequest, AnsweredKept DEF OfferHolds
<1>10. ASSUME "admin" \in {members[to], members'[to]}
       PROVE  req[r].ask.by = owner \/ req[r].met \intersect {"transfer", "setRole"} # {}
  <2>1. CASE req[r].role = "owner"
    BY <1>1, <1>2, <2>1 DEF Kept, RightsRead, Entered, Meets, At
  <2>2. CASE req[r].role # "owner"
    BY <1>1, <1>2, <1>3, <1>4, <1>10, <2>2 DEF Kept, RightsRead, Meets
  <2> QED BY <2>1, <2>2
<1> QED BY <1>2, <1>4, <1>7, <1>8, <1>9, <1>10, WriteStep

LEMMA SetOwnerStep ==
  ASSUME TeamInv, NEW r \in Requests, SetOwner(r)
  PROVE  /\ TeamInv' /\ OfferHolds(r)
         /\ \/ req[r].ask.by = owner /\ members[req[r].ask.target] # None
            \/ req[r].met \intersect {"transfer", "remove"} # {}
<1> DEFINE kind == req[r].ask.kind
           by == req[r].ask.by
           to == req[r].ask.target
<1>1. /\ At(r, "setOwner") /\ owner' = to
      /\ members' = [members EXCEPT ![by] = "admin", ![to] = IF @ = None THEN None ELSE "member"]
      /\ Writes(r, Ends(r, "ok")) /\ invite' = invite /\ barred' = barred
  BY DEF SetOwner
<1>2. /\ Kept(r) /\ Shape(r) /\ ~Answered(r) /\ kind \in Kinds /\ kind \in KindsAt("setOwner")
      /\ req' = [x \in Requests |-> IF x = r THEN Ends(r, "ok")
                                    ELSE IF Answered(x) THEN req[x] ELSE [req[x] EXCEPT !.met = @ \union {kind}]]
      /\ req'[r] = Ends(r, "ok") /\ drawn' = drawn /\ mailed' = mailed
      /\ crossed \subseteq crossed' /\ crossed' \subseteq Kinds \X Kinds
      /\ \A K : Crossed(K) => Crossed(K)'
      /\ \A K, m : <<kind, m>> \in K /\ m \in req[r].met => Crossed(K)'
  BY <1>1, WriteFacts
<1>3. /\ kind = "transfer" /\ by \in Users /\ to \in Users /\ by # to /\ Invitee \in Users
      /\ <<kind, "remove">> \in Races
  BY <1>2, TeamInvitesAssumption DEF KindsAt, Shape, Races, OwnerRaces
<1>4. /\ Types'
      /\ \A u \in Users : members'[u] = IF u = by THEN "admin"
                                        ELSE IF u = to /\ members[u] # None THEN "member" ELSE members[u]
  BY <1>1, <1>2, <1>3 DEF TeamInv, Types
<1>5. \A u \in Users : u # by => (members[u] = None <=> members'[u] = None)
  BY <1>4 DEF None
<1>6. members[to] = None => Crossed(Races)' /\ Meets(r, {"remove"})
  <2>1. members[to] # None \/ Meets(r, {"remove"})
    BY <1>1, <1>2 DEF Kept, RightsRead
  <2> QED BY <1>2, <1>3, <2>1 DEF Meets
<1>7. by = Invitee => RoleOf(Invitee) # None \/ Crossed(Races)'
  <2>1. by = Invitee => RoleOf(Invitee) # None \/ Meets(r, {"remove"}) \/ Crossed(Races)
    BY <1>1, <1>2, <1>3 DEF Kept, InviteRead, Entered, At
  <2> QED BY <1>2, <1>3, <2>1 DEF Meets
<1>8. RoleOf(Invitee) # None => RoleOf(Invitee)' # None \/ Crossed(Races)'
  <2>1. CASE members[Invitee] # None
    BY <1>3, <1>4, <1>5, <2>1 DEF RoleOf, None
  <2>2. CASE members[Invitee] = None
    <3>1. RoleOf(Invitee) # None => Crossed(Races)
      BY <2>2 DEF RoleOf, TeamInv, InvitePart
    <3> QED BY <1>2, <3>1
  <2> QED BY <2>1, <2>2
<1>9. members[Invitee] = None /\ members'[Invitee] # None => Crossed(Races)'
  <2>1. members[Invitee] = None /\ RoleOf(Invitee) # None => Crossed(Races)
    BY DEF RoleOf, TeamInv, InvitePart
  <2> QED BY <1>2, <1>3, <1>5, <1>7, <2>1
<1>10. Changes(kind)
  <2>1. \A u \in Users : ~(members[u] # None /\ members'[u] = None)
    BY <1>4, <1>5 DEF None
  <2> QED BY <1>1, <1>2, <1>3, <1>8, <1>9, <2>1 DEF Changes
<1>11. InvitePart'
  <2>1. RoleOf(Invitee)' # None => RoleOf(Invitee) # None \/ Crossed(Races)'
    <3>1. CASE Invitee = by
      BY <1>7, <3>1
    <3>2. CASE Invitee = to
      <4>1. members[Invitee] # None => RoleOf(Invitee) # None
        BY DEF RoleOf, None
      <4> QED BY <1>6, <3>2, <4>1
    <3>3. CASE Invitee # by /\ Invitee # to
      BY <1>1, <1>3, <1>5, <3>3 DEF RoleOf, None
    <3> QED BY <3>1, <3>2, <3>3
  <2>2. owner' = Invitee /\ members'[Invitee] = None => Crossed(Races)'
    BY <1>1, <1>3, <1>5, <1>6
  <2> QED BY <1>1, <1>2, <2>1, <2>2 DEF TeamInv, InvitePart
<1>12. Kept(r)' /\ OfferHolds(r)
  BY <1>2, IdleRequest, AnsweredKept DEF OfferHolds
<1>13. by = owner \/ Meets(r, {"transfer"})
  BY <1>1, <1>2, <1>3 DEF Kept, RightsRead, Entered, At
<1> QED BY <1>2, <1>4, <1>6, <1>10, <1>11, <1>12, <1>13, WriteStep DEF Meets

-----------------------------------------------------------------------------
(* The invariant *)

LEMMA TeamInit == Init => TeamInv
<1> SUFFICES ASSUME Init PROVE TeamInv
  OBVIOUS
<1>1. Owner \in Users /\ Admin \in Users /\ Invitee \in Users /\ Invitee # Owner /\ Invitee # Admin
  BY TeamInvitesAssumption
<1>2. Types
  <2>1. invite \in [status : {None, "pending", "accepted"}, token : 0..1, due : BOOLEAN]
    <3>1. NoInvite \in [status : {None, "pending", "accepted"}, token : 0..1, due : BOOLEAN]
      BY DEF NoInvite
    <3>2. [status |-> "pending", token |-> 1, due |-> FALSE] \in
            [status : {None, "pending", "accepted"}, token : 0..1, due : BOOLEAN]
      OBVIOUS
    <3>3. [status |-> "accepted", token |-> 0, due |-> FALSE] \in
            [status : {None, "pending", "accepted"}, token : 0..1, due : BOOLEAN]
      OBVIOUS
    <3> QED BY <3>1, <3>2, <3>3, Zenon DEF Init
  <2>2. drawn \in Nat /\ mailed \subseteq Nat /\ barred \subseteq 1..drawn /\ crossed \subseteq Kinds \X Kinds
    BY <2>1 DEF Init
  <2> QED BY <1>1, <2>1, <2>2 DEF Init, Types
<1>3. InvitePart
  BY <1>1 DEF Init, InvitePart, RoleOf, NoInvite, None
<1>4. ASSUME NEW r \in Requests PROVE Kept(r)
  <2>1. req[r] = Idle
    BY DEF Init
  <2>2. req[r] \in Request /\ req[r].todo = <<>> /\ ~req[r].offered
    BY <2>1, IdleRequest
  <2> QED BY <2>2 DEF Kept, Shape, RightsRead, InviteRead, OfferStands, Answered, At, Entered
<1> QED BY <1>2, <1>3, <1>4 DEF TeamInv

\* A step of request r.
Takes(r) ==
  \/ \E ask \in Calls : Start(r, ask)
  \/ Owned(r) \/ Joined(r) \/ FindOwner(r) \/ FindTarget(r) \/ ExpireDue(r) \/ MemberOfEmail(r)
  \/ FindById(r) \/ IssueToken(r) \/ Mail(r) \/ FindByToken(r) \/ ExpireById(r) \/ Join(r)
  \/ DeclineById(r) \/ DeleteMember(r) \/ UpdateRole(r) \/ SetOwner(r)

LEMMA TeamStep ==
  ASSUME TeamInv, NEW r \in Requests, Takes(r)
  PROVE  TeamInv' /\ OfferHolds(r)
<1>1. ASSUME NEW ask \in Calls, Start(r, ask) PROVE OfferHolds(r)
  BY <1>1 DEF TeamInv, Kept, Shape, Start, OfferHolds
<1>2. ASSUME Owned(r) PROVE OfferHolds(r)
  <2>1. Goes(r).todo # <<>> /\ Tail(Goes(r).todo) # <<>>
    <3>1. /\ At(r, "owned") /\ Shape(r) /\ req[r].ask.kind \in Managing /\ req[r].ask.kind \in Kinds
      BY <1>2, Advance DEF Owned, TeamInv, Kept, KindsAt
    <3>2. Goes(r).todo \in Todos(req[r].ask.kind) /\ Goes(r).todo # <<>> /\ Head(Goes(r).todo) = "joined"
      BY <3>1, Advance DEF After
    <3> QED BY <3>1, <3>2, Statements DEF Ordered, After, First, Managing
  <2>2. Goes(r) \in Request
    BY <1>2, Advance DEF Owned, TeamInv, Kept
  <2>3. req'[r].todo \in {Goes(r).todo, Tail(Goes(r).todo)}
    BY <1>2, <2>2 DEF Owned, Reads, TeamInv, Types, Request
  <2> QED BY <2>1, <2>3 DEF OfferHolds
<1> QED BY <1>1, <1>2, StartStep, OwnedStep, JoinedStep, FindOwnerStep, FindTargetStep, ExpireDueStep,
        MemberOfEmailStep, FindByIdStep, IssueTokenStep, MailStep, FindByTokenStep, ExpireByIdStep, JoinStep,
        DeclineByIdStep, DeleteMemberStep, UpdateRoleStep, SetOwnerStep DEF Takes

LEMMA TeamNext == TeamInv /\ [Next]_vars => TeamInv'
<1> SUFFICES ASSUME TeamInv, [Next]_vars PROVE TeamInv'
  OBVIOUS
<1>1. CASE \E r \in Requests : Takes(r)
  BY <1>1, TeamStep
<1>2. CASE Lapse
  BY <1>2, LapseStep
<1>3. CASE UNCHANGED vars
  BY <1>3, QuietStep DEF vars, Quiet, TeamInv, Types
<1> QED BY <1>1, <1>2, <1>3 DEF Next, Takes

\* The inductive invariant: what a request in flight has read of the team and the
\* invite still holds, or it has met a request that changed it.
THEOREM TeamInvariant == Spec => []TeamInv
  BY TeamInit, TeamNext, PTL DEF Spec

\* The invite agrees with the team, but for the crossings named, whatever requests
\* arrive in whatever order, any number of them in flight.
THEOREM InviteAgreesAlways == Spec => []InviteAgrees
<1>1. TeamInv => InviteAgrees
  BY DEF TeamInv, InvitePart, InviteAgrees, Races
<1> QED BY <1>1, TeamInvariant, PTL

-----------------------------------------------------------------------------
(* The action properties *)

\* A step of one request leaves the others where they are.
LEMMA OthersStay ==
  ASSUME TeamInv, NEW r \in Requests, Takes(r), NEW x \in Requests, x # r
  PROVE  req'[x].todo = req[x].todo /\ req'[x].token = req[x].token
<1>1. req[x] \in Request /\ DOMAIN req = Requests
  BY DEF TeamInv, Types, Kept, Shape
<1>2. ASSUME NEW k, req'[x] = IF Answered(x) THEN req[x] ELSE [req[x] EXCEPT !.met = @ \union {k}]
      PROVE  req'[x].todo = req[x].todo /\ req'[x].token = req[x].token
  BY <1>1, <1>2 DEF Request
<1>3. ASSUME NEW q, Reads(r, q) PROVE req'[x] = req[x]
  BY <1>3 DEF Reads
<1>4. ASSUME NEW q, Writes(r, q) PROVE req'[x].todo = req[x].todo /\ req'[x].token = req[x].token
  BY <1>2, <1>4 DEF Writes
<1>5. CASE \E ask \in Calls : Start(r, ask)
  BY <1>5 DEF Start
<1>6. CASE Owned(r) \/ Joined(r) \/ FindOwner(r) \/ FindTarget(r) \/ MemberOfEmail(r) \/ FindById(r) \/ FindByToken(r)
  BY <1>3, <1>6 DEF Owned, Joined, FindOwner, FindTarget, MemberOfEmail, FindById, FindByToken
<1>7. CASE ExpireDue(r)
  BY <1>3, <1>4, <1>7 DEF ExpireDue
<1>8. CASE IssueToken(r)
  BY <1>2, <1>8 DEF IssueToken
<1>9. CASE Mail(r)
  BY <1>1, <1>9 DEF Mail
<1>10. CASE ExpireById(r) \/ Join(r) \/ DeclineById(r) \/ DeleteMember(r) \/ UpdateRole(r) \/ SetOwner(r)
  BY <1>4, <1>10 DEF ExpireById, Join, DeclineById, DeleteMember, UpdateRole, SetOwner
<1> QED BY <1>5, <1>6, <1>7, <1>8, <1>9, <1>10 DEF Takes

\* Only its own statement takes a request past it.
LEMMA StepsBy ==
  ASSUME TeamInv, [Next]_vars, NEW r \in Requests
  PROVE  /\ Steps(r, "join") => Join(r)
         /\ Steps(r, "setOwner") => SetOwner(r)
         /\ Steps(r, "deleteMember") => DeleteMember(r)
         /\ Steps(r, "updateRole") => UpdateRole(r)
<1> SUFFICES ASSUME NEW s \in {"join", "setOwner", "deleteMember", "updateRole"}, Steps(r, s)
             PROVE  /\ s = "join" => Join(r)
                    /\ s = "setOwner" => SetOwner(r)
                    /\ s = "deleteMember" => DeleteMember(r)
                    /\ s = "updateRole" => UpdateRole(r)
  OBVIOUS
<1>1. At(r, s) /\ req'[r].todo # req[r].todo
  BY DEF Steps, At, Answered
<1>2. ~Lapse /\ ~UNCHANGED vars
  BY <1>1 DEF Lapse, vars
<1>3. Takes(r)
  BY <1>1, <1>2, OthersStay DEF Next, Takes
<1>4. ~Answered(r) /\ Head(req[r].todo) = s
  BY <1>1 DEF At
<1> QED BY <1>3, <1>4 DEF Takes, Start, Owned, Joined, FindOwner, FindTarget, ExpireDue, MemberOfEmail, FindById,
        IssueToken, Mail, FindByToken, ExpireById, Join, DeclineById, DeleteMember, UpdateRole, SetOwner, At

\* Removing sticks: who was removed joins again only with an invite drawn after that,
\* but for the crossings named.
THEOREM RemovalSticksAlways == Spec => RemovalSticks
<1>1. TeamInv /\ [Next]_vars =>
        [\A r \in Requests : Steps(r, "join") =>
           req[r].ask.token \notin barred \/ Crossed(RemovalRaces)']_vars
  BY StepsBy, JoinStep
<1> QED BY <1>1, TeamInvariant, PTL DEF Spec, RemovalSticks

\* Ownership, admins and their roles change only by the right of the owner, unless the
\* request overlapped one that took the right away after it had been read.
THEOREM RightsKeptAlways == Spec => RightsKept
<1>1. ASSUME TeamInv, [Next]_vars, NEW r \in Requests
      PROVE  LET by == req[r].ask.by
                 to == req[r].ask.target IN
             /\ Steps(r, "setOwner") =>
                  (by = owner /\ members[to] # None) \/ req[r].met \intersect {"transfer", "remove"} # {}
             /\ Steps(r, "deleteMember") /\ members[to] = "admin" =>
                  by = owner \/ req[r].met \intersect {"transfer", "setRole"} # {}
             /\ Steps(r, "updateRole") /\ "admin" \in {members[to], members'[to]} =>
                  by = owner \/ req[r].met \intersect {"transfer", "setRole"} # {}
  BY <1>1, StepsBy, SetOwnerStep, DeleteMemberStep, UpdateRoleStep
<1>2. TeamInv /\ [Next]_vars =>
        [\A r \in Requests :
           LET by == req[r].ask.by
               to == req[r].ask.target IN
           /\ Steps(r, "setOwner") =>
                (by = owner /\ members[to] # None) \/ req[r].met \intersect {"transfer", "remove"} # {}
           /\ Steps(r, "deleteMember") /\ members[to] = "admin" =>
                by = owner \/ req[r].met \intersect {"transfer", "setRole"} # {}
           /\ Steps(r, "updateRole") /\ "admin" \in {members[to], members'[to]} =>
                by = owner \/ req[r].met \intersect {"transfer", "setRole"} # {}]_vars
  BY <1>1
<1> QED BY <1>2, TeamInvariant, PTL DEF Spec, RightsKept

\* A link dies of age alone, unless a request that had read the old one as due writes
\* after another has sent it anew.
THEOREM FreshLinksLive == Spec => FreshLinkLives
<1>1. ASSUME TeamInv, [Next]_vars, invite.status = "pending", ~invite.due, invite'.status = "expired"
      PROVE  \E pair \in crossed' : pair[1] \in {"accept", "decline", "lookup"} /\ pair[2] \in {"add", "resend"}
  <2>1. invite' # invite /\ invite \in [status : {None, "pending", "accepted", "declined", "expired"},
                                        token : Nat, due : BOOLEAN]
    BY <1>1 DEF TeamInv, Types
  <2>2. ~Lapse /\ ~UNCHANGED vars
    BY <1>1, <2>1 DEF Lapse, vars
  <2>3. PICK r \in Requests : Takes(r)
    BY <1>1, <2>2 DEF Next, Takes
  <2>4. ExpireById(r)
    <3>1. ASSUME NEW q, Reads(r, q) PROVE FALSE
      BY <2>1, <3>1 DEF Reads
    <3>2. ~(Owned(r) \/ Joined(r) \/ FindOwner(r) \/ FindTarget(r) \/ MemberOfEmail(r) \/ FindById(r) \/ FindByToken(r))
      BY <3>1 DEF Owned, Joined, FindOwner, FindTarget, MemberOfEmail, FindById, FindByToken
    <3>3. ~ExpireDue(r)
      BY <1>1, <3>1 DEF ExpireDue
    <3>4. ~IssueToken(r)
      BY <1>1 DEF IssueToken
    <3>5. ~(Join(r) \/ DeclineById(r))
      BY <1>1, <2>1 DEF Join, DeclineById
    <3>6. ~((\E ask \in Calls : Start(r, ask)) \/ Mail(r) \/ DeleteMember(r) \/ UpdateRole(r) \/ SetOwner(r))
      BY <2>1 DEF Start, Mail, DeleteMember, UpdateRole, SetOwner
    <3> QED BY <2>3, <3>2, <3>3, <3>4, <3>5, <3>6 DEF Takes
  <2> QED BY <1>1, <2>4, ExpireByIdStep
<1>2. TeamInv /\ [Next]_vars =>
        [invite.status = "pending" /\ ~invite.due /\ invite'.status = "expired"
           => \E pair \in crossed' : pair[1] \in {"accept", "decline", "lookup"} /\ pair[2] \in {"add", "resend"}]_vars
  BY <1>1
<1> QED BY <1>2, TeamInvariant, PTL DEF Spec, FreshLinkLives

\* What the team page offers the server accepts, as long as nobody wrote since the page
\* read the team: for any team, roles and requests in flight.
THEOREM OffersAreAllowed == Spec => OfferedIsAllowed
<1>1. ASSUME TeamInv, [Next]_vars, NEW r \in Requests,
             req[r].offered, req[r].met = {}, req'[r].todo = <<>>
      PROVE  req'[r].verdict # "refused" \/ UNCHANGED vars
  <2>1. req[r].todo # <<>>
    BY <1>1 DEF TeamInv, Kept, Shape, Answered
  <2>2. ~Lapse
    BY <1>1, <2>1, LapseStep
  <2>3. CASE \E x \in Requests : Takes(x)
    BY <1>1, <2>1, <2>3, OthersStay, TeamStep DEF OfferHolds
  <2> QED BY <1>1, <2>2, <2>3 DEF Next, Takes
<1>2. TeamInv /\ [Next]_vars =>
        [\A r \in Requests :
           req[r].offered /\ req[r].met = {} /\ req'[r].todo = <<>> => req'[r].verdict # "refused"]_vars
  BY <1>1
<1> QED BY <1>2, TeamInvariant, PTL DEF Spec, OfferedIsAllowed

-----------------------------------------------------------------------------
(* Types *)

\* The tokens of the row, the mails and the requests have been drawn.
TokensDrawn == TypeOK /\ \A r \in Requests : At(r, "mail") => req[r].token \in 1..drawn

\* A request is about to mail only after it has drawn.
LEMMA MailsAfterDrawing ==
  ASSUME TeamInv, NEW r \in Requests, Takes(r), At(r, "mail")'
  PROVE  IssueToken(r)
<1>1. Shape(r) /\ req[r] \in Request /\ DOMAIN req = Requests
  BY DEF TeamInv, Types, Kept, Shape
<1>2. ASSUME NEW s \in {"joined", "findOwner", "findTarget", "memberOfEmail", "findById", "findByToken", "expireDue"},
             At(r, s), Goes(r).todo # <<>>
      PROVE  Head(Goes(r).todo) # "mail"
  <2>1. After(req[r].ask.kind, s) # "mail"
    BY <1>2 DEF After, First
  <2> QED BY <1>1, <1>2, <2>1, Advance
<1>3. ASSUME NEW s \in {"joined", "findOwner", "findTarget", "memberOfEmail", "findById", "findByToken", "expireDue"},
             At(r, s)
      PROVE  req'[r].todo # Goes(r).todo
  BY <1>2, <1>3 DEF At, Answered
<1>4. \A v \in {"ok", "refused", "mailFailed"} :
        req'[r].todo \notin {Refuses(r).todo, Ends(r, v).todo, <<"expireById">>}
  BY IdleRequest DEF At, Answered
<1>5. ASSUME NEW q, Reads(r, q) PROVE req'[r] = q
  BY <1>1, <1>5 DEF Reads
<1>6. ASSUME NEW q, Writes(r, q) PROVE req'[r] = q
  BY <1>6 DEF Writes
<1>7. \A ask \in Calls : ~Start(r, ask)
  <2> SUFFICES ASSUME NEW ask \in Calls, Start(r, ask) PROVE FALSE
    OBVIOUS
  <2>1. req'[r].todo = Program(ask.kind)
    BY <1>1 DEF Start, Idle
  <2>2. ask.kind \in Kinds
    BY DEF Calls, Ask, Kinds
  <2> QED BY <2>1, <2>2, Programs DEF At
<1>8. ~Owned(r)
  <2> SUFFICES ASSUME Owned(r) PROVE FALSE
    OBVIOUS
  <2>1. At(r, "owned") /\ req[r].ask.kind \in Managing /\ req[r].ask.kind \in Kinds /\ Goes(r) \in Request
        /\ Goes(r).todo \in Todos(req[r].ask.kind) /\ Head(Goes(r).todo) = "joined"
    BY <1>1, Advance DEF Owned, KindsAt, After
  <2>2. Head(Tail(Goes(r).todo)) = First(req[r].ask.kind) /\ First(req[r].ask.kind) # "mail"
    BY <2>1, Statements DEF Ordered, After, First, Managing
  <2>3. req'[r].todo \in {Goes(r).todo, Tail(Goes(r).todo)}
    BY <1>5, <2>1 DEF Owned, Request
  <2> QED BY <2>1, <2>2, <2>3 DEF At
<1>9. ~Joined(r)
  <2> SUFFICES ASSUME Joined(r) PROVE FALSE
    OBVIOUS
  <2>1. Goes(r) \in Request /\ At(r, "joined")
    BY <1>1, Advance DEF Joined
  <2>2. ASSUME NEW role PROVE [Goes(r) EXCEPT !.role = role].todo = Goes(r).todo
    BY <2>1 DEF Request
  <2> QED BY <1>3, <1>4, <1>5, <2>1, <2>2 DEF Joined
<1>10. ~FindOwner(r) /\ ~FindTarget(r) /\ ~MemberOfEmail(r) /\ ~FindById(r)
  BY <1>3, <1>4, <1>5 DEF FindOwner, FindTarget, MemberOfEmail, FindById
<1>11. ~FindByToken(r)
  <2>1. [req[r] EXCEPT !.todo = <<"expireById">>].todo = <<"expireById">>
    BY <1>1 DEF Request
  <2> QED BY <1>3, <1>4, <1>5, <2>1 DEF FindByToken
<1>12. ~ExpireDue(r)
  BY <1>3, <1>5, <1>6 DEF ExpireDue
<1>13. ~Mail(r)
  BY <1>1, <1>4 DEF Mail
<1>14. ~(ExpireById(r) \/ Join(r) \/ DeclineById(r) \/ DeleteMember(r) \/ UpdateRole(r) \/ SetOwner(r))
  BY <1>4, <1>6 DEF ExpireById, Join, DeclineById, DeleteMember, UpdateRole, SetOwner
<1> QED BY <1>7, <1>8, <1>9, <1>10, <1>11, <1>12, <1>13, <1>14 DEF Takes

LEMMA TypeInit == Init => TokensDrawn
<1> SUFFICES ASSUME Init PROVE TokensDrawn
  OBVIOUS
<1>1. TeamInv /\ left \in [Kinds -> Nat]
  BY TeamInit, TeamInvitesAssumption DEF Init
<1>2. \A r \in Requests : req[r] = Idle
  BY DEF Init
<1>3. /\ invite.status \in {None, "pending", "accepted"} /\ invite.token \in {0, 1} /\ drawn = invite.token
      /\ (invite.status = "pending" <=> invite.token = 1)
  BY DEF Init, NoInvite, None
<1>4. \A r \in Requests : ~At(r, "mail")
  BY <1>2, IdleRequest DEF At, Answered
<1>5. /\ invite.token \in 0..drawn /\ mailed = 1..drawn /\ barred = {} /\ invite.due \in BOOLEAN
  BY <1>1, <1>3 DEF Init, TeamInv, Types
<1>6. \A r \in Requests : req[r] \in Request
  BY <1>2, IdleRequest
<1>7. \A r \in Requests : /\ req[r].met \subseteq Kinds /\ req[r].role \in Roles \union {None}
                          /\ req[r].verdict \in {"ok", "refused", "mailFailed"}
  BY <1>6 DEF Request
<1> QED BY <1>1, <1>3, <1>4, <1>5, <1>7 DEF TokensDrawn, TypeOK, TeamInv, Types, None

\* What the steps do to the tokens of the row and of the mails.
LEMMA TokenSteps ==
  ASSUME TeamInv, TokensDrawn, [Next]_vars
  PROVE  /\ drawn' \in Nat /\ drawn <= drawn'
         /\ \/ invite' = invite \/ invite' = [invite EXCEPT !.status = "expired"]
            \/ invite.status = "pending" /\ invite' = [invite EXCEPT !.due = TRUE]
            \/ invite' = [status |-> "pending", token |-> drawn', due |-> FALSE] /\ drawn' > 0
            \/ \E st \in {"accepted", "declined"} : invite' = [invite EXCEPT !.status = st, !.token = 0]
         /\ mailed' \subseteq 1..drawn' /\ left' \in [Kinds -> Nat]
<1>1. drawn \in Nat /\ mailed \subseteq 1..drawn /\ left \in [Kinds -> Nat]
  BY DEF TokensDrawn, TypeOK
<1>2. CASE Lapse \/ UNCHANGED vars
  BY <1>1, <1>2 DEF Lapse, vars
<1>3. ASSUME NEW r \in Requests, Takes(r)
      PROVE  /\ drawn' \in Nat /\ drawn <= drawn'
             /\ \/ invite' = invite \/ invite' = [invite EXCEPT !.status = "expired"]
                \/ invite' = [status |-> "pending", token |-> drawn', due |-> FALSE] /\ drawn' > 0
                \/ \E st \in {"accepted", "declined"} : invite' = [invite EXCEPT !.status = st, !.token = 0]
             /\ mailed' \subseteq 1..drawn' /\ left' \in [Kinds -> Nat]
  <2>1. ASSUME NEW q, Reads(r, q) \/ Writes(r, q) PROVE drawn' = drawn /\ mailed' = mailed /\ left' = left
    BY <2>1 DEF Reads, Writes
  <2>2. ASSUME NEW q, Reads(r, q) PROVE invite' = invite
    BY <2>2 DEF Reads
  <2>3. CASE \E ask \in Calls : Start(r, ask)
    <3>1. PICK ask \in Calls : Start(r, ask)
      BY <2>3
    <3>2. ask.kind \in Kinds
      BY DEF Calls, Ask, Kinds
    <3> QED BY <1>1, <3>1, <3>2 DEF Start
  <2>4. CASE Owned(r) \/ Joined(r) \/ FindOwner(r) \/ FindTarget(r) \/ MemberOfEmail(r) \/ FindById(r) \/ FindByToken(r)
    <3>1. \E q : Reads(r, q)
      BY <2>4 DEF Owned, Joined, FindOwner, FindTarget, MemberOfEmail, FindById, FindByToken
    <3> QED BY <1>1, <2>1, <2>2, <3>1
  <2>5. CASE ExpireDue(r)
    BY <1>1, <2>1, <2>2, <2>5 DEF ExpireDue
  <2>6. CASE IssueToken(r)
    BY <1>1, <2>6 DEF IssueToken
  <2>7. CASE Mail(r)
    BY <1>1, <2>7 DEF Mail, TokensDrawn
  <2>8. CASE DeleteMember(r) \/ UpdateRole(r) \/ SetOwner(r)
    BY <1>1, <2>1, <2>8 DEF DeleteMember, UpdateRole, SetOwner
  <2>9. CASE ExpireById(r)
    BY <1>1, <2>1, <2>9 DEF ExpireById
  <2>10. CASE Join(r)
    BY <1>1, <2>1, <2>10 DEF Join
  <2>11. CASE DeclineById(r)
    BY <1>1, <2>1, <2>11 DEF DeclineById
  <2> QED BY <1>3, <2>3, <2>4, <2>5, <2>6, <2>7, <2>8, <2>9, <2>10, <2>11 DEF Takes
<1>4. CASE \E r \in Requests : Takes(r)
  BY <1>3, <1>4
<1> QED BY <1>2, <1>4 DEF Next, Takes

LEMMA TypeNext == TeamInv /\ TokensDrawn /\ [Next]_vars => TokensDrawn'
<1> SUFFICES ASSUME TeamInv, TokensDrawn, [Next]_vars PROVE TokensDrawn'
  OBVIOUS
<1>1. TeamInv' /\ drawn' \in Nat /\ drawn <= drawn' /\ mailed' \subseteq 1..drawn' /\ left' \in [Kinds -> Nat]
  BY TeamNext, TokenSteps
<1>2. /\ invite.status \in {None, "pending", "accepted", "declined", "expired"}
      /\ invite.token \in 0..drawn /\ (invite.status = "pending" => invite.token # 0)
      /\ invite.status \in {None, "accepted", "declined"} => invite.token = 0
      /\ drawn \in Nat
      /\ invite \in [status : {None, "pending", "accepted", "declined", "expired"}, token : Nat, due : BOOLEAN]
  BY DEF TokensDrawn, TypeOK, TeamInv, Types
<1>3. /\ invite'.token \in 0..drawn' /\ (invite'.status = "pending" => invite'.token # 0)
      /\ invite'.status \in {None, "accepted", "declined"} => invite'.token = 0
  <2>1. CASE invite' = invite
    BY <1>1, <1>2, <2>1
  <2>2. CASE invite' = [invite EXCEPT !.status = "expired"]
    <3>1. invite'.status = "expired" /\ invite'.token = invite.token
      BY <1>2, <2>2
    <3> QED BY <1>1, <1>2, <3>1 DEF None
  <2>3. CASE invite.status = "pending" /\ invite' = [invite EXCEPT !.due = TRUE]
    <3>1. invite' \in [status : {"pending"}, token : {invite.token}, due : BOOLEAN]
      BY <1>2, <2>3
    <3> QED BY <1>1, <1>2, <2>3, <3>1 DEF None
  <2>4. CASE invite' = [status |-> "pending", token |-> drawn', due |-> FALSE] /\ drawn' > 0
    BY <1>1, <2>4 DEF None
  <2>5. CASE \E st \in {"accepted", "declined"} : invite' = [invite EXCEPT !.status = st, !.token = 0]
    <3>1. invite'.status \in {"accepted", "declined"} /\ invite'.token = 0
      BY <1>2, <2>5
    <3> QED BY <1>1, <3>1 DEF None
  <2> QED BY <2>1, <2>2, <2>3, <2>4, <2>5, TokenSteps
<1>4. TypeOK'
  <2>1. \A r \in Requests : /\ req'[r].met \subseteq Kinds /\ req'[r].role \in Roles \union {None}
                            /\ req'[r].verdict \in {"ok", "refused", "mailFailed"}
    BY <1>1 DEF TeamInv, Kept, Shape, Request
  <2> QED BY <1>1, <1>3, <2>1 DEF TypeOK, TeamInv, Types
<1>5. ASSUME NEW x \in Requests, At(x, "mail")' PROVE req'[x].token \in 1..drawn'
  <2>1. ASSUME req'[x].todo = req[x].todo, req'[x].token = req[x].token PROVE req'[x].token \in 1..drawn'
    BY <1>1, <1>2, <1>5, <2>1 DEF TokensDrawn, At, Answered
  <2>2. CASE Lapse \/ UNCHANGED vars
    BY <2>1, <2>2 DEF Lapse, vars
  <2>3. ASSUME NEW r \in Requests, Takes(r) PROVE req'[x].token \in 1..drawn'
    <3>1. CASE x = r
      <4>1. IssueToken(r) /\ Goes(r) \in Request
        BY <1>5, <2>3, <3>1, MailsAfterDrawing, Advance DEF TeamInv, Kept, IssueToken
      <4>2. req'[r] = [Goes(r) EXCEPT !.token = drawn + 1] /\ drawn' = drawn + 1
        BY <4>1 DEF IssueToken
      <4> QED BY <1>2, <3>1, <4>1, <4>2 DEF Request
    <3>2. CASE x # r
      BY <2>1, <2>3, <3>2, OthersStay
    <3> QED BY <3>1, <3>2
  <2>4. CASE \E r \in Requests : Takes(r)
    BY <2>3, <2>4
  <2> QED BY <2>2, <2>4 DEF Next, Takes
<1> QED BY <1>4, <1>5 DEF TokensDrawn

\* Every reachable state is well typed, and a row has a token as long as it is pending
\* and none once it was answered.
THEOREM TypeCorrect == Spec => []TypeOK
<1>1. TokensDrawn => TypeOK
  BY DEF TokensDrawn
<1> QED BY <1>1, TypeInit, TypeNext, TeamInvariant, PTL DEF Spec

================================================================================
