------------------------- MODULE AccountAccessProofs -------------------------
(***************************************************************************)
(* Proofs about AccountAccess for any addresses, passwords and identities, *)
(* any number of requests in flight and any limits.                        *)
(***************************************************************************)
EXTENDS AccountAccess, FiniteSetTheorems, TLAPS

-----------------------------------------------------------------------------
(* The statements still to come, by the kind of the request *)

\* What a request of a kind may still have to do.
Todos(kind) ==
  CASE kind = "signup"  -> {<<"findEmail", "insertUser">>, <<"insertUser">>}
    [] kind = "login"   -> {<<"findEmail">>, <<"compare">>}
    [] kind = "oauth"   -> {<<"findEmail", "insertUser">>, <<"insertUser">>, <<"linkUser">>}
    [] kind = "change"  -> {<<"findUser", "storePassword">>, <<"storePassword">>}
    [] kind = "request" -> {<<"findEmail", "spendOld", "addToken", "mail">>,
                            <<"spendOld", "addToken", "mail">>, <<"addToken", "mail">>, <<"mail">>}
    [] kind = "confirm" -> {<<"findToken", "resetPassword">>, <<"resetPassword">>}
    [] kind = "delete"  -> {<<"deleteUser">>}
    [] kind = "script"  -> {<<"storeByEmail">>}

Lists == {<<>>} \union UNION {Todos(k) : k \in Kinds}
Names == {i.id : i \in Identities} \union {None}
Row == [email : Emails \union {None}, password : Passwords \union {None}, linked : [Providers -> Names]]
Token == [user : Nat, used : BOOLEAN, ends : Nat]
Call == [kind : Kinds, email : Emails \union {None}, password : Passwords \union {None}, user : Nat,
         token : Nat, identity : Identities \union {NoIdentity}]
Request ==
  [ask : Call, todo : Lists, user : Nat, seen : Passwords \union {None}, old : SUBSET Nat, token : Nat,
   met : SUBSET Kinds, verdict : {"ok", "refused"}]

\* A request in flight is one that may be made, at a statement of its kind.
Shape(r) ==
  /\ req[r] \in Request
  /\ ~Answered(r) =>
       /\ req[r].todo \in Todos(req[r].ask.kind)
       /\ req[r].ask.kind \in {"signup", "login", "oauth", "request", "script"} => req[r].ask.email \in Emails
       /\ req[r].ask.kind = "oauth" =>
            req[r].ask.identity \in Identities /\ req[r].ask.email = req[r].ask.identity.email
       /\ req[r].ask.kind = "confirm" => req[r].ask.token \in DOMAIN tokens

Types ==
  /\ users \in [Ids -> Row] /\ born \in 0..MaxUsers
  /\ tokens \in Seq(Token) /\ mailed \subseteq DOMAIN tokens /\ spent \subseteq DOMAIN tokens
  /\ sessions \subseteq 1..born /\ now \in Nat
  /\ crossed \subseteq Kinds \X Kinds
  /\ DOMAIN req = Requests

-----------------------------------------------------------------------------
(* The inductive invariant: what a request has read still holds, or it has met one that *)
(* changed it.                                                                          *)

\* The account a request was found to be about.
UserRead(r) ==
  LET u == req[r].user IN
  /\ At(r, "linkUser") \/ At(r, "compare") \/ At(r, "storePassword") => u \in 1..born
  /\ At(r, "insertUser") => WithEmail(req[r].ask.email) = {} \/ Met(r, {"signup", "oauth"})
  /\ At(r, "linkUser") => (u \in Rows => users[u].email = req[r].ask.email)
  /\ At(r, "storePassword") =>
       (u \in Rows => users[u].password = req[r].seen) \/ Met(r, {"change", "confirm", "script"})

\* The tokens a request was found to be about.
TokenRead(r) ==
  /\ At(r, "addToken") => LiveOf(req[r].user) \subseteq req[r].old \/ Met(r, {"request"})
  /\ At(r, "mail") => req[r].token \in DOMAIN tokens
  /\ At(r, "resetPassword") =>
       \/ ~tokens[req[r].ask.token].used /\ req[r].ask.token \notin spent
       \/ Met(r, {"confirm", "request", "delete"})

\* One account per address and per identity of a provider.
Accounts ==
  /\ \A u \in Rows : u <= born /\ users[u].email \in Emails
  /\ \A u, v \in Rows : u # v =>
       /\ users[u].email # users[v].email
       /\ \A p \in Providers : users[u].linked[p] # None => users[u].linked[p] # users[v].linked[p]

\* A token that has set a password is used; a user's unused token is the only one, unless
\* two requests for one crossed.
Links ==
  /\ \A t \in spent : tokens[t].used
  /\ \/ <<"request", "request">> \in crossed
     \/ \A t1, t2 \in DOMAIN tokens :
          ~tokens[t1].used /\ ~tokens[t2].used /\ tokens[t1].user = tokens[t2].user => t1 = t2

Kept(r) == Shape(r) /\ UserRead(r) /\ TokenRead(r)
AccountInv == Types /\ Accounts /\ Links /\ \A r \in Requests : Kept(r)

-----------------------------------------------------------------------------
(* The limiter's invariant *)

\* The requests under a key of the limiter (a host and an address) that fall into the window
\* that ends at e, and those of the stretch as long as the window before it, without its
\* first instant.
Since(a, e) == {j \in DOMAIN passed : passed[j].key = a /\ passed[j].at + Window >= e}
Before(a, e) ==
  {j \in DOMAIN passed : /\ passed[j].key = a /\ passed[j].at + Window < e
                         /\ passed[j].at + 2 * Window > e}

\* A window opens with a request, none follows before it ends, and it counts what it let pass.
Windowed(a) ==
  LET e == limits[a].ends IN
  /\ e <= now + Window
  /\ \A j \in DOMAIN passed : passed[j].key = a => passed[j].at < e
  /\ limits[a].count = Cardinality(Since(a, e))
  /\ limits[a].count # 0 => \E j \in DOMAIN passed : passed[j].key = a /\ passed[j].at + Window = e
  /\ limits[a].count = 0 => e = 0
  /\ Cardinality(Before(a, e)) < MaxAttempts

RateInv ==
  /\ limits \in [LimiterKeys -> [count : 0..MaxAttempts, ends : Nat]]
  /\ passed \in Seq([key : LimiterKeys, at : Nat]) /\ now \in Nat
  /\ \A a \in LimiterKeys : Windowed(a)
  /\ ResetRate

-----------------------------------------------------------------------------
(* The order of the statements *)

\* The statement after s in a request of a kind, "end" after the last.
After(kind, s) ==
  CASE s = "findEmail" -> IF kind \in {"signup", "oauth"} THEN "insertUser"
                          ELSE IF kind = "request" THEN "spendOld" ELSE "end"
    [] s = "spendOld" -> "addToken"
    [] s = "addToken" -> "mail"
    [] s = "findUser" -> "storePassword"
    [] s = "findToken" -> "resetPassword"
    [] OTHER -> "end"

\* The kinds of requests with a statement s.
KindsAt(s) ==
  CASE s = "findEmail" -> {"signup", "login", "oauth", "request"}
    [] s = "insertUser" -> {"signup", "oauth"}
    [] s = "linkUser" -> {"oauth"}
    [] s = "compare" -> {"login"}
    [] s \in {"findUser", "storePassword"} -> {"change"}
    [] s \in {"spendOld", "addToken", "mail"} -> {"request"}
    [] s \in {"findToken", "resetPassword"} -> {"confirm"}
    [] s = "deleteUser" -> {"delete"}
    [] s = "storeByEmail" -> {"script"}
    [] OTHER -> {}

\* A request at todo is of a kind that has the statement, and goes on to the one after.
Ordered(kind, todo) ==
  /\ todo # <<>> /\ kind \in KindsAt(Head(todo))
  /\ IF After(kind, Head(todo)) = "end" THEN Tail(todo) = <<>>
     ELSE Tail(todo) \in Todos(kind) /\ Tail(todo) # <<>> /\ Head(Tail(todo)) = After(kind, Head(todo))

LEMMA Statements == \A kind \in Kinds : \A todo \in Todos(kind) : Ordered(kind, todo)
<1>1. \A todo \in Todos("signup") : Ordered("signup", todo)
  <2>1. Ordered("signup", <<"findEmail", "insertUser">>)
    BY DEF Ordered, Todos, After, KindsAt
  <2>2. Ordered("signup", <<"insertUser">>)
    BY DEF Ordered, Todos, After, KindsAt
  <2> QED BY <2>1, <2>2 DEF Todos
<1>2. \A todo \in Todos("login") : Ordered("login", todo)
  <2>1. Ordered("login", <<"findEmail">>)
    BY DEF Ordered, Todos, After, KindsAt
  <2>2. Ordered("login", <<"compare">>)
    BY DEF Ordered, Todos, After, KindsAt
  <2> QED BY <2>1, <2>2 DEF Todos
<1>3. \A todo \in Todos("oauth") : Ordered("oauth", todo)
  <2>1. Ordered("oauth", <<"findEmail", "insertUser">>)
    BY DEF Ordered, Todos, After, KindsAt
  <2>2. Ordered("oauth", <<"insertUser">>)
    BY DEF Ordered, Todos, After, KindsAt
  <2>3. Ordered("oauth", <<"linkUser">>)
    BY DEF Ordered, Todos, After, KindsAt
  <2> QED BY <2>1, <2>2, <2>3 DEF Todos
<1>4. \A todo \in Todos("change") : Ordered("change", todo)
  <2>1. Ordered("change", <<"findUser", "storePassword">>)
    BY DEF Ordered, Todos, After, KindsAt
  <2>2. Ordered("change", <<"storePassword">>)
    BY DEF Ordered, Todos, After, KindsAt
  <2> QED BY <2>1, <2>2 DEF Todos
<1>5. \A todo \in Todos("request") : Ordered("request", todo)
  <2>1. Ordered("request", <<"findEmail", "spendOld", "addToken", "mail">>)
    BY DEF Ordered, Todos, After, KindsAt
  <2>2. Ordered("request", <<"spendOld", "addToken", "mail">>)
    BY DEF Ordered, Todos, After, KindsAt
  <2>3. Ordered("request", <<"addToken", "mail">>)
    BY DEF Ordered, Todos, After, KindsAt
  <2>4. Ordered("request", <<"mail">>)
    BY DEF Ordered, Todos, After, KindsAt
  <2> QED BY <2>1, <2>2, <2>3, <2>4 DEF Todos
<1>6. \A todo \in Todos("confirm") : Ordered("confirm", todo)
  <2>1. Ordered("confirm", <<"findToken", "resetPassword">>)
    BY DEF Ordered, Todos, After, KindsAt
  <2>2. Ordered("confirm", <<"resetPassword">>)
    BY DEF Ordered, Todos, After, KindsAt
  <2> QED BY <2>1, <2>2 DEF Todos
<1>7. \A todo \in Todos("delete") : Ordered("delete", todo)
  <2>1. Ordered("delete", <<"deleteUser">>)
    BY DEF Ordered, Todos, After, KindsAt
  <2> QED BY <2>1 DEF Todos
<1>8. \A todo \in Todos("script") : Ordered("script", todo)
  <2>1. Ordered("script", <<"storeByEmail">>)
    BY DEF Ordered, Todos, After, KindsAt
  <2> QED BY <2>1 DEF Todos
<1> QED BY <1>1, <1>2, <1>3, <1>4, <1>5, <1>6, <1>7, <1>8 DEF Kinds

LEMMA WithTodo ==
  ASSUME NEW q \in Request, NEW todo
  PROVE  [q EXCEPT !.todo = todo] =
           [ask |-> q.ask, todo |-> todo, user |-> q.user, seen |-> q.seen, old |-> q.old,
            token |-> q.token, met |-> q.met, verdict |-> q.verdict]
  BY DEF Request

LEMMA Started ==
  ASSUME NEW q \in Request, NEW ask \in Call, NEW todo \in Lists, NEW u \in Nat
  PROVE  [q EXCEPT !.ask = ask, !.todo = todo, !.user = u] \in
           [ask : {ask}, todo : {todo}, user : {u}, seen : {q.seen}, old : {q.old}, token : {q.token},
            met : {q.met}, verdict : {q.verdict}]
  BY DEF Request

LEMMA Advance ==
  ASSUME NEW r \in Requests, Shape(r), NEW s, At(r, s)
  PROVE  /\ ~Answered(r) /\ req[r].ask.kind \in Kinds /\ req[r].ask.kind \in KindsAt(s)
         /\ Goes(r) \in Request
         /\ \A x : At(r, x) <=> x = s
         /\ IF After(req[r].ask.kind, s) = "end" THEN Goes(r).todo = <<>>
            ELSE /\ Goes(r).todo \in Todos(req[r].ask.kind) /\ Goes(r).todo # <<>>
                 /\ Head(Goes(r).todo) = After(req[r].ask.kind, s)
         /\ Goes(r) = [ask |-> req[r].ask, todo |-> Tail(req[r].todo), user |-> req[r].user,
                       seen |-> req[r].seen, old |-> req[r].old, token |-> req[r].token,
                       met |-> req[r].met, verdict |-> req[r].verdict]
<1>1. /\ req[r] \in Request /\ req[r].ask.kind \in Kinds /\ req[r].todo \in Todos(req[r].ask.kind)
      /\ Head(req[r].todo) = s
  BY DEF Shape, At, Request, Call
<1>2. Ordered(req[r].ask.kind, req[r].todo)
  BY <1>1, Statements
<1>3. Goes(r) = [ask |-> req[r].ask, todo |-> Tail(req[r].todo), user |-> req[r].user,
                 seen |-> req[r].seen, old |-> req[r].old, token |-> req[r].token,
                 met |-> req[r].met, verdict |-> req[r].verdict]
  BY <1>1, WithTodo, Zenon DEF Goes
<1>4. Tail(req[r].todo) \in Lists
  BY <1>1, <1>2 DEF Ordered, Lists
<1>5. Goes(r) \in Request
  BY <1>1, <1>3, <1>4 DEF Request
<1> QED BY <1>1, <1>2, <1>3, <1>5 DEF Ordered, At

-----------------------------------------------------------------------------
(* What a step leaves of the requests that do not take it *)

\* A step that writes nothing another request may have read.
Quiet == UNCHANGED <<users, born, tokens, spent, crossed>>

LEMMA QuietKept ==
  ASSUME NEW x \in Requests, Kept(x), req'[x] = req[x], Quiet
  PROVE  Kept(x)'
<1>1. /\ users' = users /\ born' = born /\ tokens' = tokens /\ spent' = spent /\ req'[x] = req[x]
      /\ \A s : At(x, s)' <=> At(x, s)
  BY DEF Quiet, At, Answered
<1>2. Shape(x)'
  BY <1>1 DEF Kept, Shape, Answered
<1>3. UserRead(x)'
  BY <1>1 DEF Kept, UserRead, Rows, WithEmail, Met
<1>4. TokenRead(x)'
  BY <1>1 DEF Kept, TokenRead, LiveOf, Met
<1> QED BY <1>2, <1>3, <1>4 DEF Kept

\* What the writes of a request of kind k change of what others may have read.
Changes(k) ==
  /\ born' \in born..MaxUsers
  /\ \A u \in 1..born : u \in Rows' => /\ u \in Rows /\ users'[u].email = users[u].email
                                       /\ \/ users'[u].password = users[u].password
                                          \/ k \in {"change", "confirm", "script"}
  /\ \A e \in Emails : WithEmail(e) = {} => WithEmail(e)' = {} \/ k \in {"signup", "oauth"}
  /\ DOMAIN tokens \subseteq DOMAIN tokens'
  /\ \A t \in DOMAIN tokens : ~tokens[t].used => ~tokens'[t].used \/ k \in {"confirm", "request", "delete"}
  /\ spent' # spent => k = "confirm"
  /\ \A u \in Nat : LiveOf(u)' \subseteq LiveOf(u) \/ k = "request"

LEMMA MetKept ==
  ASSUME NEW x \in Requests, Types, Kept(x), ~Answered(x), NEW k \in Kinds,
         req'[x] = [req[x] EXCEPT !.met = @ \union {k}], Changes(k)
  PROVE  Kept(x)'
<1>1. /\ req'[x] = [ask |-> req[x].ask, todo |-> req[x].todo, user |-> req[x].user, seen |-> req[x].seen,
                    old |-> req[x].old, token |-> req[x].token, met |-> req[x].met \union {k},
                    verdict |-> req[x].verdict]
      /\ req[x] \in Request
  BY DEF Kept, Shape, Request
<1>2. /\ req'[x].ask = req[x].ask /\ req'[x].todo = req[x].todo /\ req'[x].user = req[x].user
      /\ req'[x].seen = req[x].seen /\ req'[x].old = req[x].old /\ req'[x].token = req[x].token
      /\ req'[x].met = req[x].met \union {k}
  BY <1>1
<1>3. Shape(x)'
  <2>1. req'[x] \in Request
    BY <1>1 DEF Request
  <2> QED BY <1>2, <2>1 DEF Kept, Shape, Answered, Changes
<1>4. \A K : Met(x, K) => Met(x, K)'
  BY <1>2 DEF Met
<1>5. \A K : k \in K => Met(x, K)'
  BY <1>2 DEF Met
<1>6. \A s : At(x, s)' <=> At(x, s)
  BY <1>2 DEF At, Answered
<1>7. UserRead(x)'
  <2>1. born \in Nat /\ born' \in Nat /\ born <= born'
    BY AccountAccessAssumption DEF Types, Changes
  <2>2. PICK e : e = req[x].ask.email /\ e = req'[x].ask.email
    BY <1>2
  <2>3. At(x, "insertUser") => e \in Emails
    BY <2>2, Advance DEF Kept, Shape, KindsAt
  <2> DEFINE u == req[x].user
  <2>4. At(x, "linkUser") \/ At(x, "compare") \/ At(x, "storePassword") => u \in 1..born /\ u \in 1..born'
    BY <2>1 DEF Kept, UserRead
  <2>5. At(x, "insertUser") => WithEmail(e)' = {} \/ Met(x, {"signup", "oauth"})'
    BY <1>4, <1>5, <2>2, <2>3 DEF Kept, UserRead, Changes
  <2>6. At(x, "linkUser") => (u \in Rows' => users'[u].email = req[x].ask.email)
    BY <2>4 DEF Kept, UserRead, Changes
  <2>7. At(x, "storePassword") =>
          (u \in Rows' => users'[u].password = req[x].seen) \/ Met(x, {"change", "confirm", "script"})'
    BY <1>4, <1>5, <2>4 DEF Kept, UserRead, Changes
  <2> QED BY <1>2, <1>6, <2>2, <2>4, <2>5, <2>6, <2>7 DEF UserRead
<1>8. TokenRead(x)'
  <2>1. PICK u \in Nat : u = req[x].user /\ u = req'[x].user
    BY <1>2 DEF Kept, Shape, Request
  <2>2. At(x, "resetPassword") => req[x].ask.token \in DOMAIN tokens
    BY Advance DEF Kept, Shape, KindsAt
  <2>3. At(x, "addToken") => LiveOf(u)' \subseteq req[x].old \/ Met(x, {"request"})'
    BY <1>4, <1>5, <2>1 DEF Kept, TokenRead, Changes
  <2>4. At(x, "mail") => req[x].token \in DOMAIN tokens'
    BY DEF Kept, TokenRead, Changes
  <2>5. At(x, "resetPassword") =>
          \/ ~tokens'[req[x].ask.token].used /\ req[x].ask.token \notin spent'
          \/ Met(x, {"confirm", "request", "delete"})'
    BY <1>4, <1>5, <2>2 DEF Kept, TokenRead, Changes
  <2> QED BY <1>2, <1>6, <2>1, <2>3, <2>4, <2>5 DEF TokenRead
<1> QED BY <1>3, <1>7, <1>8 DEF Kept

-----------------------------------------------------------------------------
(* The steps *)

\* Answered requests promise nothing.
LEMMA AnsweredKept ==
  ASSUME NEW r \in Requests, req'[r] \in Request, req'[r].todo = <<>>
  PROVE  Kept(r)'
  BY DEF Kept, Shape, UserRead, TokenRead, Answered, At

LEMMA IdleRequest ==
  /\ Idle \in Request /\ Idle.todo = <<>> /\ Idle.verdict = "ok"
  /\ \A v \in {"ok", "refused"} : Ends(v) \in Request /\ Ends(v).todo = <<>> /\ Ends(v).verdict = v
<1>1. <<>> \in Lists
  BY DEF Lists
<1>2. Idle.ask \in Call
  BY DEF Idle, Ask, Call, Kinds
<1> QED BY <1>1, <1>2 DEF Idle, Ends, Request

\* A step of request r that writes nothing others may have read keeps the invariant if r does.
LEMMA QuietStep ==
  ASSUME AccountInv, NEW r \in Requests, NEW q, req' = [req EXCEPT ![r] = q], Quiet,
         mailed' \subseteq DOMAIN tokens, sessions' \subseteq 1..born, now' = now, Kept(r)'
  PROVE  AccountInv'
<1>1. Types' /\ \A x \in Requests \ {r} : req'[x] = req[x]
  BY DEF AccountInv, Types, Quiet
<1>2. \A x \in Requests : Kept(x)'
  BY <1>1, QuietKept DEF AccountInv
<1>3. Accounts' /\ Links'
  BY DEF AccountInv, Accounts, Links, Rows, Quiet
<1> QED BY <1>1, <1>2, <1>3 DEF AccountInv

LEMMA ReadStep ==
  ASSUME AccountInv, NEW r \in Requests, NEW q, Reads(r, q), Kept(r)'
  PROVE  AccountInv'
  BY QuietStep DEF Reads, Quiet, AccountInv, Types

LEMMA ReadEnds ==
  ASSUME AccountInv, NEW r \in Requests, NEW q \in Request, q.todo = <<>>, Reads(r, q)
  PROVE  AccountInv' /\ req'[r] = q
<1>1. req'[r] = q
  BY DEF Reads, AccountInv, Types
<1> QED BY <1>1, AnsweredKept, ReadStep

\* A step of request r that writes keeps what the others have read, if it changes only
\* what requests of its kind change.
LEMMA WriteStep ==
  ASSUME AccountInv, NEW r \in Requests, NEW q, ~Answered(r), Writes(r, q), Changes(req[r].ask.kind),
         users' \in [Ids -> Row], tokens' \in Seq(Token), mailed' \subseteq DOMAIN tokens',
         spent' \subseteq DOMAIN tokens', sessions' \subseteq 1..born',
         Accounts', Links', Kept(r)'
  PROVE  AccountInv'
<1>1. req[r].ask.kind \in Kinds /\ req[r].met \subseteq Kinds
  BY DEF AccountInv, Kept, Shape, Request, Call
<1>2. crossed' \subseteq Kinds \X Kinds
  BY <1>1 DEF Writes, AccountInv, Types
<1>3. Types'
  <2>1. DOMAIN req' = Requests
    BY DEF Writes
  <2>2. born' \in 0..MaxUsers
    BY AccountAccessAssumption DEF Changes, AccountInv, Types
  <2>3. now' \in Nat
    BY DEF Writes, AccountInv, Types
  <2> QED BY <1>2, <2>1, <2>2, <2>3 DEF Types
<1>4. ASSUME NEW x \in Requests, x # r PROVE Kept(x)'
  <2>1. CASE Answered(x)
    <3>1. req'[x] = req[x]
      BY <1>4, <2>1 DEF Writes
    <3> QED BY <2>1, <3>1, AnsweredKept DEF AccountInv, Kept, Shape, Answered
  <2>2. CASE ~Answered(x)
    <3>1. req'[x] = [req[x] EXCEPT !.met = @ \union {req[r].ask.kind}]
      BY <1>4, <2>2 DEF Writes
    <3> QED BY <1>1, <2>2, <3>1, MetKept DEF AccountInv
  <2> QED BY <2>1, <2>2
<1> QED BY <1>3, <1>4 DEF AccountInv

\* A write that answers the request.
LEMMA WriteEnds ==
  ASSUME AccountInv, NEW r \in Requests, Writes(r, Ends("ok")), ~Answered(r),
         Changes(req[r].ask.kind),
         users' \in [Ids -> Row], tokens' \in Seq(Token), mailed' \subseteq DOMAIN tokens',
         spent' \subseteq DOMAIN tokens', sessions' \subseteq 1..born', Accounts', Links'
  PROVE  AccountInv'
<1>1. req'[r] = Ends("ok")
  BY DEF Writes
<1> QED BY <1>1, IdleRequest, AnsweredKept, WriteStep

\* A request that goes on to its next statement.
LEMMA GoesOn ==
  ASSUME NEW r \in Requests, Shape(r), NEW s, At(r, s), After(req[r].ask.kind, s) # "end",
         NEW q \in Request, req'[r] = q, q.ask = req[r].ask, q.met = req[r].met, q.todo = Goes(r).todo,
         DOMAIN tokens \subseteq DOMAIN tokens'
  PROVE  /\ Shape(r)' /\ ~Answered(r)' /\ \A x : At(r, x)' <=> x = After(req[r].ask.kind, s)
         /\ \A K : Met(r, K)' <=> Met(r, K)
<1>1. /\ Goes(r).todo \in Todos(req[r].ask.kind) /\ Goes(r).todo # <<>>
      /\ Head(Goes(r).todo) = After(req[r].ask.kind, s) /\ ~Answered(r)
  BY Advance
<1>2. Shape(r)'
  BY <1>1 DEF Shape, Answered
<1> QED BY <1>1, <1>2 DEF Answered, At, Met

\* What a call is made of, and what a request does first.
LEMMA CallIsAsk ==
  ASSUME Types, NEW ask \in Calls
  PROVE  /\ ask \in Call
         /\ Program(ask.kind) \in Todos(ask.kind) /\ Program(ask.kind) \in Lists /\ Program(ask.kind) # <<>>
         /\ Head(Program(ask.kind)) \in {"findEmail", "findUser", "findToken", "deleteUser", "storeByEmail"}
         /\ ask.kind \in {"signup", "login", "oauth", "request", "script"} => ask.email \in Emails
         /\ ask.kind = "oauth" => ask.identity \in Identities /\ ask.email = ask.identity.email
         /\ ask.kind = "confirm" => ask.token \in DOMAIN tokens
<1>1. \A kind \in Kinds : /\ Program(kind) \in Todos(kind) /\ Program(kind) # <<>>
                          /\ Head(Program(kind)) \in {"findEmail", "findUser", "findToken", "deleteUser",
                                                      "storeByEmail"}
  <2>1. Program("signup") \in Todos("signup") /\ Program("login") \in Todos("login")
    BY DEF Program, Todos
  <2>2. Program("oauth") \in Todos("oauth") /\ Program("change") \in Todos("change")
    BY DEF Program, Todos
  <2>3. Program("request") \in Todos("request") /\ Program("confirm") \in Todos("confirm")
    BY DEF Program, Todos
  <2>4. Program("delete") \in Todos("delete") /\ Program("script") \in Todos("script")
    BY DEF Program, Todos
  <2> DEFINE First == {"findEmail", "findUser", "findToken", "deleteUser", "storeByEmail"}
  <2>5. /\ Program("signup") = <<"findEmail", "insertUser">> /\ Program("login") = <<"findEmail">>
        /\ Program("oauth") = <<"findEmail", "insertUser">> /\ Program("change") = <<"findUser", "storePassword">>
        /\ Program("request") = <<"findEmail", "spendOld", "addToken", "mail">>
        /\ Program("confirm") = <<"findToken", "resetPassword">> /\ Program("delete") = <<"deleteUser">>
        /\ Program("script") = <<"storeByEmail">>
    BY DEF Program
  <2>6. /\ Head(Program("signup")) \in First /\ Head(Program("login")) \in First
        /\ Head(Program("oauth")) \in First /\ Head(Program("change")) \in First
    BY <2>5
  <2>7. /\ Head(Program("request")) \in First /\ Head(Program("confirm")) \in First
        /\ Head(Program("delete")) \in First /\ Head(Program("script")) \in First
    BY <2>5
  <2>8. \A kind \in Kinds : Program(kind) \in Todos(kind) /\ Head(Program(kind)) \in First
    BY <2>1, <2>2, <2>3, <2>4, <2>6, <2>7 DEF Kinds
  <2> QED BY <2>8, Statements DEF Ordered
<1>2. /\ ask \in Call
      /\ ask.kind \in {"signup", "login", "oauth", "request", "script"} => ask.email \in Emails
      /\ ask.kind = "oauth" => ask.identity \in Identities /\ ask.email = ask.identity.email
      /\ ask.kind = "confirm" => ask.token \in DOMAIN tokens
  <2>1. CASE ask \in {Ask(k, e, p, 0, 0, NoIdentity) : k \in {"signup", "login", "script"}, e \in Emails,
                                                       p \in Passwords}
    BY <2>1 DEF Ask, Call, Kinds
  <2>2. CASE ask \in {Ask("request", e, None, 0, 0, NoIdentity) : e \in Emails}
    BY <2>2 DEF Ask, Call, Kinds
  <2>3. CASE ask \in {Ask("oauth", i.email, None, 0, 0, i) : i \in Identities}
    <3>1. PICK i \in Identities : ask = Ask("oauth", i.email, None, 0, 0, i)
      BY <2>3
    <3>2. i.email \in Emails
      BY AccountAccessAssumption
    <3>3. /\ ask.kind = "oauth" /\ ask.email = i.email /\ ask.identity = i
          /\ ask = [kind |-> "oauth", email |-> i.email, password |-> None, user |-> 0, token |-> 0,
                    identity |-> i]
      BY <3>1 DEF Ask
    <3> QED BY <3>2, <3>3 DEF Call, Kinds
  <2>4. CASE ask \in {Ask("change", None, p, u, 0, NoIdentity) : u \in sessions, p \in Passwords}
    BY <2>4 DEF Ask, Call, Kinds, Types
  <2>5. CASE ask \in {Ask("delete", None, None, u, 0, NoIdentity) : u \in sessions}
    BY <2>5 DEF Ask, Call, Kinds, Types
  <2>6. CASE ask \in {Ask("confirm", None, p, 0, t, NoIdentity) : t \in mailed, p \in Passwords}
    <3>1. DOMAIN tokens \subseteq Nat
      BY DEF Types
    <3> QED BY <2>6, <3>1 DEF Ask, Call, Kinds, Types
  <2> QED BY <2>1, <2>2, <2>3, <2>4, <2>5, <2>6 DEF Calls
<1>3. ask.kind \in Kinds
  BY <1>2 DEF Call
<1> QED BY <1>1, <1>2, <1>3 DEF Lists

LEMMA StartStep ==
  ASSUME AccountInv, NEW r \in Requests, NEW ask \in Calls, NEW host \in Hosts, Start(r, ask, host)
  PROVE  AccountInv' /\ req' = [req EXCEPT ![r] = req'[r]] /\ Answered(r)
<1> DEFINE q == [Idle EXCEPT !.ask = ask, !.todo = Program(ask.kind), !.user = ask.user]
<1>1. Quiet /\ mailed' \subseteq DOMAIN tokens /\ sessions' \subseteq 1..born /\ Answered(r)
      /\ r \in DOMAIN req /\ now' = now
  BY DEF Start, Quiet, AccountInv, Types
<1>2. CASE req' = [req EXCEPT ![r] = Ends("ok")]
  <2>1. req'[r] = Ends("ok")
    BY <1>1, <1>2
  <2> QED BY <1>1, <1>2, <2>1, IdleRequest, AnsweredKept, QuietStep
<1>3. CASE req' = [req EXCEPT ![r] = q]
  <2>1. /\ ask \in Call
        /\ Program(ask.kind) \in Todos(ask.kind) /\ Program(ask.kind) \in Lists /\ Program(ask.kind) # <<>>
        /\ Head(Program(ask.kind)) \in {"findEmail", "findUser", "findToken", "deleteUser", "storeByEmail"}
        /\ ask.kind \in {"signup", "login", "oauth", "request", "script"} => ask.email \in Emails
        /\ ask.kind = "oauth" => ask.identity \in Identities /\ ask.email = ask.identity.email
        /\ ask.kind = "confirm" => ask.token \in DOMAIN tokens
    BY CallIsAsk DEF AccountInv
  <2>2. Idle \in Request
    BY IdleRequest
  <2>3. q \in Request /\ q.ask = ask /\ q.todo = Program(ask.kind)
    <3>1. ask.user \in Nat
      BY <2>1 DEF Call
    <3>2. q \in [ask : {ask}, todo : {Program(ask.kind)}, user : {ask.user}, seen : {Idle.seen}, old : {Idle.old},
                 token : {Idle.token}, met : {Idle.met}, verdict : {Idle.verdict}]
      BY <2>1, <2>2, <3>1, Started
    <3> HIDE DEF q
    <3> QED BY <2>1, <2>2, <3>1, <3>2 DEF Request
  <2> HIDE DEF q
  <2>4. req'[r] = q /\ tokens' = tokens
    BY <1>1, <1>3 DEF Quiet
  <2>5. Shape(r)'
    BY <2>1, <2>3, <2>4 DEF Shape, Answered
  <2>6. ASSUME NEW s, At(r, s)'
        PROVE  s \in {"findEmail", "findUser", "findToken", "deleteUser", "storeByEmail"}
    BY <2>1, <2>3, <2>4, <2>6 DEF At, Answered
  <2>7. UserRead(r)' /\ TokenRead(r)'
    BY <2>6 DEF UserRead, TokenRead
  <2> QED BY <1>1, <1>3, <2>4, <2>5, <2>7, QuietStep DEF Kept
<1> QED BY <1>1, <1>2, <1>3 DEF Start

\* What a request notes, field by field.
LEMMA NotesUser ==
  ASSUME NEW q \in Request, NEW u \in Nat
  PROVE  LET p == [q EXCEPT !.user = u] IN
         p \in Request /\ p.ask = q.ask /\ p.todo = q.todo /\ p.met = q.met /\ p.user = u
<1>1. [q EXCEPT !.user = u] = [ask |-> q.ask, todo |-> q.todo, user |-> u, seen |-> q.seen, old |-> q.old,
                               token |-> q.token, met |-> q.met, verdict |-> q.verdict]
  BY DEF Request
<1> QED BY <1>1 DEF Request

LEMMA NotesSeen ==
  ASSUME NEW q \in Request, NEW s \in Passwords \union {None}
  PROVE  LET p == [q EXCEPT !.seen = s] IN
         p \in Request /\ p.ask = q.ask /\ p.todo = q.todo /\ p.met = q.met /\ p.user = q.user /\ p.seen = s
<1>1. [q EXCEPT !.seen = s] = [ask |-> q.ask, todo |-> q.todo, user |-> q.user, seen |-> s, old |-> q.old,
                               token |-> q.token, met |-> q.met, verdict |-> q.verdict]
  BY DEF Request
<1> QED BY <1>1 DEF Request

LEMMA NotesOld ==
  ASSUME NEW q \in Request, NEW ts \in SUBSET Nat
  PROVE  LET p == [q EXCEPT !.old = ts] IN
         p \in Request /\ p.ask = q.ask /\ p.todo = q.todo /\ p.met = q.met /\ p.user = q.user /\ p.old = ts
<1>1. [q EXCEPT !.old = ts] = [ask |-> q.ask, todo |-> q.todo, user |-> q.user, seen |-> q.seen, old |-> ts,
                               token |-> q.token, met |-> q.met, verdict |-> q.verdict]
  BY DEF Request
<1> QED BY <1>1 DEF Request

LEMMA NotesToken ==
  ASSUME NEW q \in Request, NEW t \in Nat
  PROVE  LET p == [q EXCEPT !.token = t] IN
         p \in Request /\ p.ask = q.ask /\ p.todo = q.todo /\ p.met = q.met /\ p.user = q.user /\ p.token = t
<1>1. [q EXCEPT !.token = t] = [ask |-> q.ask, todo |-> q.todo, user |-> q.user, seen |-> q.seen, old |-> q.old,
                                token |-> t, met |-> q.met, verdict |-> q.verdict]
  BY DEF Request
<1> QED BY <1>1 DEF Request

WithUser(q, u, todo) == [q EXCEPT !.user = u, !.todo = todo]
WithAccount(q, u, todo, s) == [q EXCEPT !.user = u, !.todo = todo, !.seen = s]

LEMMA NotesLinked ==
  ASSUME NEW q \in Request, NEW u \in Nat, NEW todo \in Lists, NEW p, p = WithUser(q, u, todo)
  PROVE  p \in Request /\ p.ask = q.ask /\ p.todo = todo /\ p.met = q.met /\ p.user = u
<1>1. p \in [ask : {q.ask}, todo : {todo}, user : {u}, seen : {q.seen}, old : {q.old}, token : {q.token},
             met : {q.met}, verdict : {q.verdict}]
  BY DEF Request, WithUser
<1> QED BY <1>1 DEF Request

LEMMA NotesAccount ==
  ASSUME NEW q \in Request, NEW u \in Nat, NEW todo \in Lists, NEW s \in Passwords \union {None},
         NEW p, p = WithAccount(q, u, todo, s)
  PROVE  p \in Request /\ p.ask = q.ask /\ p.todo = todo /\ p.met = q.met /\ p.user = u
<1>1. p \in [ask : {q.ask}, todo : {todo}, user : {u}, seen : {s}, old : {q.old}, token : {q.token},
             met : {q.met}, verdict : {q.verdict}]
  BY DEF Request, WithAccount
<1> QED BY <1>1 DEF Request

\* A request that goes to a statement it may come to.
LEMMA MovesTo ==
  ASSUME NEW r \in Requests, Shape(r), ~Answered(r), NEW q \in Request, req'[r] = q, q.ask = req[r].ask,
         q.todo \in Todos(req[r].ask.kind), NEW s, Head(q.todo) = s, DOMAIN tokens \subseteq DOMAIN tokens'
  PROVE  Shape(r)' /\ \A x : At(r, x)' <=> x = s
<1>1. q.todo # <<>>
  <2>1. req[r].ask.kind \in Kinds
    BY DEF Shape, Request, Call
  <2> QED BY <2>1, Statements DEF Ordered
<1> QED BY <1>1 DEF Shape, Answered, At

\* A failed sign-in has one of its reasons; the action property, for one request.
Explained(r) ==
  req[r].ask.kind = "oauth" /\ ~Answered(r) /\ req'[r].todo = <<>> /\ req'[r].verdict = "refused" =>
    \/ Met(r, {"signup", "oauth"})
    \/ \E u \in Linked(req[r].ask.identity) : users[u].email # req[r].ask.email

\* The users table's ids.
LEMMA RowIds ==
  ASSUME AccountInv, NEW u \in Rows
  PROVE  u \in 1..born /\ u \in Ids /\ u \in Nat /\ users[u] \in Row /\ users[u].email \in Emails
<1>1. u \in Ids /\ users \in [Ids -> Row] /\ born \in Nat /\ u <= born /\ users[u].email \in Emails
  BY AccountAccessAssumption DEF AccountInv, Types, Accounts, Rows
<1> QED BY <1>1, AccountAccessAssumption DEF Ids

LEMMA FindEmailStep ==
  ASSUME AccountInv, NEW r \in Requests, FindEmail(r)
  PROVE  AccountInv' /\ Explained(r)
<1> DEFINE kind == req[r].ask.kind
           found == WithEmail(req[r].ask.email)
<1>1. /\ At(r, "findEmail") /\ Kept(r) /\ Shape(r) /\ ~Answered(r) /\ req[r] \in Request
      /\ kind \in {"signup", "login", "oauth", "request"} /\ kind \in Kinds
      /\ Goes(r) \in Request
      /\ Goes(r).ask = req[r].ask /\ Goes(r).met = req[r].met /\ Goes(r).user = req[r].user
  <2>1. At(r, "findEmail") /\ Kept(r) /\ Shape(r) /\ req[r] \in Request
    BY DEF FindEmail, AccountInv, Kept, Shape
  <2> QED BY <2>1, Advance DEF KindsAt
<1>2. ASSUME NEW v \in {"ok", "refused"}, Reads(r, Ends(v)), kind # "oauth"
      PROVE  AccountInv' /\ Explained(r)
  BY <1>2, IdleRequest, ReadEnds DEF Explained
<1>3. CASE found = {} /\ kind \in {"signup", "oauth"}
  <2>1. Reads(r, Goes(r)) /\ req'[r] = Goes(r) /\ After(kind, "findEmail") = "insertUser"
    <3>1. Reads(r, Goes(r))
      BY <1>1, <1>3 DEF FindEmail
    <3> QED BY <1>3, <3>1 DEF Reads, AccountInv, Types, After
  <2>2. Shape(r)' /\ ~Answered(r)' /\ \A x : At(r, x)' <=> x = "insertUser"
    BY <1>1, <2>1, GoesOn DEF Reads
  <2>3. UserRead(r)'
    BY <1>1, <1>3, <2>1, <2>2 DEF UserRead, Reads, WithEmail, Rows
  <2>4. TokenRead(r)'
    BY <2>2 DEF TokenRead
  <2> QED BY <2>1, <2>2, <2>3, <2>4, ReadStep DEF Kept, Explained, Answered
<1>4. CASE found = {} /\ kind \in {"login", "request"}
  <2>1. Reads(r, Ends("refused")) \/ Reads(r, Ends("ok"))
    BY <1>1, <1>4 DEF FindEmail
  <2> QED BY <1>2, <1>4, <2>1
<1>5. CASE found # {}
  <2>1. PICK u \in found :
          Reads(r, CASE kind = "signup" -> Ends("refused")
                     [] kind = "oauth" -> [req[r] EXCEPT !.user = u, !.todo = <<"linkUser">>]
                     [] kind = "request" -> [Goes(r) EXCEPT !.user = u]
                     [] OTHER -> [req[r] EXCEPT !.user = u, !.todo = <<"compare">>, !.seen = users[u].password])
    BY <1>5 DEF FindEmail
  <2>2. /\ u \in Rows /\ u \in 1..born /\ u \in Nat /\ users[u].email = req[r].ask.email
        /\ users[u].password \in Passwords \union {None}
    BY <2>1, RowIds DEF WithEmail, Row
  <2>3. CASE kind = "signup"
    BY <1>2, <2>1, <2>3
  <2>4. CASE kind = "oauth"
    <3> DEFINE q == [req[r] EXCEPT !.user = u, !.todo = <<"linkUser">>]
    <3>1. Reads(r, q) /\ req'[r] = q
      <4>1. Reads(r, q)
        BY <2>1, <2>4
      <4> QED BY <4>1 DEF Reads, AccountInv, Types
    <3>2. <<"linkUser">> \in Todos("oauth") /\ <<"linkUser">> \in Lists
      <4>1. <<"linkUser">> \in Todos("oauth")
        BY DEF Todos
      <4> QED BY <4>1 DEF Lists, Kinds
    <3> DEFINE list == <<"linkUser">>
               seen == users[u].password
    <3>0. q = WithUser(req[r], u, list)
      BY DEF WithUser
    <3> HIDE DEF q
    <3>3. q \in Request /\ q.ask = req[r].ask /\ q.todo = <<"linkUser">> /\ q.met = req[r].met /\ q.user = u
      <4>1. list \in Lists /\ seen \in Passwords \union {None}
        BY <2>2, <3>2
      <4>2. list = <<"linkUser">>
        OBVIOUS
      <4> HIDE DEF list, seen
      <4> QED BY <1>1, <2>2, <3>0, <4>1, <4>2, NotesLinked
    <3>4. Shape(r)' /\ \A x : At(r, x)' <=> x = "linkUser"
      <4>1. Head(q.todo) = "linkUser"
        BY <3>3
      <4> QED BY <1>1, <2>4, <3>1, <3>2, <3>3, <4>1, MovesTo DEF Reads
    <3>5. /\ req'[r].user = u /\ req'[r].ask = req[r].ask /\ born' = born /\ users' = users
          /\ u \in Rows' /\ Rows' = Rows
      BY <2>2, <3>1, <3>3 DEF Reads, Rows
    <3>6. UserRead(r)'
      BY <2>2, <3>4, <3>5 DEF UserRead
    <3>7. TokenRead(r)'
      BY <3>4 DEF TokenRead
    <3> QED BY <3>1, <3>3, <3>4, <3>6, <3>7, ReadStep DEF Kept, Explained
  <2>5. CASE kind = "request"
    <3> DEFINE q == [Goes(r) EXCEPT !.user = u]
    <3>1. Reads(r, q) /\ req'[r] = q
      <4>1. Reads(r, q)
        BY <2>1, <2>5
      <4> QED BY <4>1 DEF Reads, AccountInv, Types
    <3>2. q \in Request /\ q.ask = req[r].ask /\ q.todo = Goes(r).todo /\ q.met = req[r].met /\ q.user = u
      BY <1>1, <2>2, NotesUser
    <3> HIDE DEF q
    <3>3. Shape(r)' /\ \A x : At(r, x)' <=> x = "spendOld"
      BY <1>1, <2>5, <3>1, <3>2, GoesOn DEF Reads, After
    <3>4. UserRead(r)' /\ TokenRead(r)'
      BY <3>3 DEF UserRead, TokenRead
    <3> QED BY <2>5, <3>1, <3>3, <3>4, ReadStep DEF Kept, Explained
  <2>6. CASE kind = "login"
    <3> DEFINE q == [req[r] EXCEPT !.user = u, !.todo = <<"compare">>, !.seen = users[u].password]
    <3>1. Reads(r, q) /\ req'[r] = q
      <4>1. Reads(r, q)
        BY <2>1, <2>6
      <4> QED BY <4>1 DEF Reads, AccountInv, Types
    <3>2. <<"compare">> \in Todos("login") /\ <<"compare">> \in Lists
      <4>1. <<"compare">> \in Todos("login")
        BY DEF Todos
      <4> QED BY <4>1 DEF Lists, Kinds
    <3> DEFINE list == <<"compare">>
               seen == users[u].password
    <3>0. q = WithAccount(req[r], u, list, seen)
      BY DEF WithAccount
    <3> HIDE DEF q
    <3>3. q \in Request /\ q.ask = req[r].ask /\ q.todo = <<"compare">> /\ q.met = req[r].met /\ q.user = u
      <4>1. list \in Lists /\ seen \in Passwords \union {None}
        BY <2>2, <3>2
      <4>2. list = <<"compare">>
        OBVIOUS
      <4> HIDE DEF list, seen
      <4> QED BY <1>1, <2>2, <3>0, <4>1, <4>2, NotesAccount
    <3>4. Shape(r)' /\ \A x : At(r, x)' <=> x = "compare"
      <4>1. Head(q.todo) = "compare"
        BY <3>3
      <4> QED BY <1>1, <2>6, <3>1, <3>2, <3>3, <4>1, MovesTo DEF Reads
    <3>5. /\ req'[r].user = u /\ req'[r].ask = req[r].ask /\ born' = born /\ users' = users
          /\ u \in Rows' /\ Rows' = Rows
      BY <2>2, <3>1, <3>3 DEF Reads, Rows
    <3>6. UserRead(r)'
      BY <2>2, <3>4, <3>5 DEF UserRead
    <3>7. TokenRead(r)'
      BY <3>4 DEF TokenRead
    <3> QED BY <2>6, <3>1, <3>4, <3>6, <3>7, ReadStep DEF Kept, Explained
  <2> QED BY <1>1, <2>3, <2>4, <2>5, <2>6
<1> QED BY <1>1, <1>3, <1>4, <1>5

\* What is known of a request at a statement.
LEMMA AtStatement ==
  ASSUME AccountInv, NEW r \in Requests, NEW s, At(r, s)
  PROVE  /\ Kept(r) /\ Shape(r) /\ ~Answered(r) /\ req[r] \in Request /\ req[r].user \in Nat
         /\ req[r].ask \in Call /\ req[r].ask.kind \in KindsAt(s) /\ req[r].ask.kind \in Kinds
         /\ Goes(r) \in Request /\ \A x : At(r, x) <=> x = s
         /\ Goes(r).ask = req[r].ask /\ Goes(r).met = req[r].met /\ Goes(r).user = req[r].user
<1>1. Kept(r) /\ Shape(r) /\ req[r] \in Request
  BY DEF AccountInv, Kept, Shape
<1> QED BY <1>1, Advance DEF Request, Call

\* Only a sign-in with a provider has to explain itself.
LEMMA NotOAuth ==
  ASSUME NEW r \in Requests, req[r].ask.kind # "oauth"
  PROVE  Explained(r)
  BY DEF Explained

LEMMA CompareStep ==
  ASSUME AccountInv, NEW r \in Requests, Compare(r)
  PROVE  AccountInv' /\ Explained(r)
<1>1. Kept(r) /\ At(r, "compare") /\ req[r].ask.kind = "login" /\ r \in DOMAIN req
  BY AtStatement DEF Compare, KindsAt, AccountInv, Types
<1>2. PICK v \in {"ok", "refused"} : req' = [req EXCEPT ![r] = Ends(v)]
  <2>1. PICK q : q = (IF req[r].seen = req[r].ask.password THEN "ok" ELSE "refused")
    OBVIOUS
  <2> QED BY <2>1 DEF Compare
<1>3. req'[r] = Ends(v)
  BY <1>1, <1>2
<1>4. Kept(r)'
  BY <1>3, IdleRequest, AnsweredKept
<1>5. sessions' \subseteq 1..born
  <2>1. req[r].user \in 1..born
    BY <1>1 DEF Kept, UserRead
  <2> QED BY <2>1 DEF Compare, AccountInv, Types
<1>6. Quiet /\ mailed' \subseteq DOMAIN tokens /\ now' = now
  BY DEF Compare, Quiet, AccountInv, Types
<1> QED BY <1>1, <1>2, <1>4, <1>5, <1>6, NotOAuth, QuietStep

LEMMA SameTokens ==
  ASSUME AccountInv, UNCHANGED <<tokens, mailed, spent>>, crossed \subseteq crossed'
  PROVE  /\ Links' /\ tokens' \in Seq(Token) /\ mailed' \subseteq DOMAIN tokens' /\ spent' \subseteq DOMAIN tokens'
         /\ \A u : LiveOf(u)' = LiveOf(u)
  BY DEF AccountInv, Types, Links, LiveOf

\* The users table after a step that inserts no row and changes neither address nor identity.
Rewritten ==
  /\ users' \in [Ids -> Row]
  /\ \A u \in Ids : \/ users'[u] = NoUser
                    \/ u \in Rows /\ users'[u].email = users[u].email /\ users'[u].linked = users[u].linked

LEMMA RewrittenKeeps ==
  ASSUME AccountInv, Rewritten, born' = born
  PROVE  /\ Accounts' /\ \A e : WithEmail(e)' \subseteq WithEmail(e)
         /\ \A u \in Rows' : u \in Rows /\ users'[u].email = users[u].email
<1>1. \A u \in Rows' : u \in Rows /\ users'[u].email = users[u].email /\ users'[u].linked = users[u].linked
  BY DEF Rewritten, Rows
<1>2. Accounts'
  BY <1>1 DEF AccountInv, Accounts
<1> QED BY <1>1, <1>2 DEF WithEmail

\* A row with another password.
LEMMA PasswordSet ==
  ASSUME AccountInv, NEW u \in Rows, NEW p \in Passwords \union {None}, users' = [users EXCEPT ![u].password = p]
  PROVE  Rewritten
<1>1. users \in [Ids -> Row] /\ u \in Ids /\ users[u] \in Row
  BY RowIds DEF AccountInv, Types
<1> DEFINE row == [users[u] EXCEPT !.password = p]
<1>2. row \in Row /\ row.email = users[u].email /\ row.linked = users[u].linked
  <2>1. row = [email |-> users[u].email, password |-> p, linked |-> users[u].linked]
    BY <1>1 DEF Row
  <2> QED BY <1>1, <2>1 DEF Row
<1>3. users' = [users EXCEPT ![u] = row]
  BY <1>1
<1> HIDE DEF row
<1>4. users' \in [Ids -> Row] /\ users'[u] = row /\ \A v \in Ids \ {u} : users'[v] = users[v]
  BY <1>1, <1>2, <1>3
<1> QED BY <1>2, <1>4 DEF Rewritten, Rows

\* A request that stores a password and leaves the tokens alone.
LEMMA StoresOnly ==
  ASSUME AccountInv, NEW r \in Requests, ~Answered(r), Writes(r, Ends("ok")),
         req[r].ask.kind \in {"change", "script"},
         UNCHANGED <<born, tokens, mailed, sessions, spent>>, Rewritten
  PROVE  AccountInv'
<1>1. crossed \subseteq crossed'
  BY DEF Writes
<1>2. /\ Links' /\ tokens' \in Seq(Token) /\ mailed' \subseteq DOMAIN tokens' /\ spent' \subseteq DOMAIN tokens'
      /\ \A u : LiveOf(u)' = LiveOf(u)
  BY <1>1, SameTokens
<1>3. /\ Accounts' /\ \A e : WithEmail(e)' \subseteq WithEmail(e)
      /\ \A u \in Rows' : u \in Rows /\ users'[u].email = users[u].email
  BY RewrittenKeeps
<1>4. Changes(req[r].ask.kind)
  <2>1. born' \in born..MaxUsers
    BY AccountAccessAssumption DEF AccountInv, Types
  <2> QED BY <1>2, <1>3, <2>1 DEF Changes
<1>5. sessions' \subseteq 1..born' /\ users' \in [Ids -> Row]
  BY DEF AccountInv, Types, Rewritten
<1> QED BY <1>2, <1>3, <1>4, <1>5, WriteEnds

LEMMA SameRows ==
  ASSUME AccountInv, users' = users
  PROVE  Rewritten
  BY DEF Rewritten, AccountInv, Types, Rows

LEMMA StorePasswordStep ==
  ASSUME AccountInv, NEW r \in Requests, StorePassword(r)
  PROVE  AccountInv' /\ Explained(r)
<1>1. ~Answered(r) /\ req[r].ask.kind = "change" /\ req[r].ask.password \in Passwords \union {None}
  BY AtStatement DEF StorePassword, KindsAt, Call
<1>2. Rewritten
  BY <1>1, PasswordSet, SameRows DEF StorePassword
<1>3. AccountInv'
  BY <1>1, <1>2, StoresOnly DEF StorePassword
<1> QED BY <1>1, <1>3, NotOAuth

LEMMA StoreByEmailStep ==
  ASSUME AccountInv, NEW r \in Requests, StoreByEmail(r)
  PROVE  AccountInv' /\ Explained(r)
<1>1. ~Answered(r) /\ req[r].ask.kind = "script" /\ req[r].ask.password \in Passwords \union {None}
  BY AtStatement DEF StoreByEmail, KindsAt, Call
<1>2. CASE Reads(r, Ends("refused"))
  BY <1>1, <1>2, NotOAuth, IdleRequest, ReadEnds
<1>3. CASE ~Reads(r, Ends("refused"))
  <2>1. PICK u \in WithEmail(req[r].ask.email) :
          /\ users' = [users EXCEPT ![u].password = req[r].ask.password]
          /\ Writes(r, Ends("ok"))
          /\ UNCHANGED <<born, tokens, mailed, sessions, spent>>
    BY <1>3 DEF StoreByEmail
  <2>2. Rewritten
    BY <1>1, <2>1, PasswordSet DEF WithEmail
  <2> QED BY <1>1, <2>1, <2>2, StoresOnly, NotOAuth
<1> QED BY <1>2, <1>3

LEMMA FindUserStep ==
  ASSUME AccountInv, NEW r \in Requests, FindUser(r)
  PROVE  AccountInv' /\ Explained(r)
<1>1. /\ Kept(r) /\ Shape(r) /\ At(r, "findUser") /\ ~Answered(r) /\ req[r].ask.kind = "change"
      /\ Goes(r) \in Request /\ Goes(r).ask = req[r].ask /\ Goes(r).met = req[r].met
      /\ Goes(r).user = req[r].user
  BY AtStatement DEF FindUser, KindsAt
<1>2. CASE Reads(r, Ends("refused"))
  BY <1>1, <1>2, NotOAuth, IdleRequest, ReadEnds
<1>3. CASE ~Reads(r, Ends("refused"))
  <2> DEFINE u == req[r].user
             seen == users[u].password
             q == [Goes(r) EXCEPT !.seen = seen]
  <2>1. u \in Rows /\ Reads(r, q)
    BY <1>3 DEF FindUser
  <2>2. u \in 1..born /\ seen \in Passwords \union {None}
    BY <2>1, RowIds DEF Row
  <2>3. /\ q \in Request /\ q.ask = req[r].ask /\ q.todo = Goes(r).todo /\ q.met = req[r].met
        /\ q.user = u /\ q.seen = seen
    BY <1>1, <2>2, NotesSeen
  <2> HIDE DEF q
  <2>4. req'[r] = q /\ UNCHANGED <<users, born, tokens>>
    BY <2>1 DEF Reads, AccountInv, Types
  <2>5. Shape(r)' /\ \A x : At(r, x)' <=> x = "storePassword"
    BY <1>1, <2>3, <2>4, GoesOn DEF After
  <2>6. req'[r].user = u /\ req'[r].seen = users'[u].password /\ u \in 1..born'
    BY <2>2, <2>3, <2>4
  <2>7. UserRead(r)' /\ TokenRead(r)'
    BY <2>5, <2>6 DEF UserRead, TokenRead
  <2> QED BY <1>1, <2>1, <2>5, <2>7, NotOAuth, ReadStep DEF Kept
<1> QED BY <1>2, <1>3

\* The profile of a sign-in with a provider.
LEMMA Profile ==
  ASSUME AccountInv, NEW r \in Requests, ~Answered(r), req[r].ask.kind = "oauth"
  PROVE  LET i == req[r].ask.identity IN
         i \in Identities /\ i.id \in Names /\ i.id # None /\ i.provider \in Providers
  BY AccountAccessAssumption DEF AccountInv, Kept, Shape, Names

LEMMA InsertUserStep ==
  ASSUME AccountInv, NEW r \in Requests, InsertUser(r)
  PROVE  AccountInv' /\ Explained(r)
<1> DEFINE ask == req[r].ask
           i == ask.identity
           linked == IF ask.kind = "oauth" THEN [Unlinked EXCEPT ![i.provider] = i.id] ELSE Unlinked
<1>1. /\ Kept(r) /\ Shape(r) /\ At(r, "insertUser") /\ ~Answered(r) /\ ask.kind \in {"signup", "oauth"}
      /\ ask.email \in Emails /\ ask.password \in Passwords \union {None}
  BY AtStatement DEF InsertUser, KindsAt, Shape, Call
<1>2. CASE WithEmail(ask.email) # {} \/ (ask.kind = "oauth" /\ Linked(i) # {})
  <2>1. Reads(r, Ends("refused"))
    BY <1>2 DEF InsertUser
  <2>2. AccountInv'
    BY <2>1, IdleRequest, ReadEnds
  <2>3. Explained(r)
    <3>1. CASE WithEmail(ask.email) # {}
      BY <1>1, <3>1 DEF Kept, UserRead, Explained
    <3>2. CASE WithEmail(ask.email) = {}
      <4>1. ask.kind # "oauth" \/ \E u \in Linked(i) : users[u].email # ask.email
        BY <1>2, <3>2 DEF WithEmail, Linked
      <4> QED BY <4>1 DEF Explained
    <3> QED BY <3>1, <3>2
  <2> QED BY <2>2, <2>3
<1>3. CASE ~(WithEmail(ask.email) # {} \/ (ask.kind = "oauth" /\ Linked(i) # {}))
  <2> DEFINE row == [email |-> ask.email, password |-> ask.password, linked |-> linked]
             n == born + 1
  <2>1. /\ born < MaxUsers /\ users' = [users EXCEPT ![n] = row] /\ born' = n
        /\ sessions' = sessions \union {n} /\ Writes(r, Ends("ok")) /\ UNCHANGED <<tokens, mailed, spent>>
    BY <1>3 DEF InsertUser
  <2>2. /\ n \in Ids /\ born \in Nat /\ n \notin Rows /\ \A u \in Rows : u \in 1..born
    <3>1. born \in 0..MaxUsers /\ born \in Nat /\ MaxUsers \in Nat
      BY AccountAccessAssumption DEF AccountInv, Types
    <3>2. n \in Ids
      BY <2>1, <3>1 DEF Ids
    <3>3. \A u \in Rows : u \in 1..born
      BY RowIds
    <3> QED BY <3>1, <3>2, <3>3
  <2>3. linked \in [Providers -> Names]
    <3>1. Unlinked \in [Providers -> Names]
      BY DEF Unlinked, Names
    <3>2. CASE ask.kind = "oauth"
      <4>1. i.id \in Names
        BY <1>1, <3>2, Profile
      <4> QED BY <3>1, <3>2, <4>1
    <3> QED BY <3>1, <3>2
  <2>4. \A p \in Providers : linked[p] # None => ask.kind = "oauth" /\ p = i.provider /\ linked[p] = i.id
    <3>1. \A p \in Providers : Unlinked[p] = None
      BY DEF Unlinked
    <3>2. CASE ask.kind = "oauth"
      BY <3>1, <3>2 DEF Unlinked
    <3>3. CASE ask.kind # "oauth"
      BY <3>1, <3>3
    <3> QED BY <3>2, <3>3
  <2> HIDE DEF linked
  <2>5. row \in Row /\ row # NoUser /\ row.email = ask.email /\ row.linked = linked
    <3>1. row.email # None
      BY <1>1, AccountAccessAssumption
    <3> QED BY <1>1, <2>3, <3>1 DEF Row, NoUser
  <2> HIDE DEF row
  <2>6. /\ users' \in [Ids -> Row] /\ users'[n] = row /\ \A u \in Ids \ {n} : users'[u] = users[u]
        /\ Rows' = Rows \union {n}
    <3>1. users \in [Ids -> Row]
      BY DEF AccountInv, Types
    <3>2. users' \in [Ids -> Row] /\ users'[n] = row /\ \A u \in Ids \ {n} : users'[u] = users[u]
      BY <2>1, <2>2, <2>5, <3>1
    <3> QED BY <2>2, <2>5, <3>2 DEF Rows
  <2>7. \A u \in Rows : u # n /\ users'[u] = users[u] /\ users[u].email # ask.email
    BY <1>3, <2>2, <2>6 DEF Rows, WithEmail
  <2>8. Accounts'
    <3>1. \A u \in Rows' : u <= born' /\ users'[u].email \in Emails
      BY <1>1, <2>1, <2>2, <2>5, <2>6, <2>7 DEF AccountInv, Accounts
    <3>2. ASSUME NEW u \in Rows, NEW v \in Rows, u # v
          PROVE  /\ users'[u].email # users'[v].email
                 /\ \A p \in Providers : users'[u].linked[p] # None => users'[u].linked[p] # users'[v].linked[p]
      BY <2>7, <3>2 DEF AccountInv, Accounts
    <3>3. ASSUME NEW u \in Rows
          PROVE  /\ users'[u].email # users'[n].email
                 /\ \A p \in Providers :
                      /\ users'[u].linked[p] # None => users'[u].linked[p] # users'[n].linked[p]
                      /\ users'[n].linked[p] # None => users'[n].linked[p] # users'[u].linked[p]
      <4>1. ASSUME NEW p \in Providers, linked[p] # None PROVE users[u].linked[p] # linked[p]
        <5>1. ask.kind = "oauth" /\ p = i.provider /\ linked[p] = i.id
          BY <2>4, <4>1
        <5> QED BY <1>3, <5>1 DEF Linked
      <4> QED BY <2>5, <2>6, <2>7, <4>1
    <3> QED BY <2>6, <3>1, <3>2, <3>3 DEF Accounts
  <2>9. Changes(ask.kind)
    <3>1. \A u : LiveOf(u)' = LiveOf(u)
      BY <2>1 DEF LiveOf
    <3>2. born' \in born..MaxUsers
      BY <2>1, <2>2 DEF Ids
    <3>3. \A u \in 1..born : u \in Rows' => u \in Rows /\ users'[u] = users[u]
      BY <2>2, <2>6, <2>7
    <3> QED BY <1>1, <2>1, <3>1, <3>2, <3>3 DEF Changes
  <2>10. sessions' \subseteq 1..born'
    BY <2>1, <2>2 DEF AccountInv, Types
  <2>11. /\ Links' /\ tokens' \in Seq(Token) /\ mailed' \subseteq DOMAIN tokens' /\ spent' \subseteq DOMAIN tokens'
    BY <2>1, SameTokens DEF Writes
  <2>12. AccountInv'
    BY <1>1, <2>1, <2>6, <2>8, <2>9, <2>10, <2>11, WriteEnds
  <2>13. Explained(r)
    BY <2>1, IdleRequest DEF Explained, Writes
  <2> QED BY <2>12, <2>13
<1> QED BY <1>2, <1>3

LEMMA LinkUserStep ==
  ASSUME AccountInv, NEW r \in Requests, LinkUser(r)
  PROVE  AccountInv' /\ Explained(r)
<1> DEFINE u == req[r].user
           i == req[r].ask.identity
           fills == u \in Rows /\ users[u].linked[i.provider] = None
<1>1. /\ Kept(r) /\ Shape(r) /\ At(r, "linkUser") /\ ~Answered(r) /\ req[r].ask.kind = "oauth"
      /\ i.id \in Names /\ i.id # None /\ i.provider \in Providers
  BY AtStatement, Profile DEF LinkUser, KindsAt
<1>2. u \in 1..born /\ (u \in Rows => users[u].email = req[r].ask.email)
  BY <1>1 DEF Kept, UserRead
<1>3. CASE fills /\ Linked(i) # {}
  <2>1. Reads(r, Ends("refused"))
    BY <1>3 DEF LinkUser
  <2>2. PICK v \in Linked(i) : TRUE
    BY <1>3
  <2>3. v \in Rows /\ v # u
    BY <1>1, <1>3, <2>2 DEF Linked
  <2>4. users[v].email # req[r].ask.email
    BY <1>2, <1>3, <2>3 DEF AccountInv, Accounts
  <2>5. Explained(r)
    BY <2>2, <2>4 DEF Explained
  <2> QED BY <2>1, <2>5, IdleRequest, ReadEnds
<1>4. CASE ~(fills /\ Linked(i) # {})
  <2>1. /\ users' = IF fills THEN [users EXCEPT ![u].linked[i.provider] = i.id] ELSE users
        /\ sessions' = sessions \union {u} /\ Writes(r, Ends("ok"))
        /\ UNCHANGED <<born, tokens, mailed, spent>>
    BY <1>4 DEF LinkUser
  <2>2. /\ users' \in [Ids -> Row] /\ Accounts' /\ \A e : WithEmail(e)' = WithEmail(e)
        /\ \A v \in Rows' : /\ v \in Rows /\ users'[v].email = users[v].email
                            /\ users'[v].password = users[v].password
    <3>1. CASE ~fills
      <4>1. users' = users /\ Rows' = Rows
        BY <2>1, <3>1 DEF Rows
      <4>2. \A e : WithEmail(e)' = WithEmail(e)
        BY <4>1 DEF WithEmail
      <4>3. users' \in [Ids -> Row] /\ Accounts'
        BY <2>1, <4>1, SameRows, RewrittenKeeps DEF Rewritten
      <4> QED BY <4>1, <4>2, <4>3
    <3>2. CASE fills
      <4> DEFINE linked == [users[u].linked EXCEPT ![i.provider] = i.id]
                 row == [users[u] EXCEPT !.linked = linked]
      <4>1. users \in [Ids -> Row] /\ u \in Ids /\ users[u] \in Row /\ users[u].email \in Emails /\ u \in Rows
        BY <3>2, RowIds DEF AccountInv, Types
      <4>2. /\ linked \in [Providers -> Names] /\ linked[i.provider] = i.id
            /\ \A p \in Providers \ {i.provider} : linked[p] = users[u].linked[p]
        <5>1. users[u].linked \in [Providers -> Names]
          BY <4>1 DEF Row
        <5> QED BY <1>1, <5>1
      <4>3. users' = [users EXCEPT ![u] = [users[u] EXCEPT !.linked = linked]]
        BY <2>1, <3>2
      <4> HIDE DEF linked
      <4>4. /\ row \in Row /\ row.email = users[u].email /\ row.password = users[u].password
            /\ row.linked = linked /\ row # NoUser
        <5>1. row = [email |-> users[u].email, password |-> users[u].password, linked |-> linked]
          BY <4>1 DEF Row
        <5>2. row \in Row /\ row.email = users[u].email /\ row.password = users[u].password /\ row.linked = linked
          BY <4>1, <4>2, <5>1 DEF Row
        <5>3. row.email # None
          BY <4>1, <5>2, AccountAccessAssumption
        <5> HIDE DEF row
        <5> QED BY <5>2, <5>3 DEF NoUser
      <4>5. users' = [users EXCEPT ![u] = row]
        BY <4>3
      <4> HIDE DEF row
      <4>6. users' \in [Ids -> Row] /\ users'[u] = row /\ \A v \in Ids \ {u} : users'[v] = users[v]
        BY <4>1, <4>4, <4>5
      <4>7. Rows' = Rows /\ Rows \subseteq Ids
        BY <4>1, <4>4, <4>6 DEF Rows
      <4>8. \A v \in Rows : users'[v].email = users[v].email /\ users'[v].password = users[v].password
        BY <4>4, <4>6, <4>7
      <4>9. \A p \in Providers : users'[u].linked[p] # None =>
              \A v \in Rows \ {u} : users[v].linked[p] # users'[u].linked[p]
        <5> SUFFICES ASSUME NEW p \in Providers, linked[p] # None, NEW v \in Rows \ {u}
                     PROVE  users[v].linked[p] # linked[p]
          BY <4>4, <4>6
        <5>1. CASE p = i.provider
          BY <1>4, <3>2, <4>2, <5>1 DEF Linked
        <5>2. CASE p # i.provider
          BY <4>1, <4>2, <5>2 DEF AccountInv, Accounts
        <5> QED BY <5>1, <5>2
      <4>10. \A p \in Providers : \A v \in Rows \ {u} : users[v].linked[p] # None =>
               users[v].linked[p] # users'[u].linked[p]
        BY <4>9
      <4>11. ASSUME NEW v \in Rows', NEW w \in Rows', v # w
             PROVE  /\ users'[v].email # users'[w].email
                    /\ \A p \in Providers : users'[v].linked[p] # None =>
                         users'[v].linked[p] # users'[w].linked[p]
        <5>1. v \in Rows /\ w \in Rows
          BY <4>7
        <5>2. users'[v].email # users'[w].email
          BY <4>8, <4>11, <5>1 DEF AccountInv, Accounts
        <5>3. CASE v = u
          BY <4>6, <4>7, <4>9, <4>11, <5>1, <5>2, <5>3
        <5>4. CASE w = u
          BY <4>6, <4>7, <4>10, <4>11, <5>1, <5>2, <5>4
        <5>5. CASE v # u /\ w # u
          BY <4>6, <4>7, <4>11, <5>1, <5>2, <5>5 DEF AccountInv, Accounts
        <5> QED BY <5>3, <5>4, <5>5
      <4>12. Accounts'
        BY <2>1, <4>7, <4>8, <4>11 DEF AccountInv, Accounts
      <4>13. \A e : WithEmail(e)' = WithEmail(e)
        BY <4>7, <4>8 DEF WithEmail
      <4> QED BY <4>6, <4>7, <4>8, <4>12, <4>13
    <3> QED BY <3>1, <3>2
  <2>3. Changes(req[r].ask.kind)
    <3>1. \A v : LiveOf(v)' = LiveOf(v)
      BY <2>1 DEF LiveOf
    <3>2. born' \in born..MaxUsers
      BY <2>1, AccountAccessAssumption DEF AccountInv, Types
    <3> QED BY <2>1, <2>2, <3>1, <3>2 DEF Changes
  <2>4. sessions' \subseteq 1..born'
    BY <1>2, <2>1 DEF AccountInv, Types
  <2>5. /\ Links' /\ tokens' \in Seq(Token) /\ mailed' \subseteq DOMAIN tokens' /\ spent' \subseteq DOMAIN tokens'
    BY <2>1, SameTokens DEF Writes
  <2>6. AccountInv'
    BY <1>1, <2>1, <2>2, <2>3, <2>4, <2>5, WriteEnds
  <2>7. Explained(r)
    BY <2>1, IdleRequest DEF Explained, Writes
  <2> QED BY <2>6, <2>7
<1> QED BY <1>3, <1>4

\* Tokens marked as used, and the ids of tokens.
LEMMA UsedTokens ==
  ASSUME Types, NEW ts
  PROVE  /\ Used(ts) \in Seq(Token) /\ DOMAIN Used(ts) = DOMAIN tokens /\ DOMAIN tokens \subseteq Nat
         /\ Len(Used(ts)) = Len(tokens) /\ DOMAIN tokens = 1..Len(tokens) /\ Len(tokens) \in Nat
         /\ \A t \in DOMAIN tokens : /\ Used(ts)[t].user = tokens[t].user
                                     /\ Used(ts)[t].used <=> tokens[t].used \/ t \in ts
<1>1. tokens \in Seq(Token) /\ DOMAIN tokens = 1..Len(tokens) /\ Len(tokens) \in Nat
  BY DEF Types
<1>2. \A t \in DOMAIN tokens : tokens[t] \in Token
  BY <1>1
<1> DEFINE Mark(t) == [tokens[t] EXCEPT !.used = @ \/ t \in ts]
<1>3. ASSUME NEW t \in DOMAIN tokens
      PROVE  /\ Mark(t) \in Token /\ Mark(t).user = tokens[t].user
             /\ Mark(t).used <=> tokens[t].used \/ t \in ts
  <2>1. Mark(t) = [user |-> tokens[t].user, used |-> tokens[t].used \/ t \in ts, ends |-> tokens[t].ends]
    BY <1>2 DEF Token
  <2>2. (tokens[t].used \/ t \in ts) \in BOOLEAN
    OBVIOUS
  <2> QED BY <1>2, <2>1, <2>2 DEF Token
<1>4. Used(ts) = [t \in DOMAIN tokens |-> Mark(t)]
  BY DEF Used
<1> HIDE DEF Mark
<1>5. Used(ts) \in [1..Len(tokens) -> Token]
  BY <1>1, <1>3, <1>4
<1>6. Used(ts) \in Seq(Token) /\ Len(Used(ts)) = Len(tokens) /\ DOMAIN Used(ts) = DOMAIN tokens
  BY <1>1, <1>5
<1> QED BY <1>1, <1>3, <1>4, <1>6

\* The tokens after those of ts are marked as used.
LEMMA MarksUsed ==
  ASSUME AccountInv, NEW ts, tokens' = Used(ts), crossed \subseteq crossed',
         spent' = spent \/ \E t \in ts \intersect DOMAIN tokens : spent' = spent \union {t},
         mailed' = mailed
  PROVE  /\ Links' /\ tokens' \in Seq(Token) /\ DOMAIN tokens' = DOMAIN tokens
         /\ mailed' \subseteq DOMAIN tokens' /\ spent' \subseteq DOMAIN tokens'
         /\ \A u : LiveOf(u)' \subseteq LiveOf(u)
<1>1. /\ tokens' \in Seq(Token) /\ DOMAIN tokens' = DOMAIN tokens
      /\ \A t \in DOMAIN tokens : /\ tokens'[t].user = tokens[t].user
                                  /\ tokens'[t].used <=> tokens[t].used \/ t \in ts
  BY UsedTokens DEF AccountInv
<1>2. spent \subseteq DOMAIN tokens /\ mailed \subseteq DOMAIN tokens /\ \A t \in spent : tokens[t].used
  BY DEF AccountInv, Types, Links
<1>3. spent' \subseteq DOMAIN tokens /\ \A t \in spent' : tokens'[t].used
  BY <1>1, <1>2
<1>4. Links'
  BY <1>1, <1>3 DEF AccountInv, Links
<1> QED BY <1>1, <1>2, <1>3, <1>4 DEF LiveOf

LEMMA SpendOldStep ==
  ASSUME AccountInv, NEW r \in Requests, SpendOld(r)
  PROVE  AccountInv' /\ Explained(r)
<1> DEFINE old == LiveOf(req[r].user)
           q == [Goes(r) EXCEPT !.old = old]
<1>1. /\ Kept(r) /\ Shape(r) /\ At(r, "spendOld") /\ ~Answered(r) /\ req[r].ask.kind = "request"
      /\ Goes(r) \in Request /\ Goes(r).ask = req[r].ask /\ Goes(r).met = req[r].met
      /\ Goes(r).user = req[r].user
  BY AtStatement DEF SpendOld, KindsAt
<1>2. old \in SUBSET Nat
  BY UsedTokens DEF AccountInv, LiveOf
<1>3. Reads(r, q)
  BY DEF SpendOld
<1>4. q \in Request /\ q.ask = req[r].ask /\ q.todo = Goes(r).todo /\ q.met = req[r].met /\ q.user = req[r].user
      /\ q.old = old
  BY <1>1, <1>2, NotesOld
<1> HIDE DEF q
<1>5. req'[r] = q /\ tokens' = tokens
  BY <1>3 DEF Reads, AccountInv, Types
<1>6. Shape(r)' /\ \A x : At(r, x)' <=> x = "addToken"
  BY <1>1, <1>4, <1>5, GoesOn DEF After
<1>7. PICK u : u = req[r].user /\ u = req'[r].user
  BY <1>4, <1>5
<1>8. LiveOf(u)' = req'[r].old
  BY <1>4, <1>5, <1>7 DEF LiveOf
<1>9. UserRead(r)' /\ TokenRead(r)'
  BY <1>6, <1>7, <1>8 DEF UserRead, TokenRead
<1> QED BY <1>1, <1>3, <1>6, <1>9, NotOAuth, ReadStep DEF Kept

LEMMA AddTokenStep ==
  ASSUME AccountInv, NEW r \in Requests, AddToken(r)
  PROVE  AccountInv' /\ Explained(r)
<1> DEFINE user == req[r].user
           old == req[r].old
           n == Len(tokens) + 1
           q == [Goes(r) EXCEPT !.token = n]
<1>1. /\ Kept(r) /\ Shape(r) /\ At(r, "addToken") /\ ~Answered(r) /\ req[r].ask.kind = "request"
      /\ Goes(r) \in Request /\ Goes(r).ask = req[r].ask /\ Goes(r).met = req[r].met
      /\ user \in Nat
  BY AtStatement DEF AddToken, KindsAt
<1>2. CASE user \notin Rows
  <2>1. Reads(r, Ends("refused"))
    BY <1>2 DEF AddToken
  <2> QED BY <1>1, <2>1, IdleRequest, ReadEnds, NotOAuth
<1>3. CASE user \in Rows
  <2> DEFINE new == [user |-> user, used |-> FALSE, ends |-> now + TokenLife]
  <2>1. /\ tokens' = Append(Used(old), new) /\ Writes(r, q)
        /\ UNCHANGED <<users, born, mailed, sessions, spent>>
    BY <1>3 DEF AddToken
  <2>2. /\ Used(old) \in Seq(Token) /\ Len(Used(old)) = Len(tokens) /\ DOMAIN tokens = 1..Len(tokens)
        /\ Len(tokens) \in Nat /\ DOMAIN Used(old) = DOMAIN tokens
        /\ \A t \in DOMAIN tokens : /\ Used(old)[t].user = tokens[t].user
                                    /\ Used(old)[t].used <=> tokens[t].used \/ t \in old
    BY UsedTokens DEF AccountInv
  <2>3. new \in Token /\ new.user = user /\ ~new.used
    BY <1>1, AccountAccessAssumption DEF Token, AccountInv, Types
  <2> HIDE DEF new
  <2>4. /\ tokens' \in Seq(Token) /\ DOMAIN tokens' = 1..n /\ tokens'[n] = new
        /\ \A t \in DOMAIN tokens : tokens'[t] = Used(old)[t]
    BY <2>1, <2>2, <2>3
  <2>5. /\ DOMAIN tokens' = DOMAIN tokens \union {n} /\ n \notin DOMAIN tokens /\ n \in Nat
        /\ tokens'[n].user = user /\ ~tokens'[n].used
        /\ \A t \in DOMAIN tokens : /\ tokens'[t].user = tokens[t].user
                                    /\ tokens'[t].used <=> tokens[t].used \/ t \in old
    BY <2>2, <2>3, <2>4
  <2>6. Links'
    <3>1. spent' \subseteq DOMAIN tokens /\ \A t \in spent' : tokens'[t].used
      BY <2>1, <2>5 DEF AccountInv, Types, Links
    <3>2. CASE <<"request", "request">> \in crossed \/ Met(r, {"request"})
      <4>1. <<"request", "request">> \in crossed'
        BY <1>1, <2>1, <3>2 DEF Writes, Met
      <4> QED BY <3>1, <4>1 DEF Links
    <3>3. CASE ~(<<"request", "request">> \in crossed \/ Met(r, {"request"}))
      <4>1. LiveOf(user) \subseteq old
        BY <1>1, <3>3 DEF Kept, TokenRead
      <4>2. \A t \in DOMAIN tokens : tokens[t].user = user => tokens'[t].used
        BY <2>5, <4>1 DEF LiveOf
      <4>3. \A t1, t2 \in DOMAIN tokens :
              ~tokens[t1].used /\ ~tokens[t2].used /\ tokens[t1].user = tokens[t2].user => t1 = t2
        BY <3>3 DEF AccountInv, Links
      <4>4. \A t1, t2 \in DOMAIN tokens' :
              ~tokens'[t1].used /\ ~tokens'[t2].used /\ tokens'[t1].user = tokens'[t2].user => t1 = t2
        BY <2>5, <4>2, <4>3
      <4> QED BY <3>1, <4>4 DEF Links
    <3> QED BY <3>2, <3>3
  <2>7. Changes(req[r].ask.kind)
    <3>1. /\ Accounts' /\ \A e : WithEmail(e)' \subseteq WithEmail(e)
          /\ \A u \in Rows' : u \in Rows /\ users'[u].email = users[u].email
      BY <2>1, SameRows, RewrittenKeeps
    <3>2. born' \in born..MaxUsers
      BY <2>1, AccountAccessAssumption DEF AccountInv, Types
    <3> QED BY <1>1, <2>1, <2>5, <3>1, <3>2 DEF Changes
  <2>8. q \in Request /\ q.ask = req[r].ask /\ q.todo = Goes(r).todo /\ q.met = req[r].met /\ q.token = n
    BY <1>1, <2>5, NotesToken
  <2> HIDE DEF q
  <2>9. req'[r] = q
    BY <2>1 DEF Writes
  <2>10. Shape(r)' /\ \A x : At(r, x)' <=> x = "mail"
    BY <1>1, <2>5, <2>8, <2>9, GoesOn DEF After
  <2>11. Kept(r)'
    BY <2>5, <2>8, <2>9, <2>10 DEF Kept, UserRead, TokenRead
  <2>12. /\ users' \in [Ids -> Row] /\ Accounts' /\ mailed' \subseteq DOMAIN tokens'
         /\ spent' \subseteq DOMAIN tokens' /\ sessions' \subseteq 1..born'
    <3>1. users' \in [Ids -> Row] /\ Accounts'
      BY <2>1, SameRows, RewrittenKeeps DEF Rewritten
    <3> QED BY <2>1, <2>5, <3>1 DEF AccountInv, Types
  <2>13. AccountInv'
    BY <1>1, <2>1, <2>4, <2>6, <2>7, <2>11, <2>12, WriteStep
  <2> QED BY <1>1, <2>13, NotOAuth
<1> QED BY <1>2, <1>3

LEMMA MailStep ==
  ASSUME AccountInv, NEW r \in Requests, Mail(r)
  PROVE  AccountInv' /\ Explained(r)
<1>1. Kept(r) /\ At(r, "mail") /\ req[r].ask.kind = "request" /\ r \in DOMAIN req
  BY AtStatement DEF Mail, KindsAt, AccountInv, Types
<1>2. PICK v \in {"ok", "refused"} : req' = [req EXCEPT ![r] = Ends(v)]
  BY DEF Mail
<1>3. req'[r] = Ends(v)
  BY <1>1, <1>2
<1>4. Kept(r)'
  BY <1>3, IdleRequest, AnsweredKept
<1>5. mailed' \subseteq DOMAIN tokens
  <2>1. req[r].token \in DOMAIN tokens
    BY <1>1 DEF Kept, TokenRead
  <2> QED BY <2>1 DEF Mail, AccountInv, Types
<1>6. Quiet /\ sessions' \subseteq 1..born /\ now' = now
  BY DEF Mail, Quiet, AccountInv, Types
<1> QED BY <1>1, <1>2, <1>4, <1>5, <1>6, NotOAuth, QuietStep

LEMMA FindTokenStep ==
  ASSUME AccountInv, NEW r \in Requests, FindToken(r)
  PROVE  AccountInv' /\ Explained(r)
<1> DEFINE t == req[r].ask.token
           q == [Goes(r) EXCEPT !.user = tokens[t].user]
<1>1. /\ Kept(r) /\ Shape(r) /\ At(r, "findToken") /\ ~Answered(r) /\ req[r].ask.kind = "confirm"
      /\ Goes(r) \in Request /\ Goes(r).ask = req[r].ask /\ Goes(r).met = req[r].met
      /\ t \in DOMAIN tokens
  BY AtStatement DEF FindToken, KindsAt, Shape
<1>2. CASE ~Live(t)
  <2>1. Reads(r, Ends("refused"))
    BY <1>2 DEF FindToken
  <2> QED BY <1>1, <2>1, IdleRequest, ReadEnds, NotOAuth
<1>3. CASE Live(t)
  <2>1. Reads(r, q)
    BY <1>3 DEF FindToken
  <2>2. tokens[t].user \in Nat /\ ~tokens[t].used /\ t \notin spent
    <3>1. tokens \in Seq(Token) /\ tokens[t] \in Token
      BY <1>1 DEF AccountInv, Types
    <3> QED BY <1>3, <3>1 DEF AccountInv, Links, Live, Token
  <2>3. q \in Request /\ q.ask = req[r].ask /\ q.todo = Goes(r).todo /\ q.met = req[r].met
    BY <1>1, <2>2, NotesUser
  <2> HIDE DEF q
  <2>4. req'[r] = q /\ tokens' = tokens /\ spent' = spent
    BY <2>1 DEF Reads, AccountInv, Types
  <2>5. Shape(r)' /\ \A x : At(r, x)' <=> x = "resetPassword"
    BY <1>1, <2>3, <2>4, GoesOn DEF After
  <2>6. UserRead(r)' /\ TokenRead(r)'
    BY <2>2, <2>3, <2>4, <2>5 DEF UserRead, TokenRead
  <2> QED BY <1>1, <2>1, <2>5, <2>6, NotOAuth, ReadStep DEF Kept
<1> QED BY <1>2, <1>3

LEMMA ResetPasswordStep ==
  ASSUME AccountInv, NEW r \in Requests, ResetPassword(r)
  PROVE  AccountInv' /\ Explained(r)
<1> DEFINE t == req[r].ask.token
           ts == {t} \union LiveOf(req[r].user)
<1>1. /\ ~Answered(r) /\ req[r].ask.kind = "confirm" /\ t \in DOMAIN tokens
      /\ req[r].ask.password \in Passwords \union {None}
  BY AtStatement DEF ResetPassword, KindsAt, Shape, Call
<1>2. Rewritten
  BY <1>1, PasswordSet, SameRows DEF ResetPassword
<1>3. /\ Accounts' /\ \A e : WithEmail(e)' \subseteq WithEmail(e)
      /\ \A u \in Rows' : u \in Rows /\ users'[u].email = users[u].email
      /\ users' \in [Ids -> Row]
  BY <1>2, RewrittenKeeps DEF ResetPassword, Rewritten
<1>4. /\ tokens' = Used(ts) /\ spent' = spent \union {t} /\ mailed' = mailed /\ crossed \subseteq crossed'
      /\ born' = born /\ sessions' = sessions /\ Writes(r, Ends("ok"))
  BY DEF ResetPassword, Writes
<1>5. /\ Links' /\ tokens' \in Seq(Token) /\ DOMAIN tokens' = DOMAIN tokens
      /\ mailed' \subseteq DOMAIN tokens' /\ spent' \subseteq DOMAIN tokens'
      /\ \A u : LiveOf(u)' \subseteq LiveOf(u)
  <2>1. \E x \in ts \intersect DOMAIN tokens : spent' = spent \union {x}
    BY <1>1, <1>4
  <2> HIDE DEF ts
  <2> QED BY <1>4, <2>1, MarksUsed
<1>6. Changes(req[r].ask.kind)
  <2>1. born' \in born..MaxUsers
    BY <1>4, AccountAccessAssumption DEF AccountInv, Types
  <2> QED BY <1>1, <1>3, <1>5, <2>1 DEF Changes
<1>7. sessions' \subseteq 1..born'
  BY <1>4 DEF AccountInv, Types
<1> QED BY <1>1, <1>3, <1>4, <1>5, <1>6, <1>7, WriteEnds, NotOAuth

LEMMA DeleteUserStep ==
  ASSUME AccountInv, NEW r \in Requests, DeleteUser(r)
  PROVE  AccountInv' /\ Explained(r)
<1> DEFINE user == req[r].user
<1>1. ~Answered(r) /\ req[r].ask.kind = "delete"
  BY AtStatement DEF DeleteUser, KindsAt
<1>2. CASE user \notin Rows
  <2>1. Reads(r, Ends("refused"))
    BY <1>2 DEF DeleteUser
  <2> QED BY <1>1, <2>1, IdleRequest, ReadEnds, NotOAuth
<1>3. CASE user \in Rows
  <2> DEFINE ts == LiveOf(user)
  <2>1. /\ users' = [users EXCEPT ![user] = NoUser] /\ tokens' = Used(ts) /\ Writes(r, Ends("ok"))
        /\ UNCHANGED <<born, mailed, sessions, spent>> /\ crossed \subseteq crossed'
    BY <1>3 DEF DeleteUser, Writes
  <2>2. Rewritten
    <3>1. users \in [Ids -> Row]
      BY DEF AccountInv, Types
    <3>2. NoUser \in Row
      BY DEF NoUser, Row, Unlinked, Names
    <3> QED BY <2>1, <3>1, <3>2 DEF Rewritten, Rows
  <2>3. /\ Accounts' /\ \A e : WithEmail(e)' \subseteq WithEmail(e)
        /\ \A u \in Rows' : u \in Rows /\ users'[u].email = users[u].email
        /\ users' \in [Ids -> Row]
    BY <2>1, <2>2, RewrittenKeeps DEF Rewritten
  <2>4. /\ Links' /\ tokens' \in Seq(Token) /\ DOMAIN tokens' = DOMAIN tokens
        /\ mailed' \subseteq DOMAIN tokens' /\ spent' \subseteq DOMAIN tokens'
        /\ \A u : LiveOf(u)' \subseteq LiveOf(u)
    <3> HIDE DEF ts
    <3> QED BY <2>1, MarksUsed
  <2>5. Changes(req[r].ask.kind)
    <3>1. born' \in born..MaxUsers
      BY <2>1, AccountAccessAssumption DEF AccountInv, Types
    <3>2. \A u \in Rows' : users'[u].password = users[u].password
      <4>1. users \in [Ids -> Row]
        BY DEF AccountInv, Types
      <4> QED BY <2>1, <4>1 DEF Rows
    <3> QED BY <1>1, <2>1, <2>3, <2>4, <3>1, <3>2 DEF Changes
  <2>6. sessions' \subseteq 1..born'
    BY <2>1 DEF AccountInv, Types
  <2> QED BY <1>1, <2>1, <2>3, <2>4, <2>5, <2>6, WriteEnds, NotOAuth
<1> QED BY <1>2, <1>3

-----------------------------------------------------------------------------
(* Every step *)

\* The steps of a request that has been admitted.
Works(r) ==
  \/ FindEmail(r) \/ Compare(r) \/ InsertUser(r) \/ LinkUser(r) \/ FindUser(r) \/ StorePassword(r)
  \/ StoreByEmail(r) \/ SpendOld(r) \/ AddToken(r) \/ Mail(r) \/ FindToken(r) \/ ResetPassword(r)
  \/ DeleteUser(r)

LEMMA WorkStep ==
  ASSUME AccountInv, NEW r \in Requests, Works(r)
  PROVE  AccountInv' /\ Explained(r)
  BY FindEmailStep, CompareStep, InsertUserStep, LinkUserStep, FindUserStep, StorePasswordStep,
     StoreByEmailStep, SpendOldStep, AddTokenStep, MailStep, FindTokenStep, ResetPasswordStep,
     DeleteUserStep DEF Works

\* A step of one request answers no other.
LEMMA OthersGoOn ==
  ASSUME AccountInv, NEW r \in Requests, Works(r), NEW x \in Requests, x # r
  PROVE  req'[x].todo = req[x].todo
<1>1. req[x] \in Request /\ DOMAIN req = Requests
  BY DEF AccountInv, Kept, Shape, Types
<1>2. ASSUME NEW q, req' = [req EXCEPT ![r] = q] PROVE req'[x].todo = req[x].todo
  BY <1>1, <1>2
<1>3. ASSUME NEW q, Writes(r, q) PROVE req'[x].todo = req[x].todo
  <2>1. req'[x] = req[x] \/ req'[x] = [req[x] EXCEPT !.met = @ \union {req[r].ask.kind}]
    BY <1>3 DEF Writes
  <2> QED BY <1>1, <2>1 DEF Request
<1>4. ASSUME NEW q, Reads(r, q) PROVE req'[x].todo = req[x].todo
  BY <1>2, <1>4 DEF Reads
<1>5. CASE FindEmail(r)
  BY <1>4, <1>5 DEF FindEmail
<1>6. CASE Compare(r)
  BY <1>1, <1>6 DEF Compare
<1>7. CASE InsertUser(r)
  BY <1>3, <1>4, <1>7 DEF InsertUser
<1>8. CASE LinkUser(r)
  BY <1>3, <1>4, <1>8 DEF LinkUser
<1>9. CASE FindUser(r)
  BY <1>4, <1>9 DEF FindUser
<1>10. CASE StorePassword(r)
  BY <1>3, <1>10 DEF StorePassword
<1>11. CASE StoreByEmail(r)
  BY <1>3, <1>4, <1>11 DEF StoreByEmail
<1>12. CASE SpendOld(r)
  BY <1>4, <1>12 DEF SpendOld
<1>13. CASE AddToken(r)
  BY <1>3, <1>4, <1>13 DEF AddToken
<1>14. CASE Mail(r)
  BY <1>1, <1>14 DEF Mail
<1>15. CASE FindToken(r)
  BY <1>4, <1>15 DEF FindToken
<1>16. CASE ResetPassword(r)
  BY <1>3, <1>16 DEF ResetPassword
<1>17. CASE DeleteUser(r)
  BY <1>3, <1>4, <1>17 DEF DeleteUser
<1> QED BY <1>5, <1>6, <1>7, <1>8, <1>9, <1>10, <1>11, <1>12, <1>13, <1>14, <1>15, <1>16, <1>17 DEF Works

LEMMA TickStep ==
  ASSUME AccountInv, Tick
  PROVE  AccountInv' /\ UNCHANGED req
<1>1. Quiet /\ UNCHANGED req /\ now' \in Nat /\ UNCHANGED <<mailed, sessions>>
  BY DEF Tick, Quiet, AccountInv, Types
<1>2. \A x \in Requests : Kept(x)'
  BY <1>1, QuietKept DEF AccountInv
<1>3. Types'
  BY <1>1 DEF Quiet, AccountInv, Types
<1>4. Accounts' /\ Links'
  BY <1>1 DEF AccountInv, Accounts, Links, Rows, Quiet
<1> QED BY <1>1, <1>2, <1>3, <1>4 DEF AccountInv

LEMMA RestartStep ==
  ASSUME AccountInv, Restart
  PROVE  AccountInv' /\ \A r \in Requests : req'[r].verdict = "ok"
<1>1. /\ Quiet /\ UNCHANGED <<mailed, sessions, now>> /\ DOMAIN req' = Requests
      /\ \A x \in Requests : req'[x] = Idle
  BY DEF Restart, Quiet
<1>2. \A x \in Requests : Kept(x)' /\ req'[x].verdict = "ok"
  BY <1>1, IdleRequest, AnsweredKept
<1>3. Types'
  BY <1>1 DEF Quiet, AccountInv, Types
<1>4. Accounts' /\ Links'
  BY <1>1 DEF AccountInv, Accounts, Links, Rows, Quiet
<1> QED BY <1>2, <1>3, <1>4 DEF AccountInv

LEMMA InvInit ==
  ASSUME Init
  PROVE  AccountInv
<1>1. Types
  <2>1. NoUser \in Row
    BY DEF NoUser, Row, Unlinked, Names
  <2> QED BY <2>1, AccountAccessAssumption DEF Init, Types
<1>2. Rows = {}
  BY DEF Init, Rows
<1>3. Accounts /\ Links
  BY <1>2 DEF Init, Accounts, Links
<1>4. \A r \in Requests : Kept(r)
  <2>1. \A r \in Requests : req[r] = Idle
    BY DEF Init
  <2> QED BY <2>1, IdleRequest DEF Kept, Shape, UserRead, TokenRead, Answered, At
<1> QED BY <1>1, <1>3, <1>4 DEF AccountInv

LEMMA InvNext ==
  ASSUME AccountInv, [Next]_vars
  PROVE  AccountInv' /\ \A r \in Requests : Explained(r)
<1>1. CASE \E r \in Requests : Works(r)
  <2>1. PICK r \in Requests : Works(r)
    BY <1>1
  <2>2. AccountInv' /\ Explained(r)
    BY <2>1, WorkStep
  <2>3. \A x \in Requests : x # r => Explained(x)
    BY <2>1, OthersGoOn DEF Explained, Answered
  <2> QED BY <2>2, <2>3
<1>2. CASE \E r \in Requests : \E ask \in Calls, host \in Hosts : Start(r, ask, host)
  <2>1. PICK r \in Requests, ask \in Calls, host \in Hosts : Start(r, ask, host)
    BY <1>2
  <2>2. AccountInv' /\ req' = [req EXCEPT ![r] = req'[r]] /\ Answered(r)
    BY <2>1, StartStep
  <2>3. \A x \in Requests : x # r => req'[x] = req[x]
    <3>1. DOMAIN req = Requests
      BY DEF AccountInv, Types
    <3> HIDE DEF AccountInv
    <3> QED BY <2>2, <3>1
  <2>4. \A x \in Requests : Explained(x)
    BY <2>2, <2>3 DEF Explained, Answered
  <2> QED BY <2>2, <2>4
<1>3. CASE Tick
  BY <1>3, TickStep DEF Explained, Answered
<1>4. CASE Restart
  BY <1>4, RestartStep DEF Explained
<1>5. CASE UNCHANGED vars
  <2>1. Quiet /\ UNCHANGED <<req, now, mailed, sessions>>
    BY <1>5 DEF vars, Quiet
  <2>2. \A x \in Requests : Kept(x)'
    BY <2>1, QuietKept DEF AccountInv
  <2>3. Types'
    BY <2>1 DEF Quiet, AccountInv, Types
  <2>4. Accounts' /\ Links'
    BY <2>1 DEF AccountInv, Accounts, Links, Rows, Quiet
  <2> QED BY <2>1, <2>2, <2>3, <2>4 DEF AccountInv, Explained, Answered
<1> QED BY <1>1, <1>2, <1>3, <1>4, <1>5 DEF Next, Works

\* What a request of auth.controller.js or passport.js has read of a user or a link still
\* holds between its steps, or the request met another that wrote it; every row and link
\* was made by a step of its own kind.
THEOREM AccountInvariant == Spec => []AccountInv
<1>1. Init => AccountInv
  BY InvInit
<1>2. AccountInv /\ [Next]_vars => AccountInv'
  BY InvNext
<1> QED BY <1>1, <1>2, PTL DEF Spec

\* A user has one unused link at most, unless two requests for one crossed: the second's
\* UPDATE in requestPasswordReset did not see the first's row.
THEOREM OneLiveTokenAlways == Spec => []OneLiveToken
<1>1. ASSUME AccountInv PROVE OneLiveToken
  <2> SUFFICES ASSUME NEW u \in Rows, <<"request", "request">> \notin crossed
               PROVE  Cardinality({t \in LiveOf(u) : Live(t)}) <= 1
    BY DEF OneLiveToken
  <2> DEFINE S == {t \in LiveOf(u) : Live(t)}
  <2>1. \A t1, t2 \in S : t1 = t2
    BY <1>1 DEF AccountInv, Links, LiveOf
  <2> HIDE DEF S
  <2>2. CASE S = {}
    BY <2>2, FS_EmptySet DEF S
  <2>3. CASE S # {}
    <3>1. PICK x \in S : TRUE
      BY <2>3
    <3>2. S = {x}
      BY <2>1, <3>1
    <3> QED BY <3>2, FS_Singleton DEF S
  <2> QED BY <2>2, <2>3 DEF S
<1> QED BY <1>1, AccountInvariant, PTL

\* Who changes a password gave the one in the row, and who resets one holds a link that is
\* unused, unless the request met another that wrote between its check and its UPDATE
\* (changePassword and confirmPasswordReset check before bcrypt and write by id).
THEOREM PasswordsByRight == Spec => PasswordByRight
<1>1. ASSUME AccountInv, NEW r \in Requests
      PROVE  /\ At(r, "storePassword") /\ req[r].user \in Rows =>
                  users[req[r].user].password = req[r].seen \/ Met(r, {"change", "confirm", "script"})
             /\ At(r, "resetPassword") =>
                  \/ ~tokens[req[r].ask.token].used /\ req[r].ask.token \notin spent
                  \/ Met(r, {"confirm", "request", "delete"})
  BY <1>1 DEF AccountInv, Kept, UserRead, TokenRead
<1>2. AccountInv =>
        [\A r \in Requests :
           /\ At(r, "storePassword") /\ ~At(r, "storePassword")' /\ req[r].user \in Rows /\ restarts' = restarts =>
                users[req[r].user].password = req[r].seen \/ Met(r, {"change", "confirm", "script"})
           /\ At(r, "resetPassword") /\ ~At(r, "resetPassword")' /\ restarts' = restarts =>
                \/ ~tokens[req[r].ask.token].used /\ req[r].ask.token \notin spent
                \/ Met(r, {"confirm", "request", "delete"})]_vars
  BY <1>1
<1> QED BY <1>2, AccountInvariant, PTL DEF PasswordByRight

\* A sign-in with a provider is refused only when another request made the account
\* meanwhile or the identity belongs to an account with another address (the unique
\* indexes that passport.js runs into).
THEOREM OAuthFailures == Spec => OAuthFailureExplained
<1>1. AccountInv /\ [Next]_vars =>
        [\A r \in Requests :
           req[r].ask.kind = "oauth" /\ ~Answered(r) /\ req'[r].todo = <<>> /\ req'[r].verdict = "refused" =>
             \/ Met(r, {"signup", "oauth"})
             \/ \E u \in Linked(req[r].ask.identity) : users[u].email # req[r].ask.email]_vars
  BY InvNext DEF Explained
<1> QED BY <1>1, AccountInvariant, PTL DEF Spec, OAuthFailureExplained

-----------------------------------------------------------------------------
(* The limiter of reset mails *)

\* Finite sets of the requests that have passed.
LEMMA PassedFinite ==
  ASSUME passed \in Seq([key : LimiterKeys, at : Nat])
  PROVE  \A S \in SUBSET (DOMAIN passed) : IsFiniteSet(S) /\ Cardinality(S) \in Nat
<1>1. DOMAIN passed = 1..Len(passed) /\ Len(passed) \in Nat
  OBVIOUS
<1>2. IsFiniteSet(1..Len(passed))
  BY <1>1, FS_Interval
<1> QED BY <1>1, <1>2, FS_Subset, FS_CardinalityType

\* A request under key a that the limiter lets pass.
Admits(a) ==
  /\ ~Full(a)
  /\ limits' = [limits EXCEPT ![a] = Counted(a)]
  /\ passed' = Append(passed, [key |-> a, at |-> now])
  /\ now' = now

LEMMA Passing ==
  ASSUME RateInv, NEW a \in LimiterKeys, Admits(a)
  PROVE  LET n == Len(passed) + 1 IN
         /\ passed' \in Seq([key : LimiterKeys, at : Nat]) /\ n \notin DOMAIN passed /\ n \in Nat
         /\ DOMAIN passed' = DOMAIN passed \union {n}
         /\ passed'[n].key = a /\ passed'[n].at = now
         /\ \A j \in DOMAIN passed : /\ passed'[j] = passed[j] /\ passed[j].key \in LimiterKeys
                                     /\ passed[j].at \in Nat
         /\ DOMAIN limits = LimiterKeys /\ limits'[a] = Counted(a)
         /\ \A b \in LimiterKeys \ {a} : limits'[b] = limits[b]
<1> DEFINE x == [key |-> a, at |-> now]
           Entry == [key : LimiterKeys, at : Nat]
<1>1. passed \in Seq(Entry) /\ x \in Entry /\ x.key = a /\ x.at = now /\ passed' = Append(passed, x)
  BY DEF RateInv, Admits
<1>2. \A e \in Entry : e.key \in LimiterKeys /\ e.at \in Nat
  OBVIOUS
<1> HIDE DEF x, Entry
<1>3. /\ passed' \in Seq(Entry) /\ DOMAIN passed = 1..Len(passed) /\ Len(passed) \in Nat
      /\ DOMAIN passed' = 1..(Len(passed) + 1) /\ passed'[Len(passed) + 1] = x
      /\ \A j \in DOMAIN passed : passed'[j] = passed[j] /\ passed[j] \in Entry
  BY <1>1
<1>4. DOMAIN limits = LimiterKeys /\ limits'[a] = Counted(a) /\ \A b \in LimiterKeys \ {a} : limits'[b] = limits[b]
  BY DEF RateInv, Admits
<1> QED BY <1>1, <1>2, <1>3, <1>4 DEF Entry

\* The windows of other keys do not see the request.
LEMMA OtherWindows ==
  ASSUME RateInv, NEW a \in LimiterKeys, Admits(a), NEW b \in LimiterKeys \ {a}
  PROVE  Windowed(b)'
<1> DEFINE n == Len(passed) + 1
<1>1. /\ DOMAIN passed' = DOMAIN passed \union {n} /\ n \notin DOMAIN passed /\ passed'[n].key = a
      /\ \A j \in DOMAIN passed : passed'[j] = passed[j]
      /\ limits'[b] = limits[b] /\ now' = now
  BY Passing DEF Admits
<1> HIDE DEF n
<1>2. \A e : Since(b, e)' = Since(b, e) /\ Before(b, e)' = Before(b, e)
  BY <1>1 DEF Since, Before
<1>3. PICK e : e = limits[b].ends /\ e = limits'[b].ends
  BY <1>1
<1>4. Windowed(b)
  BY DEF RateInv
<1>5. /\ e <= now' + Window
      /\ \A j \in DOMAIN passed' : passed'[j].key = b => passed'[j].at < e
      /\ limits'[b].count # 0 => \E j \in DOMAIN passed' : passed'[j].key = b /\ passed'[j].at + Window = e
  BY <1>1, <1>3, <1>4 DEF Windowed
<1>6. /\ limits'[b].count = Cardinality(Since(b, e)') /\ (limits'[b].count = 0 => e = 0)
      /\ Cardinality(Before(b, e)') < MaxAttempts
  BY <1>1, <1>2, <1>3, <1>4 DEF Windowed
<1> QED BY <1>3, <1>5, <1>6 DEF Windowed

\* A request in a window that is open.
LEMMA CountsOn ==
  ASSUME RateInv, NEW a \in LimiterKeys, Admits(a), limits[a].ends > now
  PROVE  Windowed(a)' /\ limits'[a].count \in 0..MaxAttempts /\ limits'[a].ends \in Nat
<1> DEFINE n == Len(passed) + 1
           c == limits[a].count
           S(e) == Since(a, e)
<1>1. /\ DOMAIN passed' = DOMAIN passed \union {n} /\ n \notin DOMAIN passed
      /\ passed'[n].key = a /\ passed'[n].at = now
      /\ \A j \in DOMAIN passed : passed'[j] = passed[j] /\ passed[j].at \in Nat
      /\ limits'[a] = [limits[a] EXCEPT !.count = @ + 1] /\ now' = now /\ now \in Nat
      /\ passed \in Seq([key : LimiterKeys, at : Nat])
  <2>1. limits'[a] = Counted(a) /\ ~(limits[a].ends <= now) /\ passed \in Seq([key : LimiterKeys, at : Nat])
        /\ now \in Nat /\ now' = now
    <3>1. limits[a].ends \in Nat
      BY DEF RateInv
    <3> QED BY <3>1, Passing DEF RateInv, Admits
  <2>2. limits'[a] = [limits[a] EXCEPT !.count = @ + 1]
    BY <2>1 DEF Counted
  <2> QED BY <2>1, <2>2, Passing
<1>2. limits[a] \in [count : 0..MaxAttempts, ends : Nat] /\ Windowed(a) /\ MaxAttempts \in Nat /\ Window \in Nat
  BY AccountAccessAssumption DEF RateInv
<1>3. PICK e \in Nat : e = limits[a].ends /\ e = limits'[a].ends
  BY <1>1, <1>2
<1>4. limits'[a].count = c + 1 /\ c \in Nat /\ c < MaxAttempts /\ c # 0
  BY <1>1, <1>2, <1>3 DEF Admits, Full, Windowed
<1> HIDE DEF n
<1>5. Since(a, e)' = Since(a, e) \union {n} /\ n \notin Since(a, e) /\ Before(a, e)' = Before(a, e)
  <2>1. now + Window >= e /\ ~(now + Window < e)
    BY <1>1, <1>2, <1>3 DEF Windowed
  <2>2. Since(a, e)' = Since(a, e) \union {n}
    BY <1>1, <2>1 DEF Since
  <2>3. Before(a, e)' = Before(a, e)
    BY <1>1, <2>1 DEF Before
  <2> QED BY <1>1, <2>2, <2>3 DEF Since
<1>6. IsFiniteSet(Since(a, e)) /\ Cardinality(Since(a, e)) = c
  BY <1>1, <1>2, <1>3, PassedFinite DEF Windowed, Since
<1>7. Cardinality(Since(a, e)') = c + 1
  BY <1>5, <1>6, FS_AddElement
<1>8. \E j \in DOMAIN passed' : passed'[j].key = a /\ passed'[j].at + Window = e
  BY <1>1, <1>2, <1>3, <1>4 DEF Windowed
<1>9. \A j \in DOMAIN passed' : passed'[j].key = a => passed'[j].at < e
  BY <1>1, <1>2, <1>3 DEF Windowed
<1>10. Cardinality(Before(a, e)') < MaxAttempts
  BY <1>2, <1>3, <1>5 DEF Windowed
<1>11. e <= now' + Window
  BY <1>1, <1>2, <1>3 DEF Windowed
<1>12. Windowed(a)'
  BY <1>3, <1>4, <1>7, <1>8, <1>9, <1>10, <1>11 DEF Windowed
<1> QED BY <1>2, <1>3, <1>4, <1>12

\* A request that opens a window.
LEMMA OpensWindow ==
  ASSUME RateInv, NEW a \in LimiterKeys, Admits(a), limits[a].ends <= now
  PROVE  Windowed(a)' /\ limits'[a].count \in 0..MaxAttempts /\ limits'[a].ends \in Nat
<1> DEFINE n == Len(passed) + 1
<1>1. /\ DOMAIN passed' = DOMAIN passed \union {n} /\ n \notin DOMAIN passed
      /\ passed'[n].key = a /\ passed'[n].at = now
      /\ \A j \in DOMAIN passed : passed'[j] = passed[j] /\ passed[j].at \in Nat
      /\ limits'[a].count = 1 /\ limits'[a].ends = now + Window /\ now' = now /\ now \in Nat
  <2>1. limits'[a] = Counted(a) /\ now \in Nat /\ now' = now
    BY Passing DEF RateInv, Admits
  <2>2. limits'[a] = [count |-> 1, ends |-> now + Window]
    BY <2>1 DEF Counted
  <2>3. limits'[a].count = 1 /\ limits'[a].ends = now + Window
    BY <2>2
  <2>4. /\ DOMAIN passed' = DOMAIN passed \union {n} /\ n \notin DOMAIN passed
        /\ passed'[n].key = a /\ passed'[n].at = now
        /\ \A j \in DOMAIN passed : passed'[j] = passed[j] /\ passed[j].at \in Nat
    BY Passing
  <2> HIDE DEF n
  <2> QED BY <2>1, <2>3, <2>4
<1>2. /\ limits[a] \in [count : 0..MaxAttempts, ends : Nat] /\ Windowed(a)
      /\ MaxAttempts \in Nat \ {0} /\ Window \in Nat \ {0} /\ passed \in Seq([key : LimiterKeys, at : Nat])
  BY AccountAccessAssumption DEF RateInv
<1> HIDE DEF n
<1>3. PICK e \in Nat : e = now + Window /\ e = limits'[a].ends
  BY <1>1, <1>2
<1>4. \A j \in DOMAIN passed : passed[j].key = a => passed[j].at < now
  BY <1>1, <1>2 DEF Windowed
<1>5. Since(a, e)' = {n}
  BY <1>1, <1>2, <1>3, <1>4 DEF Since
<1>6. Before(a, e)' \subseteq {j \in Since(a, limits[a].ends) : passed[j].at + Window # limits[a].ends}
  <2> SUFFICES ASSUME NEW j \in Before(a, e)'
               PROVE  j \in Since(a, limits[a].ends) /\ passed[j].at + Window # limits[a].ends
    OBVIOUS
  <2>1. j \in DOMAIN passed /\ passed[j].key = a /\ passed[j].at + 2 * Window > now + Window
    BY <1>1, <1>2, <1>3 DEF Before
  <2> QED BY <1>1, <1>2, <2>1 DEF Since
<1>7. Cardinality(Before(a, e)') < MaxAttempts
  <2>1. CASE limits[a].count = 0
    <3>1. Before(a, e)' = {}
      BY <1>1, <1>2, <1>6, <2>1 DEF Windowed, Since
    <3> QED BY <1>2, <3>1, FS_EmptySet
  <2>2. CASE limits[a].count # 0
    <3> DEFINE S == Since(a, limits[a].ends)
    <3>1. PICK w \in S : passed[w].at + Window = limits[a].ends
      BY <1>2, <2>2 DEF Windowed, Since
    <3>2. IsFiniteSet(S) /\ Cardinality(S) = limits[a].count
      BY <1>2, PassedFinite DEF Windowed, Since
    <3>3. Before(a, e)' \subseteq S \ {w}
      BY <1>6, <3>1
    <3> HIDE DEF S
    <3>4. IsFiniteSet(S \ {w}) /\ Cardinality(S \ {w}) = limits[a].count - 1
      BY <3>1, <3>2, FS_RemoveElement
    <3>5. Cardinality(Before(a, e)') <= limits[a].count - 1 /\ Cardinality(Before(a, e)') \in Nat
      BY <3>3, <3>4, FS_Subset, FS_CardinalityType
    <3> QED BY <1>2, <3>5
  <2> QED BY <2>1, <2>2
<1>8. Cardinality(Since(a, e)') = 1
  BY <1>5, FS_Singleton
<1>9. \E j \in DOMAIN passed' : passed'[j].key = a /\ passed'[j].at + Window = e
  BY <1>1, <1>3
<1>10. \A j \in DOMAIN passed' : passed'[j].key = a => passed'[j].at < e
  BY <1>1, <1>2, <1>3, <1>4
<1>11. e <= now' + Window
  BY <1>1, <1>2, <1>3
<1>12. Windowed(a)'
  BY <1>1, <1>3, <1>7, <1>8, <1>9, <1>10, <1>11 DEF Windowed
<1> QED BY <1>1, <1>2, <1>3, <1>12

\* The requests that have passed in a stretch that starts with request i.
Hits(i) == {j \in DOMAIN passed : /\ passed[j].key = passed[i].key
                                  /\ passed[j].at >= passed[i].at /\ passed[j].at < passed[i].at + Window}

LEMMA AdmitStep ==
  ASSUME RateInv, NEW a \in LimiterKeys, Admits(a)
  PROVE  RateInv'
<1> DEFINE n == Len(passed) + 1
<1>1. /\ passed' \in Seq([key : LimiterKeys, at : Nat]) /\ n \notin DOMAIN passed
      /\ DOMAIN passed' = DOMAIN passed \union {n}
      /\ passed'[n].key = a /\ passed'[n].at = now /\ now' = now /\ now \in Nat
      /\ \A j \in DOMAIN passed : passed'[j] = passed[j] /\ passed[j].at \in Nat
  BY Passing DEF RateInv, Admits
<1> HIDE DEF n
<1>2. Windowed(a)' /\ limits'[a].count \in 0..MaxAttempts /\ limits'[a].ends \in Nat
  <2>1. limits[a].ends \in Nat /\ now \in Nat
    BY DEF RateInv
  <2> QED BY <2>1, CountsOn, OpensWindow
<1>3. \A b \in LimiterKeys : Windowed(b)'
  BY <1>2, OtherWindows
<1>4. limits' \in [LimiterKeys -> [count : 0..MaxAttempts, ends : Nat]]
  <2>1. limits \in [LimiterKeys -> [count : 0..MaxAttempts, ends : Nat]] /\ limits' = [limits EXCEPT ![a] = Counted(a)]
    BY DEF RateInv, Admits
  <2>2. Counted(a) \in [count : 0..MaxAttempts, ends : Nat]
    <3>1. limits'[a] = Counted(a) /\ MaxAttempts \in Nat /\ now + Window \in Nat
      BY <1>1, <2>1, AccountAccessAssumption
    <3>2. CASE limits[a].ends <= now
      BY <1>2, <3>1, <3>2 DEF Counted
    <3>3. CASE ~(limits[a].ends <= now)
      <4>1. Counted(a) = [count |-> limits[a].count + 1, ends |-> limits[a].ends]
        BY <2>1, <3>3 DEF Counted
      <4> QED BY <1>2, <3>1, <4>1
    <3> QED BY <3>2, <3>3
  <2> QED BY <2>1, <2>2
<1>5. MaxAttempts \in Nat \ {0} /\ Window \in Nat \ {0}
  BY AccountAccessAssumption
<1>6. ASSUME NEW i \in DOMAIN passed' PROVE Cardinality(Hits(i)') < 2 * MaxAttempts
  <2>1. CASE passed'[i].key = a /\ passed'[i].at + Window > now
    <3>1. PICK e : e = limits'[a].ends
      OBVIOUS
    <3>2. /\ e \in Nat /\ e <= now + Window /\ limits'[a].count = Cardinality(Since(a, e)')
          /\ Cardinality(Before(a, e)') < MaxAttempts
      BY <1>1, <1>2, <3>1 DEF Windowed
    <3>3. \A j \in DOMAIN passed' : passed'[j].at \in Nat
      BY <1>1
    <3>4. Hits(i)' \subseteq Since(a, e)' \union Before(a, e)'
      <4> SUFFICES ASSUME NEW j \in Hits(i)' PROVE j \in Since(a, e)' \/ j \in Before(a, e)'
        OBVIOUS
      <4>1. /\ j \in DOMAIN passed' /\ passed'[j].key = a /\ passed'[j].at >= passed'[i].at
        BY <2>1 DEF Hits
      <4>2. passed'[j].at + 2 * Window > e
        BY <1>1, <1>5, <2>1, <3>2, <3>3, <4>1
      <4>3. CASE passed'[j].at + Window >= e
        BY <4>1, <4>3 DEF Since
      <4>4. CASE ~(passed'[j].at + Window >= e)
        <5>1. passed'[j].at + Window < e
          BY <1>5, <3>2, <3>3, <4>1, <4>4
        <5> QED BY <4>1, <4>2, <5>1 DEF Before
      <4> QED BY <4>3, <4>4
    <3>5. PICK m \in Nat : DOMAIN passed' = 1..m
      <4>1. DOMAIN passed' = 1..Len(passed') /\ Len(passed') \in Nat
        <5>1. passed' \in Seq([key : LimiterKeys, at : Nat])
          BY <1>1
        <5> QED BY <5>1
      <4> QED BY <4>1
    <3>6. IsFiniteSet(1..m)
      BY FS_Interval
    <3>7. \A S : S \subseteq 1..m => IsFiniteSet(S) /\ Cardinality(S) \in Nat
      BY <3>6, FS_Subset, FS_CardinalityType
    <3>8. Since(a, e)' \subseteq 1..m /\ Before(a, e)' \subseteq 1..m
      BY <3>5 DEF Since, Before
    <3> DEFINE S == Since(a, e)'
               B == Before(a, e)'
    <3>9. /\ IsFiniteSet(S) /\ IsFiniteSet(B) /\ Cardinality(S) \in Nat /\ Cardinality(B) \in Nat
          /\ Cardinality(S) <= MaxAttempts /\ Cardinality(B) < MaxAttempts /\ Hits(i)' \subseteq S \union B
      BY <1>2, <1>5, <3>2, <3>4, <3>7, <3>8
    <3> HIDE DEF S, B
    <3>10. /\ IsFiniteSet(S \union B) /\ IsFiniteSet(S \intersect B)
          /\ Cardinality(S \union B) = Cardinality(S) + Cardinality(B) - Cardinality(S \intersect B)
      BY <3>9, FS_Union, FS_Intersection
    <3>11. Cardinality(S \intersect B) \in Nat /\ Cardinality(S \union B) \in Nat
      BY <3>10, FS_CardinalityType
    <3>12. Cardinality(Hits(i)') <= Cardinality(S \union B) /\ Cardinality(Hits(i)') \in Nat
      BY <3>9, <3>10, FS_Subset, FS_CardinalityType
    <3> QED BY <1>5, <3>9, <3>10, <3>11, <3>12
  <2>2. CASE ~(passed'[i].key = a /\ passed'[i].at + Window > now)
    <3>1. i \in DOMAIN passed /\ passed'[i] = passed[i]
      BY <1>1, <1>5, <2>2
    <3>2. Hits(i)' = Hits(i)
      BY <1>1, <1>5, <2>2, <3>1 DEF Hits
    <3>3. Cardinality(Hits(i)) < 2 * MaxAttempts
      BY <3>1 DEF RateInv, ResetRate, Hits
    <3> QED BY <3>2, <3>3
  <2> QED BY <2>1, <2>2
<1>7. ResetRate'
  BY <1>6 DEF ResetRate, Hits
<1> QED BY <1>1, <1>3, <1>4, <1>7 DEF RateInv

\* A step that no request to the limiter takes.
LEMMA RateKept ==
  ASSUME RateInv, UNCHANGED <<limits, passed>>, now' \in Nat, now' >= now
  PROVE  RateInv'
<1>1. ASSUME NEW a \in LimiterKeys PROVE Windowed(a)'
  <2>1. Windowed(a) /\ limits[a].ends \in Nat /\ now \in Nat /\ Window \in Nat
    BY AccountAccessAssumption DEF RateInv
  <2>2. \A e : Since(a, e)' = Since(a, e) /\ Before(a, e)' = Before(a, e)
    BY DEF Since, Before
  <2>3. PICK e \in Nat : e = limits[a].ends /\ e = limits'[a].ends
    BY <2>1
  <2>4. e <= now' + Window
    BY <2>1, <2>3 DEF Windowed
  <2>5. /\ \A j \in DOMAIN passed' : passed'[j].key = a => passed'[j].at < e
        /\ limits'[a].count # 0 => \E j \in DOMAIN passed' : passed'[j].key = a /\ passed'[j].at + Window = e
    BY <2>1, <2>3 DEF Windowed
  <2>6. /\ limits'[a].count = Cardinality(Since(a, e)') /\ (limits'[a].count = 0 => e = 0)
        /\ Cardinality(Before(a, e)') < MaxAttempts
    BY <2>1, <2>2, <2>3 DEF Windowed
  <2> QED BY <2>3, <2>4, <2>5, <2>6 DEF Windowed
<1>2. ResetRate'
  BY DEF RateInv, ResetRate
<1> QED BY <1>1, <1>2 DEF RateInv

LEMMA RateFresh ==
  ASSUME limits = [k \in LimiterKeys |-> Closed], passed = <<>>, now \in Nat
  PROVE  RateInv
<1>1. /\ MaxAttempts \in Nat \ {0} /\ Window \in Nat /\ DOMAIN passed = {}
      /\ passed \in Seq([key : LimiterKeys, at : Nat])
  BY AccountAccessAssumption
<1>2. \A a, e : Since(a, e) = {} /\ Before(a, e) = {}
  BY <1>1 DEF Since, Before
<1>3. \A a \in LimiterKeys : limits[a] = Closed /\ limits[a].count = 0 /\ limits[a].ends = 0
  BY DEF Closed
<1>4. ASSUME NEW a \in LimiterKeys PROVE Windowed(a)
  <2>1. Cardinality(Since(a, limits[a].ends)) = 0 /\ Cardinality(Before(a, limits[a].ends)) = 0
    BY <1>2, FS_EmptySet
  <2> QED BY <1>1, <1>3, <2>1 DEF Windowed
<1>5. limits \in [LimiterKeys -> [count : 0..MaxAttempts, ends : Nat]]
  <2>1. 0 \in 0..MaxAttempts
    BY <1>1
  <2>2. Closed \in [count : 0..MaxAttempts, ends : Nat]
    BY <2>1 DEF Closed
  <2> QED BY <2>2
<1>6. ResetRate
  BY <1>1 DEF ResetRate
<1> QED BY <1>1, <1>4, <1>5, <1>6 DEF RateInv

LEMMA RateNext ==
  ASSUME AccountInv, RateInv, [Next]_vars
  PROVE  RateInv'
<1>0. now \in Nat
  BY DEF RateInv
<1>1. CASE \E r \in Requests : Works(r)
  <2>1. PICK r \in Requests : Works(r)
    BY <1>1
  <2>2. \A q : Reads(r, q) \/ Writes(r, q) => UNCHANGED <<limits, passed>>
    BY DEF Reads, Writes
  <2>3. \A q : Reads(r, q) \/ Writes(r, q) => now' = now
    BY DEF Reads, Writes
  <2>4. UNCHANGED <<limits, passed>> /\ now' = now
    <3>1. CASE FindEmail(r) \/ FindUser(r) \/ SpendOld(r) \/ FindToken(r)
      BY <2>2, <2>3, <3>1 DEF FindEmail, FindUser, SpendOld, FindToken
    <3>2. CASE Compare(r) \/ Mail(r)
      BY <3>2 DEF Compare, Mail
    <3>3. CASE InsertUser(r) \/ LinkUser(r)
      BY <2>2, <2>3, <3>3 DEF InsertUser, LinkUser
    <3>4. CASE StorePassword(r) \/ StoreByEmail(r)
      BY <2>2, <2>3, <3>4 DEF StorePassword, StoreByEmail
    <3>5. CASE AddToken(r) \/ ResetPassword(r) \/ DeleteUser(r)
      BY <2>2, <2>3, <3>5 DEF AddToken, ResetPassword, DeleteUser
    <3> QED BY <2>1, <3>1, <3>2, <3>3, <3>4, <3>5 DEF Works
  <2> QED BY <1>0, <2>4, RateKept
<1>2. CASE \E r \in Requests : \E ask \in Calls, host \in Hosts : Start(r, ask, host)
  <2>1. PICK r \in Requests, ask \in Calls, host \in Hosts : Start(r, ask, host)
    BY <1>2
  <2>2. ask.kind = "request" => <<host, ask.email>> \in LimiterKeys
    BY CallIsAsk DEF AccountInv, LimiterKeys
  <2>3. now' = now /\ (UNCHANGED <<limits, passed>> \/ (ask.kind = "request" /\ Admits(<<host, ask.email>>)))
    BY <2>1 DEF Start, Admits
  <2> QED BY <1>0, <2>2, <2>3, RateKept, AdmitStep
<1>3. CASE Tick
  BY <1>0, <1>3, RateKept DEF Tick
<1>4. CASE Restart
  <2>1. limits' = [k \in LimiterKeys |-> Closed] /\ passed' = <<>> /\ now' \in Nat
    BY <1>0, <1>4 DEF Restart
  <2>2. (limits = [k \in LimiterKeys |-> Closed] /\ passed = <<>> /\ now \in Nat => RateInv)'
    BY RateFresh, PTL
  <2> QED BY <2>1, <2>2
<1>5. CASE UNCHANGED vars
  BY <1>0, <1>5, RateKept DEF vars
<1> QED BY <1>1, <1>2, <1>3, <1>4, <1>5 DEF Next, Works

\* Of the reset requests from one host for one address, those of the current window are at
\* most as many as the window allows, and those of any stretch before it, as long as a
\* window and without its first instant, are fewer (the store of rateLimit.middleware.js,
\* keyed by ip and email).
THEOREM RateInvariant == Spec => []RateInv
<1>1. Init => RateInv
  BY RateFresh DEF Init
<1>2. AccountInv /\ RateInv /\ [Next]_vars => RateInv'
  BY RateNext
<1> QED BY <1>1, <1>2, AccountInvariant, PTL DEF Spec

\* Between restarts of the API fewer than twice as many requests from one host for a reset
\* mail to one address pass in a stretch as long as the limiter's window as the window
\* allows (a fixed window, opened by a request, in rateLimit.middleware.js).
THEOREM ResetRateAlways == Spec => []ResetRate
<1>1. RateInv => ResetRate
  BY DEF RateInv
<1> QED BY <1>1, RateInvariant, PTL

\* The variables keep their types, no two accounts share an address (lower(email) is unique)
\* and no two share an identity at a provider (google_id, github_id).
THEOREM TypeCorrect == Spec => []TypeOK
<1>1. ASSUME AccountInv, RateInv PROVE TypeOK
  <2>1. \A u \in Rows : /\ u <= born /\ users[u].email \in Emails
                        /\ users[u].password \in Passwords \union {None}
    BY <1>1, RowIds DEF AccountInv, Accounts, Row
  <2>2. \A u \in Rows : \A v \in Rows \ {u} :
          /\ users[u].email # users[v].email
          /\ \A p \in Providers : users[u].linked[p] # None => users[u].linked[p] # users[v].linked[p]
    BY <1>1 DEF AccountInv, Accounts
  <2>3. \A k \in LimiterKeys : limits[k].count \in 0..MaxAttempts
    BY <1>1 DEF RateInv
  <2> QED BY <1>1, <2>1, <2>2, <2>3 DEF TypeOK, AccountInv, Types
<1> QED BY <1>1, AccountInvariant, RateInvariant, PTL

================================================================================
