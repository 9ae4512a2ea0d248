----------------------------- MODULE AccountAccess -----------------------------
(***************************************************************************)
(* Accounts and the ways into them: signup, login, changePassword,         *)
(* requestPasswordReset, confirmPasswordReset and deleteMe                 *)
(* (auth.controller.js), the sign-in with Google or GitHub (passport.js),  *)
(* the rate limit of reset mails (rateLimit.middleware.js) and the         *)
(* operator's script reset-user-password.js.                               *)
(*                                                                         *)
(* A handler reads, spends a while in bcrypt, and writes by id; requests   *)
(* in flight together interleave between statements.  A transaction takes  *)
(* effect when it commits, but its statements read before: TeamPlans is    *)
(* about transactions that lose their connection.                          *)
(***************************************************************************)
EXTENDS Naturals, FiniteSets, Sequences

CONSTANTS
  Emails,
  Hosts,        \* what req.ip may be, and so x-forwarded-for if the API trusts a proxy
  Passwords,
  Identities,   \* verified profiles of a provider: [provider, id, email]
  Requests,     \* requests in flight
  Menus,        \* how many requests of each kind arrive, a bound: functions of Kinds
  MaxUsers,     \* ids of users are drawn in order, a bound
  MaxAttempts,  \* PASSWORD_RESET_REQUEST_MAX_ATTEMPTS
  Window,       \* PASSWORD_RESET_REQUEST_WINDOW_MS in ticks of the clock
  TokenLife,    \* one hour in ticks
  MaxTime,      \* the clock stops there, a bound
  MaxRestarts   \* how often the API restarts, a bound

None == "none"
Kinds == {"signup", "login", "oauth", "change", "request", "confirm", "delete", "script"}
Providers == {"google", "github"}

ASSUME AccountAccessAssumption ==
  /\ MaxUsers \in Nat /\ MaxAttempts \in Nat \ {0} /\ Window \in Nat \ {0}
  /\ TokenLife \in Nat \ {0} /\ MaxTime \in Nat /\ MaxRestarts \in Nat
  /\ \A i \in Identities : i.email \in Emails /\ i.provider \in Providers /\ i.id # None
  /\ None \notin Emails \union Passwords
  /\ Menus \subseteq [Kinds -> Nat]

VARIABLES
  users,     \* rows of users by id, NoUser: not there
  born,      \* ids drawn
  tokens,    \* rows of password_reset_tokens in the order of their insertion
  mailed,    \* tokens whose link has reached its user
  sessions,  \* ids of users for whom a cookie is held
  limits,    \* the limiter's window for each key: requests counted and when it ends
  now,       \* the clock
  req,       \* requests: statements to come and what they have read
  left,      \* how many requests of each kind are still to come
  restarts,  \* how often the API has restarted
  passed,    \* history: when requests for a reset have passed the limiter
  spent,     \* history: tokens that have set a password
  crossed    \* history: <<k, m>>: a request of kind k wrote after one of kind m had, meanwhile

vars == <<users, born, tokens, mailed, sessions, limits, now, req, left, restarts, passed, spent, crossed>>

-----------------------------------------------------------------------------
Ids == 1..MaxUsers
\* The limiter's keys, the prefix left out: `${keyPrefix}:${ip}:${email}`.
LimiterKeys == Hosts \X Emails
Closed == [count |-> 0, ends |-> 0]

Program(kind) ==
  CASE kind = "signup"  -> <<"findEmail", "insertUser">>
    [] kind = "login"   -> <<"findEmail">>
    [] kind = "oauth"   -> <<"findEmail", "insertUser">>
    [] kind = "change"  -> <<"findUser", "storePassword">>
    [] kind = "request" -> <<"findEmail", "spendOld", "addToken", "mail">>
    [] kind = "confirm" -> <<"findToken", "resetPassword">>
    [] kind = "delete"  -> <<"deleteUser">>
    [] kind = "script"  -> <<"storeByEmail">>

\* user, token: 0 for none; password: the new one, or the one of a login.
Ask(kind, email, password, user, token, identity) ==
  [kind |-> kind, email |-> email, password |-> password, user |-> user, token |-> token,
   identity |-> identity]
NoIdentity == [provider |-> None, id |-> None, email |-> None]
Idle == [ask |-> Ask("login", None, None, 0, 0, NoIdentity), todo |-> <<>>,
         user |-> 0, seen |-> None, old |-> {}, token |-> 0, met |-> {}, verdict |-> "ok"]

\* Handlers behind requireUser take the user from a cookie.
Calls ==
  {Ask(k, e, p, 0, 0, NoIdentity) : k \in {"signup", "login", "script"}, e \in Emails, p \in Passwords}
    \union {Ask("request", e, None, 0, 0, NoIdentity) : e \in Emails}
    \union {Ask("oauth", i.email, None, 0, 0, i) : i \in Identities}
    \union {Ask("change", None, p, u, 0, NoIdentity) : u \in sessions, p \in Passwords}
    \union {Ask("delete", None, None, u, 0, NoIdentity) : u \in sessions}
    \union {Ask("confirm", None, p, 0, t, NoIdentity) : t \in mailed, p \in Passwords}

Unlinked == [p \in Providers |-> None]
NoUser == [email |-> None, password |-> None, linked |-> Unlinked]
Init ==
  /\ users = [u \in Ids |-> NoUser]
  /\ born = 0
  /\ tokens = <<>> /\ mailed = {} /\ sessions = {}
  /\ limits = [k \in LimiterKeys |-> Closed] /\ now = 0
  /\ req = [r \in Requests |-> Idle]
  /\ left \in Menus
  /\ restarts = 0 /\ passed = <<>> /\ spent = {} /\ crossed = {}

-----------------------------------------------------------------------------
Answered(r) == req[r].todo = <<>>
At(r, s) == ~Answered(r) /\ Head(req[r].todo) = s
Goes(r) == [req[r] EXCEPT !.todo = Tail(@)]
Ends(verdict) == [Idle EXCEPT !.verdict = verdict]

Rows == {u \in Ids : users[u] # NoUser}
WithEmail(e) == {u \in Rows : users[u].email = e}
Linked(i) == {u \in Rows : users[u].linked[i.provider] = i.id}
Live(t) == ~tokens[t].used /\ now < tokens[t].ends
LiveOf(u) == {t \in DOMAIN tokens : tokens[t].user = u /\ ~tokens[t].used}

Reads(r, q) ==
  /\ req' = [req EXCEPT ![r] = q]
  /\ UNCHANGED <<users, born, tokens, mailed, sessions, limits, now, left, restarts, passed, spent, crossed>>

\* A write: the others in flight have met it.
Writes(r, q) ==
  LET k == req[r].ask.kind IN
  /\ req' = [x \in Requests |-> IF x = r THEN q
                                ELSE IF Answered(x) THEN req[x] ELSE [req[x] EXCEPT !.met = @ \union {k}]]
  /\ crossed' = crossed \union {<<k, met>> : met \in req[r].met}
  /\ UNCHANGED <<limits, now, left, restarts, passed>>

\* The limiter counts a request before the handler runs; it answers in the handler's
\* stead when the window of its key is full.  The answer is the same.
Full(k) == limits[k].count >= MaxAttempts /\ limits[k].ends > now
\* Mutant: every request moves the end of the window.
CountedLonger(k) == [count |-> IF limits[k].ends <= now THEN 1 ELSE limits[k].count, ends |-> now + Window]
Counted(k) == IF limits[k].ends <= now THEN [count |-> 1, ends |-> now + Window]
              ELSE [limits[k] EXCEPT !.count = @ + 1]

\* A request arrives from a host.
Start(r, ask, host) ==
  LET k == <<host, ask.email>> IN
  /\ Answered(r) /\ left[ask.kind] > 0
  /\ left' = [left EXCEPT ![ask.kind] = @ - 1]
  /\ IF ask.kind = "request" /\ Full(k)
     THEN req' = [req EXCEPT ![r] = Ends("ok")] /\ UNCHANGED <<limits, passed>>
     ELSE /\ req' = [req EXCEPT ![r] = [Idle EXCEPT !.ask = ask, !.todo = Program(ask.kind), !.user = ask.user]]
          /\ IF ask.kind = "request"
             THEN /\ limits' = [limits EXCEPT ![k] = Counted(k)]
                  /\ passed' = Append(passed, [key |-> k, at |-> now])
             ELSE UNCHANGED <<limits, passed>>
  /\ UNCHANGED <<users, born, tokens, mailed, sessions, now, restarts, spent, crossed>>

-----------------------------------------------------------------------------
\* Mutant: the look-up of a sign-in finds no account.
FindNobody(r) ==
  /\ At(r, "findEmail")
  /\ Reads(r, IF req[r].ask.kind \in {"oauth", "signup"} THEN Goes(r) ELSE Ends("refused"))

\* SELECT .. WHERE lower(email): signup refuses a known address, an unknown one is
\* answered like a known one when a reset is asked for.
FindEmail(r) ==
  /\ At(r, "findEmail")
  /\ LET kind == req[r].ask.kind
         found == WithEmail(req[r].ask.email) IN
     \/ /\ found = {}
        /\ Reads(r, CASE kind = "login" -> Ends("refused")
                      [] kind = "request" -> Ends("ok")
                      [] OTHER -> Goes(r))
     \/ \E u \in found :
          Reads(r, CASE kind = "signup" -> Ends("refused")
                     [] kind = "oauth" -> [req[r] EXCEPT !.user = u, !.todo = <<"linkUser">>]
                     [] kind = "request" -> [Goes(r) EXCEPT !.user = u]
                     [] OTHER -> [req[r] EXCEPT !.user = u, !.todo = <<"compare">>, !.seen = users[u].password])

\* bcrypt.compare with what was read; an account of a provider has no usable password.
Compare(r) ==
  /\ At(r, "compare")
  /\ LET right == req[r].seen = req[r].ask.password IN
     /\ req' = [req EXCEPT ![r] = Ends(IF right THEN "ok" ELSE "refused")]
     /\ sessions' = IF right THEN sessions \union {req[r].user} ELSE sessions
  /\ UNCHANGED <<users, born, tokens, mailed, limits, now, left, restarts, passed, spent, crossed>>

\* INSERT INTO users, under the unique indexes on the address and on the providers' ids.
InsertUser(r) ==
  /\ At(r, "insertUser")
  /\ LET ask == req[r].ask
         i == ask.identity
         linked == IF ask.kind = "oauth" THEN [Unlinked EXCEPT ![i.provider] = i.id] ELSE Unlinked IN
     IF WithEmail(ask.email) # {} \/ (ask.kind = "oauth" /\ Linked(i) # {})
     THEN Reads(r, Ends("refused"))
     ELSE /\ born < MaxUsers
          /\ users' = [users EXCEPT ![born + 1] =
                         [email |-> ask.email, password |-> ask.password, linked |-> linked]]
          /\ born' = born + 1 /\ sessions' = sessions \union {born + 1}
          /\ Writes(r, Ends("ok"))
          /\ UNCHANGED <<tokens, mailed, spent>>

\* UPDATE users SET google_id = COALESCE(google_id, ..) WHERE id: no row, no change.
LinkUser(r) ==
  /\ At(r, "linkUser")
  /\ LET u == req[r].user
         i == req[r].ask.identity
         fills == u \in Rows /\ users[u].linked[i.provider] = None IN
     IF fills /\ Linked(i) # {}
     THEN Reads(r, Ends("refused"))
     ELSE /\ users' = IF fills THEN [users EXCEPT ![u].linked[i.provider] = i.id] ELSE users
          /\ sessions' = sessions \union {u}
          /\ Writes(r, Ends("ok"))
          /\ UNCHANGED <<born, tokens, mailed, spent>>

\* changePassword: who has a password has to give it, and another one.
FindUser(r) ==
  /\ At(r, "findUser")
  /\ \/ req[r].user \notin Rows /\ Reads(r, Ends("refused"))
     \/ /\ req[r].user \in Rows
        /\ LET password == users[req[r].user].password IN
           \/ password # None /\ Reads(r, Ends("refused"))
           \/ password # req[r].ask.password /\ Reads(r, [Goes(r) EXCEPT !.seen = password])

\* UPDATE users SET password_hash .. WHERE id, whatever the row holds by then.
StorePassword(r) ==
  /\ At(r, "storePassword")
  /\ users' = IF req[r].user \in Rows THEN [users EXCEPT ![req[r].user].password = req[r].ask.password] ELSE users
  /\ Writes(r, Ends("ok"))
  /\ UNCHANGED <<born, tokens, mailed, sessions, spent>>

\* reset-user-password.js
StoreByEmail(r) ==
  /\ At(r, "storeByEmail")
  /\ LET found == WithEmail(req[r].ask.email) IN
     \/ found = {} /\ Reads(r, Ends("refused"))
     \/ \E u \in found :
          /\ users' = [users EXCEPT ![u].password = req[r].ask.password]
          /\ Writes(r, Ends("ok"))
          /\ UNCHANGED <<born, tokens, mailed, sessions, spent>>

\* Mutant: earlier tokens are left alone.
SpendNone(r) ==
  /\ At(r, "spendOld")
  /\ Reads(r, Goes(r))

\* The UPDATE of the open transaction sees the tokens committed so far.
SpendOld(r) ==
  /\ At(r, "spendOld")
  /\ Reads(r, [Goes(r) EXCEPT !.old = LiveOf(req[r].user)])

Used(ts) == [t \in DOMAIN tokens |-> [tokens[t] EXCEPT !.used = @ \/ t \in ts]]
\* INSERT and COMMIT; the user may be gone.
AddToken(r) ==
  /\ At(r, "addToken")
  /\ IF req[r].user \notin Rows THEN Reads(r, Ends("refused"))
     ELSE /\ tokens' = Append(Used(req[r].old), [user |-> req[r].user, used |-> FALSE, ends |-> now + TokenLife])
          /\ Writes(r, [Goes(r) EXCEPT !.token = Len(tokens) + 1])
          /\ UNCHANGED <<users, born, mailed, sessions, spent>>

\* sendPasswordResetEmail: when it fails the tokens stay as they are.
Mail(r) ==
  /\ At(r, "mail")
  /\ \/ mailed' = mailed \union {req[r].token} /\ req' = [req EXCEPT ![r] = Ends("ok")]
     \/ req' = [req EXCEPT ![r] = Ends("refused")] /\ UNCHANGED mailed
  /\ UNCHANGED <<users, born, tokens, sessions, limits, now, left, restarts, passed, spent, crossed>>

FindToken(r) ==
  /\ At(r, "findToken")
  /\ LET t == req[r].ask.token IN
     Reads(r, IF Live(t) THEN [Goes(r) EXCEPT !.user = tokens[t].user] ELSE Ends("refused"))

\* Mutant: the token stays unused.
ResetAndKeep(r) ==
  /\ At(r, "resetPassword")
  /\ users' = IF req[r].user \in Rows THEN [users EXCEPT ![req[r].user].password = req[r].ask.password] ELSE users
  /\ spent' = spent \union {req[r].ask.token}
  /\ Writes(r, Ends("ok"))
  /\ UNCHANGED <<born, tokens, mailed, sessions>>

\* The transaction of confirmPasswordReset: the token was checked before bcrypt.
ResetPassword(r) ==
  /\ At(r, "resetPassword")
  /\ users' = IF req[r].user \in Rows THEN [users EXCEPT ![req[r].user].password = req[r].ask.password] ELSE users
  /\ tokens' = Used({req[r].ask.token} \union LiveOf(req[r].user))
  /\ spent' = spent \union {req[r].ask.token}
  /\ Writes(r, Ends("ok"))
  /\ UNCHANGED <<born, mailed, sessions>>

\* The transaction of deleteMe; the user's tokens go with the row (no token that is gone
\* is ever found again, like a used one).  Other cookies of the user stay.
DeleteUser(r) ==
  /\ At(r, "deleteUser")
  /\ IF req[r].user \notin Rows THEN Reads(r, Ends("refused"))
     ELSE /\ users' = [users EXCEPT ![req[r].user] = NoUser]
          /\ tokens' = Used(LiveOf(req[r].user))
          /\ Writes(r, Ends("ok"))
          /\ UNCHANGED <<born, mailed, sessions, spent>>

Tick ==
  /\ now < MaxTime
  /\ now' = now + 1
  /\ UNCHANGED <<users, born, tokens, mailed, sessions, limits, req, left, restarts, passed, spent, crossed>>

\* The process dies: its requests with their transactions, and the limiter's store.
Restart ==
  /\ restarts < MaxRestarts
  /\ restarts' = restarts + 1
  /\ req' = [r \in Requests |-> Idle]
  /\ limits' = [k \in LimiterKeys |-> Closed]
  /\ passed' = <<>>
  /\ UNCHANGED <<users, born, tokens, mailed, sessions, now, left, spent, crossed>>

Next ==
  \/ \E r \in Requests :
       \/ \E ask \in Calls, host \in Hosts : Start(r, ask, host)
       \/ FindEmail(r) \/ Compare(r) \/ InsertUser(r) \/ LinkUser(r) \/ FindUser(r) \/ StorePassword(r)
       \/ StoreByEmail(r) \/ SpendOld(r) \/ AddToken(r) \/ Mail(r) \/ FindToken(r) \/ ResetPassword(r)
       \/ DeleteUser(r)
  \/ Tick \/ Restart

Spec == Init /\ [][Next]_vars

-----------------------------------------------------------------------------
\* Types, and one account per address and per identity of a provider.
TypeOK ==
  /\ \A u \in Rows :
       /\ u <= born /\ users[u].email \in Emails /\ users[u].password \in Passwords \union {None}
       /\ \A v \in Rows \ {u} :
            /\ users[u].email # users[v].email
            /\ \A p \in Providers : users[u].linked[p] # None => users[u].linked[p] # users[v].linked[p]
  /\ born \in 0..MaxUsers /\ sessions \subseteq 1..born
  /\ mailed \subseteq DOMAIN tokens /\ spent \subseteq DOMAIN tokens
  /\ \A k \in LimiterKeys : limits[k].count \in 0..MaxAttempts
  /\ crossed \subseteq Kinds \X Kinds

\* At most one link for a reset works at a time ("used_at = NOW() WHERE user_id = $1 AND
\* used_at IS NULL" in requestPasswordReset), unless two requests for one crossed: the
\* UPDATE of the second does not see the row the first has yet to commit.
OneLiveToken ==
  \A u \in Rows : Cardinality({t \in LiveOf(u) : Live(t)}) <= 1 \/ <<"request", "request">> \in crossed

\* A password is replaced by someone who gave the one that is replaced or holds an
\* unused link, the operator aside, unless the request crossed another that wrote
\* between its check and its UPDATE; and a link sets a password once.
Met(r, kinds) == req[r].met \intersect kinds # {}
PasswordByRight ==
  [][\A r \in Requests :
       /\ At(r, "storePassword") /\ ~At(r, "storePassword")' /\ req[r].user \in Rows /\ restarts' = restarts =>
            users[req[r].user].password = req[r].seen \/ Met(r, {"change", "confirm", "script"})
       /\ At(r, "resetPassword") /\ ~At(r, "resetPassword")' /\ restarts' = restarts =>
            \/ ~tokens[req[r].ask.token].used /\ req[r].ask.token \notin spent
            \/ Met(r, {"confirm", "request", "delete"})]_vars

\* A sign-in with a provider fails for two reasons only: another request created the
\* account meanwhile, or the identity belongs to an account with another address (the
\* person's address at the provider has changed, or two accounts were made).
OAuthFailureExplained ==
  [][\A r \in Requests :
       req[r].ask.kind = "oauth" /\ ~Answered(r) /\ req'[r].todo = <<>> /\ req'[r].verdict = "refused" =>
         \/ Met(r, {"signup", "oauth"})
         \/ \E u \in Linked(req[r].ask.identity) : users[u].email # req[r].ask.email]_vars

\* While the API runs, the limiter lets fewer than 2 * MaxAttempts requests from one host
\* for a reset mail to one address through in any stretch as long as its window ("repeated
\* reset requests are throttled by ip+email", passwordResetAndPasswordSetup.integration.test.js:208).
\* Requests for the address from other hosts are counted apart.
ResetRate ==
  \A i \in DOMAIN passed :
    Cardinality({j \in DOMAIN passed : /\ passed[j].key = passed[i].key
                                       /\ passed[j].at >= passed[i].at /\ passed[j].at < passed[i].at + Window})
      < 2 * MaxAttempts

=============================================================================
