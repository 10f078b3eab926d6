------------------------------- MODULE Access -------------------------------
(***************************************************************************)
(* Accounts, sessions and API keys of the search server                    *)
(* (src/search/account_routes.py, accounts.py, api_key_routes.py, deps.py, *)
(* sessions.py, api_keys.py, setup.py and the tables of src/appdb).        *)
(*                                                                         *)
(* Each client sends its requests one after the other; requests of         *)
(* different clients run on threads of their own with a connection to      *)
(* app.db each, so they interleave between any two statements.  A          *)
(* statement, and a BEGIN IMMEDIATE transaction, is one action.  Hashes    *)
(* are names: a token is the request that opened it, a key its secret.     *)
(* An account's dates are counts of account writes (stamp).                *)
(***************************************************************************)
EXTENDS LoginThrottle, FiniteSetsExt, Functions

CONSTANTS
  Clients,      \* who sends requests
  Cases,        \* [users, sessions, keys, jar, traffic]: what a run starts from
  Fold(_),      \* the case-folded username the throttle counts
  PairLimit,    \* failures that lock one (address, username)
  NameLimit,    \* failures that lock a username whatever the address
  ShortTtl, LongTtl        \* lifetimes of a session

ASSUME LimitsAssumption == PairLimit \in Nat \ {0} /\ NameLimit \in Nat \ {0}
ASSUME ClientsAreFinite == IsFiniteSet(Clients)

Roles == {"readonly", "member", "admin"}
Statuses == {"active", "suspended"}
AccountFields == {"name", "pw", "role", "status", "updated", "suspended"}
KeyFields == {"secret", "owner", "scopes", "expires", "revoked"}

\* What the bodies of requests can say: they name no other column.
WellFormed(r) ==
  /\ r.op = "create_user" => r.role \in Roles
  /\ r.op = "update_user" => /\ DOMAIN r.set \subseteq {"pw", "role", "status"}
                             /\ "role" \in DOMAIN r.set => r.set.role \in Roles
                             /\ "status" \in DOMAIN r.set => r.set.status \in Statuses
  /\ r.op = "update_key" => DOMAIN r.set \subseteq {"scopes", "expires"}

\* A new key's secret is random: no other key has it, and no other request gets it.
Fresh(plan, keys) ==
  \A c, d \in Clients : \A i \in DOMAIN plan[c], j \in DOMAIN plan[d] :
    plan[c][i].op = "create_key" =>
      /\ \A k \in DOMAIN keys : keys[k].secret # plan[c][i].secret
      /\ plan[d][j].op = "create_key" /\ plan[d][j].secret = plan[c][i].secret => c = d /\ i = j

\* What an earlier run leaves in the tables; all that happened did so by stamp 0.
Tables(case) ==
  /\ IsFiniteSet(DOMAIN case.users) /\ DOMAIN case.users \subseteq Nat \ {0}
  /\ IsFiniteSet(DOMAIN case.keys) /\ DOMAIN case.keys \subseteq Nat \ {0}
  /\ \A u \in DOMAIN case.users :
       LET row == case.users[u] IN
       /\ DOMAIN row = AccountFields /\ row.role \in Roles /\ row.status \in Statuses
       /\ {row.updated, row.suspended} \subseteq Int
       /\ row.suspended <= row.updated /\ row.updated <= 0
       /\ \A v \in DOMAIN case.users : case.users[v].name = row.name => u = v
  /\ \A t \in DOMAIN case.sessions :
       LET row == case.sessions[t] IN
       /\ row.user \in DOMAIN case.users /\ {row.seen, row.created} \subseteq Int
       /\ row.seen <= 0 /\ row.created >= case.users[row.user].suspended
       /\ case.users[row.user].status = "suspended" => row.seen < case.users[row.user].updated
  /\ \A k \in DOMAIN case.keys :
       LET row == case.keys[k] IN
       /\ DOMAIN row = KeyFields /\ row.owner \in DOMAIN case.users /\ row.revoked \in BOOLEAN
       /\ \A l \in DOMAIN case.keys : case.keys[l].secret = row.secret => k = l

ASSUME CasesAreSound == \A case \in Cases :
  LET plan == case.traffic.script IN
  /\ Tables(case) /\ Fresh(plan, case.keys)
  /\ DOMAIN plan = Clients /\ DOMAIN case.jar = Clients
  /\ \A c \in Clients : /\ Len(plan[c]) \in Nat /\ DOMAIN plan[c] = 1..Len(plan[c])
                         /\ \A i \in DOMAIN plan[c] : WellFormed(plan[c][i])
  /\ case.traffic.ticks \in Nat \ {0} /\ case.traffic.restarts \in Nat

VARIABLES
  traffic,     \* the requests each client is going to send, and the bounds
               \* on time and on restarts
  answers,     \* the answers each client has had, with the time of a wrong guess
  pc,          \* where the handler of its current request is
  held,        \* what that handler has read and keeps
  jar,         \* the session cookie in each client's browser
  users,       \* the users table, by id
  sessions,    \* the sessions table, by token
  keys,        \* the api_keys table, by id
  stamp,       \* the number of writes to accounts so far
  setupToken,  \* SetupState.token: is it still held
  pairLog, nameLog,        \* the throttle's two maps
  clock,
  restarts,
  unswept      \* accounts whose suspension a restart cut short of its sweep

tables == <<users, sessions, keys, stamp>>
throttle == <<pairLog, nameLog>>
server == <<setupToken, throttle, clock, restarts, unswept>>
vars == <<traffic, answers, pc, held, jar, tables, server>>

Nothing == [id |-> 0]
NoCookie == <<"none", 0>>

Rank(role) == CASE role = "readonly" -> 0 [] role = "member" -> 1 [] role = "admin" -> 2

\* The next row id SQLite gives: one more than the largest in the table.
NextId(table) == IF DOMAIN table = {} THEN 1 ELSE Max(DOMAIN table) + 1

\* A row written into a table, and columns written over a row.
Put(table, id, row) == [i \in DOMAIN table \cup {id} |-> IF i = id THEN row ELSE table[i]]
Over(set, row) ==
  [f \in DOMAIN set \cup DOMAIN row |-> IF f \in DOMAIN set THEN set[f] ELSE row[f]]

ActiveAdmins == {u \in DOMAIN users : users[u].role = "admin" /\ users[u].status = "active"}

Named(name) == {u \in DOMAIN users : users[u].name = name}

-----------------------------------------------------------------------------
(* Requests *)

script == traffic.script
Request(c) == script[c][Len(answers[c]) + 1]
Waiting(c, op) == /\ pc[c] = "idle" /\ Len(answers[c]) < Len(script[c])
                  /\ Request(c).op = op
At(c, step) == pc[c] = step
Doing(c, op) == pc[c] = "handler" /\ Request(c).op = op

AnswerAt(c, code, time) ==
  /\ answers' = [answers EXCEPT ![c] = Append(@, <<code, time>>)]
  /\ pc' = [pc EXCEPT ![c] = "idle"]
  /\ held' = [held EXCEPT ![c] = Nothing]

Answer(c, code) == AnswerAt(c, code, 0)

Goto(c, step) == /\ pc' = [pc EXCEPT ![c] = step] /\ UNCHANGED answers
Keeping(c, what) == held' = [held EXCEPT ![c] = what]

Init ==
  /\ \E case \in Cases :
       /\ traffic = case.traffic /\ jar = case.jar
       /\ users = case.users /\ sessions = case.sessions /\ keys = case.keys
       /\ setupToken = (case.users = <<>>)
  /\ answers = [c \in Clients |-> <<>>]
  /\ pc = [c \in Clients |-> "idle"]
  /\ held = [c \in Clients |-> Nothing]
  /\ stamp = 0 /\ pairLog = <<>> /\ nameLog = <<>> /\ clock = 1
  /\ restarts = 0 /\ unswept = {}

-----------------------------------------------------------------------------
(* First-run setup *)

\* The fast check that no account exists yet.
SetupCheck(c) ==
  /\ Waiting(c, "setup")
  /\ IF users = <<>> THEN Goto(c, "setup_verify") /\ UNCHANGED held ELSE Answer(c, 409)
  /\ UNCHANGED <<traffic, jar, tables, server>>

SetupVerify(c) ==
  /\ At(c, "setup_verify")
  /\ IF setupToken /\ Request(c).token THEN Goto(c, "setup_insert") /\ UNCHANGED held
                                       ELSE Answer(c, 403)
  /\ UNCHANGED <<traffic, jar, tables, server>>

Account(name, pw, role, when) ==
  [name |-> name, pw |-> pw, role |-> role, status |-> "active",
   updated |-> when, suspended |-> 0]

\* INSERT ... WHERE NOT EXISTS (SELECT 1 FROM users): one statement.
SetupInsert(c) ==
  /\ At(c, "setup_insert")
  /\ IF users = <<>>
     THEN /\ users' = Put(<<>>, 1, Account(Request(c).name, Request(c).pw, "admin", stamp + 1))
          /\ stamp' = stamp + 1
          /\ Goto(c, "setup_clear") /\ UNCHANGED held
     ELSE Answer(c, 409) /\ UNCHANGED <<users, stamp>>
  /\ UNCHANGED <<traffic, jar, sessions, keys, server>>

SetupClear(c) ==
  /\ At(c, "setup_clear")
  /\ setupToken' = FALSE
  /\ Answer(c, 201)
  /\ UNCHANGED <<traffic, jar, tables, throttle, clock, restarts, unswept>>

-----------------------------------------------------------------------------
(* Login *)

AttemptKey(r) == <<r.ip, Fold(r.name)>>

MutantLocked(r) == IsLocked(pairLog, AttemptKey(r), clock)  \* Mutant: the address decides alone.

Locked(r) == \/ IsLocked(pairLog, AttemptKey(r), clock)
             \/ IsLocked(nameLog, Fold(r.name), clock)

\* is_locked comes before any password work; the second map is asked only when
\* the first one does not lock.
LoginGate(c) ==
  LET r == Request(c) IN
  /\ Waiting(c, "login")
  /\ IF Locked(r) THEN Answer(c, 429) ELSE Goto(c, "login_verify") /\ UNCHANGED held
  /\ pairLog' = Asked(pairLog, AttemptKey(r), clock)
  /\ nameLog' = IF IsLocked(pairLog, AttemptKey(r), clock) THEN nameLog
                ELSE Asked(nameLog, Fold(r.name), clock)
  /\ UNCHANGED <<traffic, jar, tables, setupToken, clock, restarts, unswept>>

\* authenticate reads the account once and then spends its time on the hash.
LoginVerify(c) ==
  LET r == Request(c)
      match == {u \in Named(r.name) : users[u].pw = r.pw} IN
  /\ At(c, "login_verify")
  /\ IF match = {} THEN Goto(c, "login_failed") /\ UNCHANGED held
     ELSE LET u == CHOOSE m \in match : TRUE IN
          /\ Goto(c, "login_verified")
          /\ Keeping(c, [id |-> u, status |-> users[u].status, updated |-> users[u].updated])
  /\ UNCHANGED <<traffic, jar, tables, server>>

RecordFailure(c) ==
  LET r == Request(c) IN
  /\ At(c, "login_failed")
  /\ pairLog' = Register(pairLog, AttemptKey(r), clock, PairLimit)
  /\ nameLog' = Register(nameLog, Fold(r.name), clock, NameLimit)
  /\ AnswerAt(c, 401, clock)
  /\ UNCHANGED <<traffic, jar, tables, setupToken, clock, restarts, unswept>>

\* A right password clears both counters, of a suspended account too; the
\* status looked at is the one authenticate read.
RecordSuccess(c) ==
  LET r == Request(c) IN
  /\ At(c, "login_verified")
  /\ pairLog' = Forget(pairLog, AttemptKey(r))
  /\ nameLog' = Forget(nameLog, Fold(r.name))
  /\ IF held[c].status # "active" THEN Answer(c, 403)
                                  ELSE Goto(c, "login_open") /\ UNCHANGED held
  /\ UNCHANGED <<traffic, jar, tables, setupToken, clock, restarts, unswept>>

Live(table) == {t \in DOMAIN table : table[t].expires > clock}

\* begin_session inserts the row, which must name an account that still
\* exists, and sweeps what has expired; then the cookie is set and last_login_at
\* stamped.
BeginSession(c) ==
  LET token == <<c, Len(answers[c]) + 1>>
      new == [user |-> held[c].id, seen |-> held[c].updated, created |-> stamp,
              expires |-> clock + (IF Request(c).remember THEN LongTtl ELSE ShortTtl)] IN
  /\ At(c, "login_open")
  /\ IF held[c].id \in DOMAIN users
     THEN /\ sessions' = LET all == Put(sessions, token, new) IN Restrict(all, Live(all))
          /\ jar' = [jar EXCEPT ![c] = token]
          /\ Answer(c, 200)
     ELSE Answer(c, 500) /\ UNCHANGED <<sessions, jar>>
  /\ UNCHANGED <<traffic, users, keys, stamp, server>>

-----------------------------------------------------------------------------
(* Who is asking *)

\* resolve_session: a live session of an account that exists and is active.
SessionOwner(token) ==
  {u \in DOMAIN users : /\ token \in Live(sessions) /\ sessions[token].user = u
                        /\ users[u].status = "active"}

\* The scopes a key is stored with and read back as, all others being dropped.
ValidScopes == {"api", "mcp", "admin"}

\* resolve_api_key: a key neither revoked nor expired of such an account.
KeyOf(secret) == {k \in DOMAIN keys : keys[k].secret = secret}
LiveKey(secret) ==
  {k \in KeyOf(secret) : /\ ~ keys[k].revoked /\ keys[k].expires > clock
                         /\ keys[k].owner \in DOMAIN users
                         /\ users[keys[k].owner].status = "active"}

\* The cookie is tried first, then the bearer key.  A person has no scopes to
\* be limited by; a key acts for its owner, with the owner's role of now.
ResolveCaller(c) ==
  LET r == Request(c) IN
  {[id |-> u, role |-> users[u].role, scopes |-> ValidScopes] :
     u \in IF r.cookie THEN SessionOwner(jar[c]) ELSE {}}
  \cup
  {[id |-> keys[k].owner, role |-> users[keys[k].owner].role, scopes |-> keys[k].scopes \cap ValidScopes] :
     k \in IF r.cookie /\ SessionOwner(jar[c]) # {} THEN {} ELSE LiveKey(r.bearer)}

AdminOps == {"create_user", "update_user", "delete_user"}
KeyOps == {"create_key", "update_key", "revoke_key"}

\* The role and scope each route demands.
Demands(op) ==
  CASE op \in AdminOps -> [role |-> "admin", scope |-> "admin"]
    [] op \in KeyOps -> [role |-> "member", scope |-> "admin"]
    [] op = "reconcile" -> [role |-> "member", scope |-> "api"]
    [] op = "search" -> [role |-> "readonly", scope |-> "api"]

Permitted(caller, op) ==
  op = "logout" \/ (/\ Rank(caller.role) >= Rank(Demands(op).role)
                    /\ Demands(op).scope \in caller.scopes)

\* A presented cookie whose session has expired loses its row.
DropExpired(c) ==
  sessions' = IF Request(c).cookie /\ jar[c] \in DOMAIN sessions \ Live(sessions)
              THEN Restrict(sessions, DOMAIN sessions \ {jar[c]}) ELSE sessions

\* The dependencies of an authenticated route: who asks, and may they.  A read
\* or a trigger is answered at once, the others go on to their handler with
\* the identity and role of this moment.
Admit(c) ==
  \E op \in AdminOps \cup KeyOps \cup {"search", "reconcile", "logout"} :
    /\ Waiting(c, op)
    /\ DropExpired(c)
    /\ \/ ResolveCaller(c) = {} /\ Answer(c, 401)
       \/ \E caller \in ResolveCaller(c) :
            IF ~ Permitted(caller, op) THEN Answer(c, 403)
            ELSE IF op \in {"search", "reconcile"} THEN Answer(c, 200)
            ELSE Goto(c, "handler") /\ Keeping(c, caller)
    /\ UNCHANGED <<traffic, jar, users, keys, stamp, server>>

Logout(c) ==
  /\ Doing(c, "logout")
  /\ sessions' = Restrict(sessions, DOMAIN sessions \ {jar[c]})
  /\ jar' = [jar EXCEPT ![c] = NoCookie]
  /\ Answer(c, 204)
  /\ UNCHANGED <<traffic, users, keys, stamp, server>>

-----------------------------------------------------------------------------
(* Accounts *)

\* INSERT under UNIQUE(username).
CreateUser(c) ==
  LET r == Request(c) IN
  /\ Doing(c, "create_user")
  /\ IF Named(r.name) # {} THEN Answer(c, 409) /\ UNCHANGED <<users, stamp>>
     ELSE /\ users' = Put(users, NextId(users), Account(r.name, r.pw, r.role, stamp + 1))
          /\ stamp' = stamp + 1
          /\ Answer(c, 201)
  /\ UNCHANGED <<traffic, jar, sessions, keys, server>>

\* The 404 check, a read of its own before the guarded transaction.
FindUser(c) ==
  /\ \E op \in {"update_user", "delete_user"} : Doing(c, op)
  /\ IF Request(c).target \in DOMAIN users THEN Goto(c, "write") /\ UNCHANGED held
                                           ELSE Answer(c, 404)
  /\ UNCHANGED <<traffic, jar, tables, server>>

\* What a PATCH asks for are the fields its body sent, r.set.
Suspends(r) == "status" \in DOMAIN r.set /\ r.set.status = "suspended"
Demotes(r) == /\ "role" \in DOMAIN r.set /\ r.set.role # "admin"
              /\ r.target \in DOMAIN users /\ users[r.target].role = "admin"

MutantRemovesLastAdmin(target) ==  \* Mutant: suspended admins count as admins.
  target \in ActiveAdmins /\ Cardinality({u \in DOMAIN users : users[u].role = "admin"}) <= 1

RemovesLastAdmin(target) == target \in ActiveAdmins /\ Cardinality(ActiveAdmins) <= 1

\* guard_update and guard_delete, read inside the transaction that writes.
UpdateRefused(r, actor) ==
  /\ Suspends(r) \/ Demotes(r)
  /\ r.target = actor \/ RemovesLastAdmin(r.target)
DeleteRefused(r, actor) == r.target = actor \/ RemovesLastAdmin(r.target)

Updated(row, r) ==
  [Over(r.set, row) EXCEPT !.updated = stamp + 1,
                           !.suspended = IF Suspends(r) THEN stamp + 1 ELSE @]

MutantUpdateUser(c) ==  \* Mutant: the suspension is answered without the sweep of the sessions.
  LET r == Request(c) IN
  /\ At(c, "write") /\ r.op = "update_user"
  /\ IF UpdateRefused(r, held[c].id) THEN Answer(c, 409) /\ UNCHANGED <<users, stamp>>
     ELSE IF r.target \notin DOMAIN users THEN Answer(c, 500) /\ UNCHANGED <<users, stamp>>
     ELSE /\ stamp' = stamp + 1
          /\ users' = [users EXCEPT ![r.target] = Updated(@, r)]
          /\ Answer(c, 200)
  /\ UNCHANGED <<traffic, jar, sessions, keys, server>>

\* apply_guarded_update's transaction; a suspension still has its sweep to do.
UpdateUser(c) ==
  LET r == Request(c) IN
  /\ At(c, "write") /\ r.op = "update_user"
  /\ IF UpdateRefused(r, held[c].id) THEN Answer(c, 409) /\ UNCHANGED <<users, stamp>>
     ELSE IF r.target \notin DOMAIN users THEN Answer(c, 500) /\ UNCHANGED <<users, stamp>>
     ELSE /\ stamp' = stamp + 1
          /\ users' = [users EXCEPT ![r.target] = Updated(@, r)]
          /\ IF Suspends(r) THEN Goto(c, "sweep") /\ UNCHANGED held ELSE Answer(c, 200)
  /\ UNCHANGED <<traffic, jar, sessions, keys, server>>

\* Every session of the suspended account goes, unless the row read back after
\* the commit has vanished.
SweepSessions(c) ==
  LET u == Request(c).target IN
  /\ At(c, "sweep")
  /\ IF u \notin DOMAIN users THEN Answer(c, 500) /\ UNCHANGED sessions
     ELSE /\ sessions' = Restrict(sessions, {t \in DOMAIN sessions : sessions[t].user # u})
          /\ Answer(c, 200)
  /\ UNCHANGED <<traffic, jar, users, keys, stamp, server>>

\* apply_guarded_delete's transaction; the foreign keys take the account's
\* sessions and keys with it.
DeleteUser(c) ==
  LET r == Request(c) IN
  /\ At(c, "write") /\ r.op = "delete_user"
  /\ IF DeleteRefused(r, held[c].id) THEN Answer(c, 409) /\ UNCHANGED <<users, sessions, keys>>
     ELSE /\ users' = Restrict(users, DOMAIN users \ {r.target})
          /\ sessions' = Restrict(sessions, {t \in DOMAIN sessions : sessions[t].user # r.target})
          /\ keys' = Restrict(keys, {k \in DOMAIN keys : keys[k].owner # r.target})
          /\ Answer(c, 204)
  /\ UNCHANGED <<traffic, jar, stamp, server>>

-----------------------------------------------------------------------------
(* API keys *)

KeyRow(r, owner) == [secret |-> r.secret, owner |-> owner, scopes |-> r.scopes,
                     expires |-> r.expires, revoked |-> FALSE]

\* A key is its creator's; the INSERT must name an owner that still exists.
CreateKey(c) ==
  LET r == Request(c) IN
  /\ Doing(c, "create_key")
  /\ IF held[c].id \notin DOMAIN users THEN Answer(c, 500) /\ UNCHANGED keys
     ELSE /\ keys' = Put(keys, NextId(keys), KeyRow(r, held[c].id))
          /\ Answer(c, 201)
  /\ UNCHANGED <<traffic, jar, users, sessions, stamp, server>>

\* Editing is for the owner alone, revoking for an admin too; anything else
\* looks like a key that does not exist.
FindKey(c) ==
  LET r == Request(c) IN
  /\ \E op \in {"update_key", "revoke_key"} : Doing(c, op)
  /\ IF /\ r.target \in DOMAIN keys
        /\ \/ keys[r.target].owner = held[c].id
           \/ r.op = "revoke_key" /\ held[c].role = "admin"
     THEN /\ Goto(c, "write")
          /\ Keeping(c, [id |-> held[c].id, row |-> keys[r.target]])
     ELSE Answer(c, 404)
  /\ UNCHANGED <<traffic, jar, tables, server>>

\* The fields that were sent, over the row they go into.
Edited(row, r) == Over(r.set, row)

MutantUpdateKey(c) ==  \* Mutant: the row read at the check is written back whole.
  LET r == Request(c) IN
  /\ At(c, "write") /\ r.op = "update_key"
  /\ IF r.target \notin DOMAIN keys THEN Answer(c, 500) /\ UNCHANGED keys
     ELSE /\ keys' = [keys EXCEPT ![r.target] = Edited(held[c].row, r)]
          /\ Answer(c, 200)
  /\ UNCHANGED <<traffic, jar, users, sessions, stamp, server>>

\* The UPDATE writes the fields that were sent, into the row of now.
UpdateKey(c) ==
  LET r == Request(c) IN
  /\ At(c, "write") /\ r.op = "update_key"
  /\ IF r.target \notin DOMAIN keys THEN Answer(c, 500) /\ UNCHANGED keys
     ELSE /\ keys' = [keys EXCEPT ![r.target] = Edited(@, r)]
          /\ Answer(c, 200)
  /\ UNCHANGED <<traffic, jar, users, sessions, stamp, server>>

\* Revoking a key that has vanished is no error.
RevokeKey(c) ==
  LET r == Request(c) IN
  /\ At(c, "write") /\ r.op = "revoke_key"
  /\ keys' = IF r.target \in DOMAIN keys THEN [keys EXCEPT ![r.target].revoked = TRUE] ELSE keys
  /\ Answer(c, 204)
  /\ UNCHANGED <<traffic, jar, users, sessions, stamp, server>>

-----------------------------------------------------------------------------
(* The surroundings *)

Tick ==
  /\ clock < traffic.ticks /\ clock' = clock + 1
  /\ UNCHANGED <<traffic, answers, pc, held, jar, tables, setupToken, throttle, restarts, unswept>>

\* The process dies with the requests it is serving and starts again: the
\* tables stay, the throttle is empty, and there is a setup token exactly when
\* there is no account.
Restart ==
  LET cut == {c \in Clients : pc[c] # "idle"} IN
  /\ restarts < traffic.restarts /\ restarts' = restarts + 1
  /\ answers' = [c \in Clients |-> IF c \in cut THEN Append(answers[c], <<0, 0>>) ELSE answers[c]]
  /\ pc' = [c \in Clients |-> "idle"]
  /\ held' = [c \in Clients |-> Nothing]
  /\ setupToken' = (users = <<>>)
  /\ pairLog' = <<>> /\ nameLog' = <<>>
  /\ unswept' = unswept \cup {Request(c).target : c \in {d \in cut : pc[d] = "sweep"}}
  /\ UNCHANGED <<traffic, jar, tables, clock>>

Serve(c) ==
  \/ SetupCheck(c) \/ SetupVerify(c) \/ SetupInsert(c) \/ SetupClear(c)
  \/ LoginGate(c) \/ LoginVerify(c) \/ RecordFailure(c) \/ RecordSuccess(c) \/ BeginSession(c)
  \/ Admit(c) \/ Logout(c)
  \/ CreateUser(c) \/ FindUser(c) \/ UpdateUser(c) \/ SweepSessions(c) \/ DeleteUser(c)
  \/ CreateKey(c) \/ FindKey(c) \/ UpdateKey(c) \/ RevokeKey(c)

Next == (\E c \in Clients : Serve(c)) \/ Tick \/ Restart

Spec == Init /\ [][Next]_vars

-----------------------------------------------------------------------------
(* Properties *)

Steps == {"idle", "setup_verify", "setup_insert", "setup_clear", "login_verify", "login_failed",
          "login_verified", "login_open", "handler", "write", "sweep"}

\* Every variable has its type; a name has one account and a secret one key
\* (the UNIQUE columns of the tables).
TypeOK ==
  /\ pc \in [Clients -> Steps]
  /\ \A c \in Clients : Len(answers[c]) + (IF pc[c] = "idle" THEN 0 ELSE 1) <= Len(script[c])
  /\ \A u \in DOMAIN users : /\ users[u].role \in Roles /\ users[u].status \in Statuses
                            /\ users[u].suspended <= users[u].updated /\ users[u].updated <= stamp
                            /\ Named(users[u].name) = {u}
  /\ \A k \in DOMAIN keys : KeyOf(keys[k].secret) = {k} /\ keys[k].revoked \in BOOLEAN
  /\ setupToken \in BOOLEAN /\ clock \in 1..traffic.ticks /\ restarts \in 0..traffic.restarts
  /\ Len(pairLog) <= MaxTracked /\ Len(nameLog) <= MaxTracked

\* Once there is an admin who can sign in, there is one for ever, whatever
\* deletions, demotions and suspensions of whichever admins race each other
\* (search/accounts.py, "never zero admins").
AdministrationIsNeverLost == [][ActiveAdmins # {} => ActiveAdmins' # {}]_vars

Answered(c, i, op, codes) == script[c][i].op = op /\ answers[c][i][1] \in codes

\* Of racing setups one creates the first admin, and its token is gone as soon
\* as that setup is answered (account_routes._setup).
OneFirstAdmin ==
  /\ Cardinality(UNION {{<<c, i>> : i \in {j \in DOMAIN answers[c] : Answered(c, j, "setup", {201})}}
                          : c \in Clients}) <= 1
  /\ setupToken /\ DOMAIN users # {} => \E c \in Clients : pc[c] = "setup_clear"

\* A session or a key always belongs to an account that exists, although a
\* login or a new key may overtake the deletion of its account (the foreign
\* keys of appdb/schema.py).
RowsHaveOwners ==
  /\ \A t \in DOMAIN sessions : sessions[t].user \in DOMAIN users
  /\ \A k \in DOMAIN keys : keys[k].owner \in DOMAIN users

\* Nobody signs in to a suspended account: a session it still has belongs to a
\* login that read the account before the suspension was committed.
SuspendedDoesNotSignIn ==
  \A t \in DOMAIN sessions :
    LET u == users[sessions[t].user] IN
    u.status = "suspended" => sessions[t].seen < u.updated

\* A session from before a suspension never outlives it, not even when the
\* account is activated again at once, unless a restart cut the sweep short
\* (accounts.apply_guarded_update).
SuspensionEndsSessions ==
  \A t \in DOMAIN sessions :
    LET u == sessions[t].user IN
    \/ sessions[t].created >= users[u].suspended
    \/ \E c \in Clients : pc[c] = "sweep" /\ Request(c).target = u
    \/ u \in unswept

\* A revoked key is never good again, although its owner may be editing it
\* while an admin revokes it (api_key_routes._update_api_key, _delete_api_key).
RevocationIsFinal ==
  [][\A k \in DOMAIN keys \cap DOMAIN keys' :
       keys[k].secret = keys'[k].secret /\ keys[k].revoked => keys'[k].revoked]_vars

LoginsOf(name) ==
  UNION {{<<c, i>> : i \in {j \in DOMAIN answers[c] :
             script[c][j].op = "login" /\ Fold(script[c][j].name) = name}} : c \in Clients}
WrongGuesses(name) ==
  {a \in LoginsOf(name) : answers[a[1]][a[2]][1] = 401 /\ answers[a[1]][a[2]][2] + Window > clock}
Succeeded(name) ==
  \/ \E a \in LoginsOf(name) : answers[a[1]][a[2]][1] \in {200, 403, 500}
  \/ \E c \in Clients : pc[c] = "login_open" /\ Fold(Request(c).name) = name

Usernames == UNION {{Fold(script[c][i].name) :
                        i \in {j \in DOMAIN script[c] : script[c][j].op = "login"}} : c \in Clients}

\* Without a success in between, the wrong passwords checked for a username in
\* one window are bounded from however many addresses and in whatever letter
\* case they come: by the threshold, by the attempts already past the gate when
\* it is reached, and by those that were past it at the lockout before, which
\* are forgotten with that lockout however recent they are
\* (login_throttle.LoginThrottle).  A lock lasts as long as the window, and more
\* names than the map holds would evict one another.
GuessesAreBounded ==
  Window <= Lockout /\ Cardinality(Usernames) <= MaxTracked =>
    \A name \in Usernames :
      \/ Succeeded(name) \/ restarts > 0
      \/ Cardinality(WrongGuesses(name)) <= NameLimit + 2 * (Cardinality(Clients) - 1)

\* From the first setup on somebody can administer the server, and that setup
\* happens once.
AdministrationIsSound == []OneFirstAdmin /\ AdministrationIsNeverLost

\* Sessions and keys follow their accounts, whatever logins, suspensions and
\* deletions race each other.
SessionsAreSound ==
  TypeOK /\ RowsHaveOwners /\ SuspendedDoesNotSignIn /\ SuspensionEndsSessions
=============================================================================
