------------------------------ MODULE MCAccess ------------------------------
(* Accounts and their surroundings checked on three clients: what each run   *)
(* starts from and the requests its clients send.                            *)
EXTENDS Access

CONSTANTS a, b, c

Never == 100
User(name, role) == [name |-> name, pw |-> "good", role |-> role, status |-> "active",
                     updated |-> 0, suspended |-> 0]
Open(u) == [user |-> u, expires |-> 3, seen |-> 0, created |-> 0]
Key(secret, owner, scopes) == [secret |-> secret, owner |-> owner, scopes |-> scopes,
                               expires |-> Never, revoked |-> FALSE]

\* Two admins and a member, signed in, the member with a key of its own.
Staff == <<User("ann", "admin"), User("bob", "admin"), User("mia", "member")>>
Opened == (<<a, 0>> :> Open(1)) @@ (<<b, 0>> :> Open(2)) @@ (<<c, 0>> :> Open(3))
Jar == (a :> <<a, 0>>) @@ (b :> <<b, 0>>) @@ (c :> <<c, 0>>)
Start(plan, ticks, restart) ==
  [users |-> Staff, sessions |-> Opened, jar |-> Jar,
   traffic |-> [script |-> plan, ticks |-> ticks, restarts |-> restart],
   keys |-> <<Key("k", 3, {"api", "admin"})>>]

By(op) == [op |-> op, cookie |-> TRUE, bearer |-> "none"]
With(secret, op) == [op |-> op, cookie |-> FALSE, bearer |-> secret]
Login(name, pw, ip) == [op |-> "login", name |-> name, pw |-> pw, ip |-> ip, remember |-> FALSE]
Setup(name, token) == [op |-> "setup", name |-> name, pw |-> "good", token |-> token]
Delete(u) == [target |-> u] @@ By("delete_user")
Update(u, set) == [target |-> u, set |-> set] @@ By("update_user")
Create(name, role) == [name |-> name, pw |-> "good", role |-> role] @@ By("create_user")
Suspend == [status |-> "suspended"]
Activate == [status |-> "active"]
Role(r) == [role |-> r]
KeyOp(op, k, set) == [target |-> k, set |-> set] @@ By(op)
NewKey(secret, scopes) == [secret |-> secret, scopes |-> scopes, expires |-> Never] @@ By("create_key")

Plan(x, y, z) == (a :> x) @@ (b :> y) @@ (c :> z)

MCCases == {
  \* Racing setups on an empty database, one with a wrong token.
  [users |-> <<>>, sessions |-> <<>>, keys |-> <<>>,
   jar |-> [d \in Clients |-> NoCookie],
   traffic |-> [ticks |-> 1, restarts |-> 1, script |->
                Plan(<<Setup("ann", TRUE), Login("ann", "good", 1), Create("bob", "member")>>,
                     <<Setup("bob", TRUE), Login("bob", "good", 2), By("search")>>,
                     <<Setup("mia", FALSE), Setup("mia", TRUE)>>)]],
  \* Two admins against each other, and a third who is just becoming one.
  Start(Plan(<<Update(3, Role("admin")), Update(2, Suspend), Delete(3)>>,
             <<Delete(1), Update(1, Role("member"))>>,
             <<Update(1, Suspend), Update(2, Role("readonly")), By("reconcile")>>), 1, 0),
  \* A suspension, the activation after it, and logins meanwhile.
  Start(Plan(<<Update(3, Suspend), Create("mia", "member"), Update(3, Activate)>>,
             <<Login("mia", "good", 2), By("search"), Login("mia", "good", 1)>>,
             <<By("search"), By("logout"), With("k", "search")>>), 1, 1),
  \* An account is deleted and another created while it logs in and makes a key.
  Start(Plan(<<Delete(3), Create("eve", "member")>>,
             <<[remember |-> TRUE] @@ Login("mia", "good", 2), By("search")>>,
             <<NewKey("n", {"api"}), KeyOp("update_key", 2, [scopes |-> {"api", "mcp"}]), With("n", "reconcile")>>), 3, 0),
  \* A key edited by its owner and revoked by an admin, whose role is changing.
  Start(Plan(<<KeyOp("revoke_key", 1, <<>>), KeyOp("update_key", 1, [scopes |-> {"api"}])>>,
             <<Update(1, Role("member")), Update(3, Role("readonly"))>>,
             <<KeyOp("update_key", 1, [scopes |-> {"api"}, expires |-> 2]), With("k", "search"), With("k", "delete_user")>>), 2, 0),
  \* Wrong passwords for one name, in two spellings, from many addresses; one
  \* client may sit out a lockout between the gate and its password check.
  Start(Plan(<<Login("mia", "bad", 1), Login("mia", "bad", 2), Login("mia", "bad", 3), Login("mia", "bad", 4), Login("mia", "bad", 5)>>,
             <<Login("Mia", "bad", 6), Login("mia", "bad", 7), Login("Mia", "bad", 8)>>,
             <<Login("Mia", "bad", 9)>>), 4, 0),
  \* A right password between wrong ones from one address.
  Start(Plan(<<Login("mia", "bad", 1), Login("mia", "bad", 2), Login("mia", "good", 3)>>,
             <<Login("mia", "bad", 4)>>,
             <<Login("Mia", "bad", 5), Login("mia", "bad", 5), Login("mia", "bad", 5)>>), 2, 0) }

MCFold(name) == IF name = "Mia" THEN "mia" ELSE name
=============================================================================
