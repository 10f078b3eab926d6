---------------------------- MODULE AccessProofs ----------------------------
(***************************************************************************)
(* What TLAPS proves of accounts, sessions and API keys, for any number of *)
(* clients, accounts and keys, whatever the clients send and however their *)
(* requests interleave.                                                    *)
(***************************************************************************)
EXTENDS Access, ListProofs

-----------------------------------------------------------------------------
(* The inductive invariant, in its parts                                   *)

\* What the clients send stays what the assumption on Cases says of it.
Planned ==
  /\ \A c \in Clients : /\ Len(script[c]) \in Nat /\ DOMAIN script[c] = 1..Len(script[c])
                        /\ \A i \in DOMAIN script[c] : WellFormed(script[c][i])
  /\ \A c, d \in Clients : \A i \in DOMAIN script[c], j \in DOMAIN script[d] :
       /\ script[c][i].op = "create_key" /\ script[d][j].op = "create_key"
       /\ script[c][i].secret = script[d][j].secret
       => c = d /\ i = j
  /\ traffic.ticks \in Nat \ {0} /\ traffic.restarts \in Nat

Codes == Seq(Nat \X Nat)
More(c) == Len(answers[c]) < Len(script[c])

\* Handlers: one that is at work has its request in front of it.
Positioned ==
  /\ pc = [c \in Clients |-> pc[c]] /\ DOMAIN answers = Clients /\ DOMAIN held = Clients
  /\ \A c \in Clients : /\ pc[c] \in Steps /\ answers[c] \in Codes
                        /\ Len(answers[c]) <= Len(script[c])
                        /\ pc[c] # "idle" => More(c)

IsLog(log) == log \in Seq(Range(log)) /\ Len(log) <= MaxTracked

Surrounded ==
  /\ setupToken \in BOOLEAN /\ clock \in 1..traffic.ticks /\ restarts \in 0..traffic.restarts
  /\ IsLog(pairLog) /\ IsLog(nameLog)

IsUser(row, now) ==
  /\ DOMAIN row = AccountFields /\ row.role \in Roles /\ row.status \in Statuses
  /\ row.updated \in Int /\ row.suspended \in Int
  /\ row.suspended <= row.updated /\ row.updated <= now

Accounts ==
  /\ stamp \in Nat /\ IsFiniteSet(DOMAIN users) /\ DOMAIN users \subseteq Nat \ {0}
  /\ \A u \in DOMAIN users : IsUser(users[u], stamp)
  /\ \A u, v \in DOMAIN users : users[u].name = users[v].name => u = v

\* Whoever is changing accounts was admitted as an admin, and there is still one.
Administered == \A c \in Clients :
  pc[c] # "idle" /\ Request(c).op \in AdminOps => ActiveAdmins # {}

\* A login that keeps an account active although it is suspended by now kept it
\* before that suspension was written; its id may have been given anew.
KeepsDate(c) ==
  /\ held[c].updated \in Int /\ held[c].updated <= stamp
  /\ pc[c] = "login_open" => held[c].status = "active"
  /\ held[c].id \in DOMAIN users =>
       LET now == users[held[c].id] IN
       /\ held[c].updated <= now.updated
       /\ held[c].status = "active" /\ now.status = "suspended" => held[c].updated < now.updated
LoginsKept == \A c \in Clients : pc[c] \in {"login_verified", "login_open"} => KeepsDate(c)

\* The accounts whose sweep is to come, or was cut short by a restart.
ToSweep == {Request(c).target : c \in {d \in Clients : pc[d] = "sweep"}} \cup unswept

SessionsKept == \A t \in DOMAIN sessions :
  LET row == sessions[t]
      user == users[row.user] IN
  /\ row.user \in DOMAIN users /\ row.seen \in Int /\ row.seen <= stamp /\ row.created \in Int
  /\ user.status = "suspended" => row.seen < user.updated
  /\ row.created >= user.suspended \/ row.user \in ToSweep

\* A secret that a client has still to send is in no row.
KeysKept ==
  /\ IsFiniteSet(DOMAIN keys) /\ DOMAIN keys \subseteq Nat \ {0}
  /\ \A k \in DOMAIN keys : /\ DOMAIN keys[k] = KeyFields
                            /\ keys[k].owner \in DOMAIN users /\ keys[k].revoked \in BOOLEAN
  /\ \A k, l \in DOMAIN keys : keys[k].secret = keys[l].secret => k = l
  /\ \A c \in Clients : \A i \in DOMAIN script[c] : \A k \in DOMAIN keys :
       i > Len(answers[c]) /\ script[c][i].op = "create_key" => keys[k].secret # script[c][i].secret

\* The setups that have created an account, answered or about to be.
Winner(c, i) == \/ i \in DOMAIN answers[c] /\ Answered(c, i, "setup", {201})
                \/ i = Len(answers[c]) + 1 /\ pc[c] = "setup_clear"
SetUp ==
  /\ \A c, d \in Clients : \A i, j \in Nat : Winner(c, i) /\ Winner(d, j) => c = d /\ i = j
  /\ \A c \in Clients : \A i \in Nat : Winner(c, i) => DOMAIN users # {}
  /\ setupToken /\ DOMAIN users # {} => \E c \in Clients : pc[c] = "setup_clear"

IInv == /\ Planned /\ Positioned /\ Surrounded /\ Accounts /\ Administered /\ LoginsKept
        /\ SessionsKept /\ KeysKept /\ SetUp

-----------------------------------------------------------------------------
(* How one request's step looks from the others                            *)

\* A handler ends with its answer.  201 is what a setup answers from its last
\* step, and what a new account and a new key answer.
Ends(c) ==
  /\ pc'[c] = "idle"
  /\ \E code \in Nat, time \in Nat :
       /\ answers'[c] = Append(answers[c], <<code, time>>)
       /\ code = 201 => pc[c] = "setup_clear" \/ Request(c).op # "setup"

Goes(c) == /\ pc'[c] \in Steps \ {"idle"} /\ pc[c] # "setup_clear" /\ answers'[c] = answers[c]

Alone(c) ==
  /\ pc' = [d \in Clients |-> pc'[d]] /\ DOMAIN answers' = Clients /\ DOMAIN held' = Clients
  /\ \A d \in Clients \ {c} : /\ pc'[d] = pc[d] /\ answers'[d] = answers[d]
                              /\ held'[d] = held[d]

LEMMA AnswerIsAlone ==
  ASSUME Positioned, NEW c \in Clients, NEW code, NEW time, AnswerAt(c, code, time)
  PROVE  Alone(c) /\ pc'[c] = "idle" /\ answers'[c] = Append(answers[c], <<code, time>>)
BY DEF Positioned, AnswerAt, Alone

LEMMA GoingIsAlone ==
  ASSUME Positioned, NEW c \in Clients, NEW step \in Steps \ {"idle"}, Goto(c, step),
         UNCHANGED held \/ \E what : Keeping(c, what)
  PROVE  Alone(c) /\ pc'[c] = step /\ answers'[c] = answers[c]
BY DEF Positioned, Goto, Keeping, Alone

LEMMA AtWork ==
  ASSUME Positioned, NEW c \in Clients, Serve(c)
  PROVE  More(c)
<1>1. pc[c] = "idle" => More(c)
  BY DEF Serve, SetupCheck, SetupVerify, SetupInsert, SetupClear, LoginGate, LoginVerify,
         RecordFailure, RecordSuccess, BeginSession, Admit, Logout, CreateUser, FindUser,
         UpdateUser, SweepSessions, DeleteUser, CreateKey, FindKey, UpdateKey, RevokeKey,
         Waiting, At, Doing, More
<1> QED BY <1>1 DEF Positioned

LEMMA Frame ==
  ASSUME Positioned, clock \in Nat, NEW c \in Clients, Serve(c)
  PROVE  Alone(c) /\ (Ends(c) \/ Goes(c)) /\ UNCHANGED <<traffic, clock, restarts, unswept>>
<1> USE DEF Answer, Steps
<1>e. ASSUME NEW code \in Nat, AnswerAt(c, code, 0), 
             code = 201 => pc[c] = "setup_clear" \/ Request(c).op # "setup"
      PROVE  Alone(c) /\ Ends(c)
  BY <1>e, AnswerIsAlone DEF Ends
<1>g. ASSUME NEW step \in Steps \ {"idle"}, Goto(c, step), pc[c] # "setup_clear",
             UNCHANGED held \/ \E what : Keeping(c, what)
      PROVE  Alone(c) /\ Goes(c)
  BY <1>g, GoingIsAlone DEF Goes
<1> USE DEF vars, tables, throttle, server
<1>1. CASE SetupCheck(c)
  BY <1>1, <1>e, <1>g DEF SetupCheck, Waiting
<1>2. CASE SetupVerify(c)
  BY <1>2, <1>e, <1>g DEF SetupVerify, At
<1>3. CASE SetupInsert(c)
  BY <1>3, <1>e, <1>g DEF SetupInsert, At
<1>4. CASE SetupClear(c)
  BY <1>4, <1>e DEF SetupClear, At
<1>5. CASE LoginGate(c)
  BY <1>5, <1>e, <1>g DEF LoginGate, Waiting
<1>6. CASE LoginVerify(c)
  BY <1>6, <1>g DEF LoginVerify, At
<1>7. CASE RecordFailure(c)
  BY <1>7, AnswerIsAlone DEF RecordFailure, Ends
<1>8. CASE RecordSuccess(c)
  BY <1>8, <1>e, <1>g DEF RecordSuccess, At
<1>9. CASE BeginSession(c)
  BY <1>9, <1>e DEF BeginSession
<1>10. CASE Admit(c)
  BY <1>10, <1>e, <1>g DEF Admit, Waiting
<1>11. CASE Logout(c)
  BY <1>11, <1>e DEF Logout
<1>12. CASE CreateUser(c)
  BY <1>12, <1>e DEF CreateUser, Doing
<1>13. CASE FindUser(c)
  BY <1>13, <1>e, <1>g DEF FindUser, Doing
<1>14. CASE UpdateUser(c)
  BY <1>14, <1>e, <1>g DEF UpdateUser, At
<1>15. CASE SweepSessions(c)
  BY <1>15, <1>e DEF SweepSessions, At
<1>16. CASE DeleteUser(c)
  BY <1>16, <1>e DEF DeleteUser, At
<1>17. CASE CreateKey(c)
  BY <1>17, <1>e DEF CreateKey, Doing
<1>18. CASE FindKey(c)
  BY <1>18, <1>e, <1>g DEF FindKey, Doing
<1>19. CASE UpdateKey(c)
  BY <1>19, <1>e DEF UpdateKey, At
<1>20. CASE RevokeKey(c)
  BY <1>20, <1>e DEF RevokeKey, At
<1> QED BY <1>1, <1>2, <1>3, <1>4, <1>5, <1>6, <1>7, <1>8, <1>9, <1>10, <1>11, <1>12, <1>13,
           <1>14, <1>15, <1>16, <1>17, <1>18, <1>19, <1>20 DEF Serve

LEMMA RequestStays ==
  ASSUME Positioned, NEW c \in Clients, Alone(c), Ends(c) \/ Goes(c), traffic' = traffic,
         NEW d \in Clients, d # c \/ pc'[d] # "idle"
  PROVE  Request(d)' = Request(d) /\ answers'[d] = answers[d] /\ (d # c => pc'[d] = pc[d])
BY DEF Alone, Ends, Goes, Request, script

LEMMA Positions ==
  ASSUME Planned, Positioned, NEW c \in Clients, Alone(c), Ends(c) \/ Goes(c), More(c),
         traffic' = traffic
  PROVE  Planned' /\ Positioned'
<1>1. Planned'
  BY DEF Planned, script
<1>2. \A d \in Clients : Len(script'[d]) = Len(script[d]) /\ Len(script[d]) \in Nat
  BY DEF Planned, script
<1>3. ASSUME Ends(c)
      PROVE  answers'[c] \in Codes /\ Len(answers'[c]) <= Len(script[c]) /\ pc'[c] = "idle"
  <2>1. PICK a \in Nat \X Nat : answers'[c] = Append(answers[c], a)
    BY <1>3 DEF Ends
  <2>2. answers'[c] \in Codes /\ Len(answers'[c]) = Len(answers[c]) + 1 /\ Len(answers[c]) \in Nat
    BY <2>1, AppendProperties, LenProperties DEF Positioned, Codes
  <2> QED BY <1>2, <1>3, <2>2 DEF Ends, More
<1>4. ASSUME Goes(c)
      PROVE  /\ answers'[c] = answers[c] /\ pc'[c] \in Steps /\ More(c)'
  BY <1>2, <1>4 DEF Goes, More
<1>5. Positioned'
  <2>1. \A d \in Clients \ {c} : answers'[d] = answers[d] /\ pc'[d] = pc[d] /\ (More(d) => More(d)')
    BY <1>2 DEF Alone, More
  <2>2. pc' = [d \in Clients |-> pc'[d]] /\ DOMAIN answers' = Clients /\ DOMAIN held' = Clients
    BY DEF Alone
  <2>3. \A d \in Clients \ {c} : /\ pc'[d] \in Steps /\ answers'[d] \in Codes
                                 /\ Len(answers'[d]) <= Len(script'[d])
                                 /\ pc'[d] # "idle" => More(d)'
    BY <1>2, <2>1 DEF Positioned
  <2>4. /\ pc'[c] \in Steps /\ answers'[c] \in Codes
        /\ Len(answers'[c]) <= Len(script'[c])
        /\ pc'[c] # "idle" => More(c)'
    BY <1>2, <1>3, <1>4 DEF Positioned, Steps
  <2> QED BY <2>2, <2>3, <2>4 DEF Positioned
<1> QED BY <1>1, <1>5

\* The request that is being served is one of those planned.
LEMMA RequestPlanned ==
  ASSUME Planned, Positioned, NEW c \in Clients, More(c)
  PROVE  /\ Len(answers[c]) \in Nat /\ Len(answers[c]) + 1 \in DOMAIN script[c]
         /\ WellFormed(Request(c))
<1>1. Len(answers[c]) \in Nat
  BY LenProperties DEF Positioned, Codes
<1> QED BY <1>1 DEF Planned, Request, More

-----------------------------------------------------------------------------
(* The throttle's maps stay within their bound                             *)

LEMMA SeqOfItsRange ==
  ASSUME NEW S, NEW log \in Seq(S)
  PROVE  log \in Seq(Range(log))
<1>1. Len(log) \in Nat /\ DOMAIN log = 1..Len(log) /\ log \in [1..Len(log) -> S]
  BY LenProperties
<1>2. log \in [1..Len(log) -> Range(log)]
  BY <1>1 DEF Range
<1> DEFINE n == Len(log)
<1> HIDE DEF n
<1>3. n \in Nat /\ log \in [1..n -> Range(log)]
  BY <1>1, <1>2 DEF n
<1> QED BY <1>3, SeqDef

LEMMA NoRecords == IsLog(<<>>)
BY EmptySeq, ThrottleAssumption DEF IsLog

LEMMA AskedIsLog ==
  ASSUME NEW log, IsLog(log), NEW key, NEW now
  PROVE  IsLog(Asked(log, key, now))
<1> DEFINE new == Asked(log, key, now)
<1>1. Len(log) \in Nat /\ DOMAIN log = 1..Len(log)
  BY LenProperties DEF IsLog
<1>2. DOMAIN new = 1..Len(log)
  BY <1>1 DEF Asked
<1>3. new = [i \in 1..Len(log) |-> new[i]]
  BY <1>1 DEF Asked
<1> HIDE DEF new
<1>4. new \in [1..Len(log) -> Range(new)]
  BY <1>2, <1>3 DEF Range
<1>5. new \in Seq(Range(new))
  BY <1>1, <1>4, SeqDef
<1>6. Len(new) = Len(log)
  BY <1>1, <1>2, <1>5, LenProperties
<1> QED BY <1>5, <1>6 DEF IsLog, new

LEMMA ForgetIsLog ==
  ASSUME NEW log, IsLog(log), NEW key
  PROVE  IsLog(Forget(log, key))
<1>1. CASE ~ Tracked(log, key)
  BY <1>1 DEF Forget
<1>2. CASE Tracked(log, key)
  <2> DEFINE S == Range(log)
             p == Place(log, key)
             front == SubSeq(log, 1, p - 1)
             back == SubSeq(log, p + 1, Len(log))
  <2>1. log \in Seq(S) /\ Len(log) \in Nat /\ DOMAIN log = 1..Len(log)
    BY LenProperties DEF IsLog
  <2>2. p \in 1..Len(log) /\ \A i \in 1..Len(log) : log[i] \in S
    BY <1>2, <2>1 DEF Tracked, Place, Range
  <2> HIDE DEF S, p
  <2>3. front \in Seq(S) /\ Len(front) = p - 1
    BY <2>1, <2>2, SubSeqProperties
  <2>4. back \in Seq(S) /\ Len(back) = Len(log) - p
    <3> DEFINE m == p + 1
    <3>1. m \in Int /\ Len(log) \in Int /\ \A i \in m..Len(log) : log[i] \in S
      BY <2>1, <2>2
    <3> HIDE DEF m
    <3>2. /\ SubSeq(log, m, Len(log)) \in Seq(S)
          /\ Len(SubSeq(log, m, Len(log))) = IF m <= Len(log) THEN Len(log) - m + 1 ELSE 0
      BY <3>1, SubSeqProperties
    <3>3. (IF m <= Len(log) THEN Len(log) - m + 1 ELSE 0) = Len(log) - p
      <4>1. p \in Int /\ Len(log) \in Int /\ p <= Len(log)
        BY <2>1, <2>2
      <4>2. \A x, y \in Int : x <= y => (IF x + 1 <= y THEN y - (x + 1) + 1 ELSE 0) = y - x
        OBVIOUS
      <4> QED BY <4>1, <4>2 DEF m
    <3>4. back = SubSeq(log, m, Len(log))
      BY DEF m
    <3> HIDE DEF back
    <3> QED BY <3>2, <3>3, <3>4
  <2> HIDE DEF front, back
  <2>5. front \o back \in Seq(S) /\ Len(front \o back) = Len(log) - 1
    <3>1. front \o back \in Seq(S) /\ Len(front \o back) = Len(front) + Len(back)
      BY <2>3, <2>4, ConcatProperties
    <3> QED BY <2>1, <2>2, <2>3, <2>4, <3>1
  <2>6. Forget(log, key) = front \o back
    BY <1>2 DEF Forget, RemoveAt, front, back, p
  <2>7. Len(log) <= MaxTracked
    BY DEF IsLog
  <2>8. Len(Forget(log, key)) <= MaxTracked
    BY <2>1, <2>5, <2>6, <2>7, ThrottleAssumption
  <2> QED BY <2>5, <2>6, <2>8, SeqOfItsRange DEF IsLog
<1> QED BY <1>1, <1>2

\* Recording a failure evicts the oldest record of a full map.
LEMMA RegisterIsLog ==
  ASSUME NEW log, IsLog(log), NEW key, NEW now, NEW threshold
  PROVE  IsLog(Register(log, key, now, threshold))
<1>1. PICK new : Register(log, key, now, threshold) =
        LET all == Append(Forget(log, key), new)
        IN  SubSeq(all, IF Len(all) > MaxTracked THEN 2 ELSE 1, Len(all))
  BY DEF Register
<1> DEFINE old == Forget(log, key)
           S == Range(old) \cup {new}
           all == Append(old, new)
<1>2. old \in Seq(Range(old)) /\ Len(old) \in Nat /\ Len(old) <= MaxTracked
  <2> HIDE DEF old
  <2> QED BY ForgetIsLog, LenProperties DEF IsLog, old
<1>3. old \in Seq(S)
  <2> HIDE DEF old
  <2>1. old \in [1..Len(old) -> Range(old)]
    BY <1>2, LenProperties
  <2>2. old \in [1..Len(old) -> S]
    BY <2>1
  <2> QED BY <1>2, <2>2, SeqDef
<1> HIDE DEF old
<1>4. all \in Seq(S) /\ Len(all) = Len(old) + 1
  <2> HIDE DEF S
  <2> QED BY <1>3, AppendProperties DEF S
<1> HIDE DEF S, all
<1> DEFINE first == IF Len(all) > MaxTracked THEN 2 ELSE 1
<1>5. MaxTracked \in Nat \ {0}
  BY ThrottleAssumption
<1>6. /\ SubSeq(all, first, Len(all)) \in Seq(S)
      /\ Len(SubSeq(all, first, Len(all))) <= MaxTracked
  <2>1. first \in Nat /\ first >= 1 /\ \A i \in first..Len(all) : all[i] \in S
    BY <1>2, <1>4, <1>5, ElementOfSeq
  <2>2. SubSeq(all, first, Len(all)) \in Seq(S)
    BY <1>2, <1>4, <2>1, SubSeqProperties
  <2>3. Len(SubSeq(all, first, Len(all))) = IF first <= Len(all) THEN Len(all) - first + 1 ELSE 0
    BY <1>2, <1>4, <2>1, SubSeqProperties
  <2> QED BY <1>2, <1>4, <1>5, <2>2, <2>3
<1>7. Register(log, key, now, threshold) = SubSeq(all, first, Len(all))
  BY <1>1 DEF all, old
<1> HIDE DEF first
<1>8. IsLog(SubSeq(all, first, Len(all)))
  BY <1>6, SeqOfItsRange DEF IsLog
<1> QED BY <1>7, <1>8

-----------------------------------------------------------------------------
(* Rows, and ids that are new                                              *)

LEMMA NextIdIsNew ==
  ASSUME NEW table, IsFiniteSet(DOMAIN table), DOMAIN table \subseteq Nat \ {0}
  PROVE  NextId(table) \in Nat \ {0} /\ NextId(table) \notin DOMAIN table
<1>1. CASE DOMAIN table = {}
  BY <1>1 DEF NextId
<1>2. CASE DOMAIN table # {}
  <2>1. Max(DOMAIN table) \in DOMAIN table /\ \A y \in DOMAIN table : Max(DOMAIN table) >= y
    BY <1>2, MaxIsGreatest
  <2> QED BY <1>2, <2>1 DEF NextId
<1> QED BY <1>1, <1>2

LEMMA PutRow ==
  ASSUME NEW table, NEW id, NEW row
  PROVE  /\ DOMAIN Put(table, id, row) = DOMAIN table \cup {id}
         /\ Put(table, id, row)[id] = row
         /\ \A i \in DOMAIN table \ {id} : Put(table, id, row)[i] = table[i]
BY DEF Put

\* What an update leaves of an account: its columns, with the sent ones over
\* them; a name is never sent.
LEMMA UpdatedRow ==
  ASSUME stamp \in Nat, NEW row, IsUser(row, stamp), NEW r, WellFormed(r), r.op = "update_user"
  PROVE  LET new == Updated(row, r) IN
         /\ IsUser(new, stamp + 1) /\ new.name = row.name /\ new.updated = stamp + 1
         /\ new.role = IF "role" \in DOMAIN r.set THEN r.set.role ELSE row.role
         /\ new.status = IF "status" \in DOMAIN r.set THEN r.set.status ELSE row.status
         /\ new.suspended = IF Suspends(r) THEN stamp + 1 ELSE row.suspended
<1> DEFINE over == Over(r.set, row)
           new == Updated(row, r)
<1>1. /\ DOMAIN r.set \subseteq {"pw", "role", "status"}
      /\ "role" \in DOMAIN r.set => r.set.role \in Roles
      /\ "status" \in DOMAIN r.set => r.set.status \in Statuses
  BY DEF WellFormed
<1>2. /\ DOMAIN row = AccountFields /\ row.role \in Roles /\ row.status \in Statuses
      /\ row.updated \in Int /\ row.suspended \in Int
      /\ row.suspended <= row.updated /\ row.updated <= stamp
  BY DEF IsUser
<1>3. /\ DOMAIN over = AccountFields
      /\ over.name = row.name /\ over.suspended = row.suspended
      /\ over.role = IF "role" \in DOMAIN r.set THEN r.set.role ELSE row.role
      /\ over.status = IF "status" \in DOMAIN r.set THEN r.set.status ELSE row.status
  BY <1>1, <1>2 DEF Over, AccountFields
<1>4. /\ DOMAIN new = AccountFields /\ new.name = over.name /\ new.updated = stamp + 1
      /\ new.role = over.role /\ new.status = over.status
      /\ new.suspended = IF Suspends(r) THEN stamp + 1 ELSE over.suspended
  <2> HIDE DEF over
  <2> QED BY <1>3 DEF Updated, over, AccountFields
<1> HIDE DEF over, new
<1>5. IsUser(new, stamp + 1)
  <2>1. new.role \in Roles /\ new.status \in Statuses
    BY <1>1, <1>2, <1>3, <1>4
  <2>2. /\ new.updated \in Int /\ new.suspended \in Int
        /\ new.suspended <= new.updated /\ new.updated <= stamp + 1
    BY <1>2, <1>3, <1>4
  <2> QED BY <1>4, <2>1, <2>2 DEF IsUser
<1> QED BY <1>3, <1>4, <1>5 DEF new

-----------------------------------------------------------------------------
(* What a step may do to the accounts                                      *)

AccountStep(c) ==
  /\ Accounts' /\ stamp' >= stamp
  /\ \A u \in DOMAIN users' : \/ u \in DOMAIN users /\ users'[u] = users[u]
                              \/ users'[u].updated > stamp
  /\ \A u \in DOMAIN users' \cap DOMAIN users :
       \/ users'[u].suspended = users[u].suspended
       \/ pc'[c] = "sweep" /\ Request(c).target = u
  /\ ActiveAdmins # {} => ActiveAdmins' # {}
  /\ DOMAIN users # {} => DOMAIN users' # {}

LEMMA AccountsUntouched ==
  ASSUME Accounts, NEW c, UNCHANGED <<users, stamp>>
  PROVE  AccountStep(c)
BY DEF Accounts, AccountStep, ActiveAdmins

LEMMA AccountAdded ==
  ASSUME Accounts, NEW c, NEW id \in Nat \ {0}, id \notin DOMAIN users,
         NEW name, NEW pw, NEW role \in Roles, Named(name) = {}, stamp' = stamp + 1,
         users' = Put(users, id, Account(name, pw, role, stamp + 1))
  PROVE  AccountStep(c) /\ DOMAIN users \subseteq DOMAIN users'
<1> DEFINE row == Account(name, pw, role, stamp + 1)
<1>1. /\ IsUser(row, stamp + 1) /\ row.name = name /\ row.updated = stamp + 1
  BY DEF Accounts, Account, IsUser, AccountFields, Statuses
<1>0. users' = Put(users, id, row)
  OBVIOUS
<1> HIDE DEF row
<1>2. /\ DOMAIN users' = DOMAIN users \cup {id} /\ users'[id] = row
      /\ \A u \in DOMAIN users : users'[u] = users[u] /\ u # id
  BY <1>0, id \notin DOMAIN users DEF Put
<1>3. /\ stamp \in Nat /\ stamp' \in Nat /\ stamp' > stamp
  BY DEF Accounts
<1>4. IsFiniteSet(DOMAIN users') /\ DOMAIN users' \subseteq Nat \ {0}
  <2>1. IsFiniteSet(DOMAIN users)
    BY DEF Accounts
  <2>2. IsFiniteSet(DOMAIN users \cup {id})
    BY <2>1, FS_AddElement
  <2> QED BY <1>2, <2>2 DEF Accounts
<1>5. \A u \in DOMAIN users' : IsUser(users'[u], stamp')
  BY <1>1, <1>2, <1>3 DEF Accounts, IsUser
<1>6. \A u, v \in DOMAIN users' : users'[u].name = users'[v].name => u = v
  BY <1>1, <1>2 DEF Accounts, Named
<1>7. Accounts'
  BY <1>3, <1>4, <1>5, <1>6 DEF Accounts
<1>8. \A u \in DOMAIN users' : \/ u \in DOMAIN users /\ users'[u] = users[u]
                               \/ users'[u].updated > stamp
  BY <1>1, <1>2, <1>3
<1>9. ActiveAdmins \subseteq ActiveAdmins'
  BY <1>2 DEF ActiveAdmins
<1>10. \A u \in DOMAIN users' \cap DOMAIN users : users'[u].suspended = users[u].suspended
  BY <1>2
<1> QED BY <1>2, <1>3, <1>7, <1>8, <1>9, <1>10 DEF AccountStep

\* Without one account there is still an admin, unless it was the last.
LEMMA AnotherAdmin ==
  ASSUME Accounts, NEW target, ~ RemovesLastAdmin(target), ActiveAdmins # {}
  PROVE  ActiveAdmins \ {target} # {}
<1>1. CASE target \notin ActiveAdmins
  BY <1>1
<1>2. CASE target \in ActiveAdmins
  <2> SUFFICES ASSUME ActiveAdmins = {target} PROVE FALSE
    BY <1>2
  <2>1. Cardinality(ActiveAdmins) = 1
    BY FS_Singleton
  <2> QED BY <1>2, <2>1 DEF RemovesLastAdmin
<1> QED BY <1>1, <1>2

LEMMA AccountUpdated ==
  ASSUME Accounts, NEW c, NEW r, r = Request(c), WellFormed(r), r.op = "update_user",
         ~ UpdateRefused(r, held[c].id), r.target \in DOMAIN users, stamp' = stamp + 1,
         users' = [users EXCEPT ![r.target] = Updated(@, r)],
         Suspends(r) => pc'[c] = "sweep"
  PROVE  AccountStep(c) /\ DOMAIN users' = DOMAIN users
<1> DEFINE u0 == r.target
           row == users[u0]
           new == Updated(row, r)
<1>1. stamp \in Nat /\ IsUser(row, stamp)
  BY DEF Accounts
<1>2. /\ IsUser(new, stamp + 1) /\ new.name = row.name /\ new.updated = stamp + 1
      /\ new.role = IF "role" \in DOMAIN r.set THEN r.set.role ELSE row.role
      /\ new.status = IF "status" \in DOMAIN r.set THEN r.set.status ELSE row.status
      /\ new.suspended = IF Suspends(r) THEN stamp + 1 ELSE row.suspended
  <2> HIDE DEF row
  <2> QED BY <1>1, UpdatedRow
<1> HIDE DEF new
<1>3. /\ DOMAIN users' = DOMAIN users /\ users'[u0] = new /\ u0 \in DOMAIN users
      /\ \A u \in DOMAIN users \ {u0} : users'[u] = users[u]
  BY DEF new
<1>4. Accounts'
  <2>1. \A u \in DOMAIN users' : IsUser(users'[u], stamp')
    BY <1>1, <1>2, <1>3 DEF Accounts, IsUser
  <2>2. \A u \in DOMAIN users' : users'[u].name = users[u].name
    BY <1>2, <1>3
  <2>3. \A u, v \in DOMAIN users' : users'[u].name = users'[v].name => u = v
    BY <1>3, <2>2 DEF Accounts
  <2> QED BY <1>1, <1>3, <2>1, <2>3 DEF Accounts
<1>5. ASSUME ActiveAdmins # {} PROVE ActiveAdmins' # {}
  <2>1. ActiveAdmins \ {u0} \subseteq ActiveAdmins'
    BY <1>3 DEF ActiveAdmins
  <2>2. CASE Suspends(r) \/ Demotes(r)
    <3>1. ~ RemovesLastAdmin(u0)
      BY <2>2 DEF UpdateRefused
    <3> QED BY <1>5, <2>1, <3>1, AnotherAdmin
  <2>3. CASE ~ (Suspends(r) \/ Demotes(r)) /\ u0 \in ActiveAdmins
    <3>1. row.role = "admin" /\ row.status = "active"
      BY <2>3 DEF ActiveAdmins
    <3>2. new.role = "admin"
      BY <1>2, <1>3, <2>3, <3>1 DEF Demotes
    <3>3. new.status = "active"
      BY <1>2, <2>3, <3>1 DEF Suspends, IsUser, Statuses
    <3> QED BY <1>3, <3>2, <3>3 DEF ActiveAdmins
  <2>4. CASE u0 \notin ActiveAdmins
    BY <1>5, <2>1, <2>4
  <2> QED BY <2>2, <2>3, <2>4
<1>6. \A u \in DOMAIN users' : \/ u \in DOMAIN users /\ users'[u] = users[u]
                               \/ users'[u].updated > stamp
  BY <1>1, <1>2, <1>3
<1>7. \A u \in DOMAIN users : \/ users'[u].suspended = users[u].suspended
                              \/ pc'[c] = "sweep" /\ Request(c).target = u
  BY <1>2, <1>3
<1> QED BY <1>1, <1>3, <1>4, <1>5, <1>6, <1>7 DEF AccountStep

LEMMA AccountDeleted ==
  ASSUME Accounts, NEW c, NEW r, ActiveAdmins # {}, ~ DeleteRefused(r, held[c].id),
         users' = Restrict(users, DOMAIN users \ {r.target}), UNCHANGED stamp
  PROVE  AccountStep(c)
<1>1. /\ DOMAIN users' = DOMAIN users \ {r.target}
      /\ \A u \in DOMAIN users' : u \in DOMAIN users /\ users'[u] = users[u]
  BY DEF Restrict
<1>2. IsFiniteSet(DOMAIN users')
  BY <1>1, FS_RemoveElement DEF Accounts
<1>3. Accounts'
  <2>1. \A u \in DOMAIN users' : IsUser(users'[u], stamp')
    BY <1>1 DEF Accounts
  <2>2. \A u, v \in DOMAIN users' : users'[u].name = users'[v].name => u = v
    BY <1>1 DEF Accounts
  <2> QED BY <1>1, <1>2, <2>1, <2>2 DEF Accounts
<1>4. ActiveAdmins \ {r.target} # {}
  BY AnotherAdmin DEF DeleteRefused
<1>5. ActiveAdmins \ {r.target} \subseteq ActiveAdmins'
  BY <1>1 DEF ActiveAdmins
<1>6. DOMAIN users' # {}
  BY <1>4, <1>5 DEF ActiveAdmins
<1>7. stamp' >= stamp
  BY DEF Accounts
<1> QED BY <1>1, <1>3, <1>4, <1>5, <1>6, <1>7 DEF AccountStep

LEMMA AccountsMove ==
  ASSUME IInv, NEW c \in Clients, Serve(c)
  PROVE  /\ AccountStep(c)
         /\ DOMAIN users \subseteq DOMAIN users' \/ DeleteUser(c)
<1> USE DEF IInv, tables, server
<1>1. More(c) /\ WellFormed(Request(c))
  BY AtWork, RequestPlanned
<1>2. stamp \in Nat /\ IsFiniteSet(DOMAIN users) /\ DOMAIN users \subseteq Nat \ {0}
  BY DEF Accounts
<1>3. ASSUME UNCHANGED <<users, stamp>>
      PROVE  AccountStep(c) /\ DOMAIN users \subseteq DOMAIN users'
  BY <1>3, AccountsUntouched
<1>4. CASE SetupInsert(c)
  <2>1. CASE users = <<>>
    <3> DEFINE r == Request(c)
    <3>1. /\ users' = Put(users, 1, Account(r.name, r.pw, "admin", stamp + 1))
          /\ stamp' = stamp + 1 /\ DOMAIN users = {}
      BY <1>4, <2>1 DEF SetupInsert
    <3>2. Named(r.name) = {}
      BY <3>1 DEF Named
    <3> QED BY <3>1, <3>2, AccountAdded DEF Roles
  <2>2. CASE users # <<>>
    BY <1>3, <1>4, <2>2 DEF SetupInsert
  <2> QED BY <2>1, <2>2
<1>5. CASE CreateUser(c)
  <2> DEFINE r == Request(c)
  <2>1. CASE Named(r.name) = {}
    <3>1. r.role \in Roles
      BY <1>1, <1>5 DEF CreateUser, Doing, WellFormed
    <3>2. /\ users' = Put(users, NextId(users), Account(r.name, r.pw, r.role, stamp + 1))
          /\ stamp' = stamp + 1
      BY <1>5, <2>1 DEF CreateUser
    <3>3. NextId(users) \in Nat \ {0} /\ NextId(users) \notin DOMAIN users
      BY <1>2, NextIdIsNew
    <3> QED BY <2>1, <3>1, <3>2, <3>3, AccountAdded
  <2>2. CASE Named(r.name) # {}
    BY <1>3, <1>5, <2>2 DEF CreateUser
  <2> QED BY <2>1, <2>2
<1>6. CASE UpdateUser(c)
  <2> DEFINE r == Request(c)
  <2>1. CASE ~ UpdateRefused(r, held[c].id) /\ r.target \in DOMAIN users
    <3>1. /\ r.op = "update_user" /\ stamp' = stamp + 1
          /\ users' = [users EXCEPT ![r.target] = Updated(@, r)]
          /\ Suspends(r) => Goto(c, "sweep")
      BY <1>6, <2>1 DEF UpdateUser
    <3>2. Suspends(r) => pc'[c] = "sweep"
      BY <3>1 DEF Goto, Positioned
    <3> QED BY <1>1, <2>1, <3>1, <3>2, AccountUpdated
  <2>2. CASE ~ (~ UpdateRefused(r, held[c].id) /\ r.target \in DOMAIN users)
    BY <1>3, <1>6, <2>2 DEF UpdateUser
  <2> QED BY <2>1, <2>2
<1>7. CASE DeleteUser(c)
  <2> DEFINE r == Request(c)
  <2>1. CASE ~ DeleteRefused(r, held[c].id)
    <3>1. users' = Restrict(users, DOMAIN users \ {r.target}) /\ stamp' = stamp
      BY <1>7, <2>1 DEF DeleteUser
    <3>2. ActiveAdmins # {}
      BY <1>7 DEF DeleteUser, At, Administered, AdminOps
    <3> QED BY <1>7, <2>1, <3>1, <3>2, AccountDeleted
  <2>2. CASE DeleteRefused(r, held[c].id)
    BY <1>3, <1>7, <2>2 DEF DeleteUser
  <2> QED BY <2>1, <2>2
<1>8. CASE ~ (SetupInsert(c) \/ CreateUser(c) \/ UpdateUser(c) \/ DeleteUser(c))
  BY <1>3, <1>8 DEF Serve, SetupCheck, SetupVerify, SetupClear, LoginGate, LoginVerify,
     RecordFailure, RecordSuccess, BeginSession, Admit, Logout, FindUser, SweepSessions,
     CreateKey, FindKey, UpdateKey, RevokeKey
<1> QED BY <1>4, <1>5, <1>6, <1>7, <1>8

-----------------------------------------------------------------------------
(* Sessions                                                                *)

\* The session a login opens, for the account it read.
OpensSession(c, row) ==
  /\ pc[c] = "login_open" /\ row.user = held[c].id /\ held[c].id \in DOMAIN users
  /\ row.seen = held[c].updated /\ row.created = stamp /\ UNCHANGED <<users, stamp>>

\* A session is as it was, or has just been opened; a sweep takes those of its
\* account.
SessionStep(c) == \A t \in DOMAIN sessions' :
  \/ OpensSession(c, sessions'[t])
  \/ /\ t \in DOMAIN sessions /\ sessions'[t] = sessions[t] /\ sessions[t].user \in DOMAIN users'
     /\ pc[c] = "sweep" => sessions[t].user # Request(c).target

LEMMA SessionsMove ==
  ASSUME IInv, NEW c \in Clients, Serve(c)
  PROVE  SessionStep(c)
<1> USE DEF IInv, tables, server
<1>1. \A t \in DOMAIN sessions : sessions[t].user \in DOMAIN users
  BY DEF SessionsKept
<1>2. DOMAIN users \subseteq DOMAIN users' \/ DeleteUser(c)
  BY AccountsMove
<1>3. ASSUME sessions' = sessions, pc[c] # "sweep", DOMAIN users \subseteq DOMAIN users'
      PROVE  SessionStep(c)
  BY <1>1, <1>3 DEF SessionStep
<1>4. CASE BeginSession(c)
  <2>1. CASE held[c].id \in DOMAIN users
    <3> DEFINE token == <<c, Len(answers[c]) + 1>>
    <3>1. PICK when : sessions' =
            LET all == Put(sessions, token, [user |-> held[c].id, seen |-> held[c].updated,
                                             created |-> stamp, expires |-> when])
            IN  Restrict(all, Live(all))
      BY <1>4, <2>1 DEF BeginSession
    <3> DEFINE new == [user |-> held[c].id, seen |-> held[c].updated,
                       created |-> stamp, expires |-> when]
               all == Put(sessions, token, new)
    <3>2. new.user = held[c].id /\ new.seen = held[c].updated /\ new.created = stamp
      OBVIOUS
    <3>3. sessions' = Restrict(all, Live(all))
      BY <3>1
    <3> HIDE DEF new, token
    <3>4. \A t \in DOMAIN sessions' : \/ sessions'[t] = new
                                      \/ t \in DOMAIN sessions /\ sessions'[t] = sessions[t]
      BY <3>3 DEF Put, Restrict, Live
    <3>5. pc[c] = "login_open" /\ UNCHANGED <<users, stamp>>
      BY <1>4 DEF BeginSession, At
    <3> QED BY <1>1, <2>1, <3>2, <3>4, <3>5 DEF SessionStep, OpensSession
  <2>2. CASE held[c].id \notin DOMAIN users
    BY <1>3, <1>4, <2>2 DEF BeginSession, At
  <2> QED BY <2>1, <2>2
<1>5. CASE Admit(c)
  BY <1>1, <1>5 DEF Admit, Waiting, DropExpired, Restrict, SessionStep
<1>6. CASE Logout(c)
  BY <1>1, <1>6 DEF Logout, Doing, Restrict, SessionStep
<1>7. CASE SweepSessions(c)
  BY <1>1, <1>7 DEF SweepSessions, Restrict, SessionStep
<1>8. CASE DeleteUser(c)
  <2>1. CASE DeleteRefused(Request(c), held[c].id)
    BY <1>3, <1>8, <2>1 DEF DeleteUser, At
  <2>2. CASE ~ DeleteRefused(Request(c), held[c].id)
    BY <1>1, <1>8, <2>2 DEF DeleteUser, At, Restrict, SessionStep
  <2> QED BY <2>1, <2>2
<1>9. CASE ~ (BeginSession(c) \/ Admit(c) \/ Logout(c) \/ SweepSessions(c) \/ DeleteUser(c))
  <2>1. sessions' = sessions /\ pc[c] # "sweep"
    BY <1>9 DEF Serve, SetupCheck, SetupVerify, SetupInsert, SetupClear, LoginGate, LoginVerify,
       RecordFailure, RecordSuccess, CreateUser, FindUser, UpdateUser,
       CreateKey, FindKey, UpdateKey, RevokeKey, Waiting, At, Doing
  <2> QED BY <1>2, <1>3, <1>9, <2>1
<1> QED BY <1>4, <1>5, <1>6, <1>7, <1>8, <1>9

LEMMA SweepersStay ==
  ASSUME Positioned, NEW c \in Clients, Alone(c), Ends(c) \/ Goes(c),
         UNCHANGED <<traffic, unswept>>, NEW u \in ToSweep
  PROVE  u \in ToSweep' \/ (pc[c] = "sweep" /\ Request(c).target = u)
<1>1. ASSUME NEW d \in Clients, d # c, pc[d] = "sweep", Request(d).target = u
      PROVE  u \in ToSweep'
  <2>1. Request(d)' = Request(d) /\ pc'[d] = pc[d]
    BY <1>1, RequestStays
  <2> QED BY <1>1, <2>1 DEF ToSweep
<1> QED BY <1>1 DEF ToSweep

LEMMA SessionsStayKept ==
  ASSUME IInv, NEW c \in Clients, Alone(c), Ends(c) \/ Goes(c), UNCHANGED <<traffic, unswept>>,
         AccountStep(c), SessionStep(c)
  PROVE  SessionsKept'
<1> USE DEF IInv
<1> SUFFICES ASSUME NEW t \in DOMAIN sessions'
             PROVE  LET row == sessions'[t]
                        user == users'[row.user] IN
                    /\ row.user \in DOMAIN users'
                    /\ row.seen \in Int /\ row.seen <= stamp' /\ row.created \in Int
                    /\ user.status = "suspended" => row.seen < user.updated
                    /\ row.created >= user.suspended \/ row.user \in ToSweep'
  BY DEF SessionsKept
<1> DEFINE row == sessions'[t]
           user == users'[row.user]
<1>1. CASE OpensSession(c, row)
  <2>1. /\ row.user \in DOMAIN users /\ users' = users /\ stamp' = stamp /\ stamp \in Nat
        /\ row.created = stamp /\ row.seen = held[c].updated /\ row.user = held[c].id
    BY <1>1 DEF OpensSession, Accounts
  <2>2. user.suspended \in Int /\ user.suspended <= stamp /\ user.updated \in Int
    BY <2>1 DEF Accounts, IsUser
  <2>3. KeepsDate(c) /\ held[c].status = "active"
    BY <1>1 DEF OpensSession, LoginsKept, KeepsDate
  <2>4. user.status = "suspended" => row.seen < user.updated
    BY <2>1, <2>3 DEF KeepsDate
  <2> QED BY <2>1, <2>2, <2>3, <2>4 DEF KeepsDate
<1>2. CASE /\ t \in DOMAIN sessions /\ row = sessions[t] /\ row.user \in DOMAIN users'
           /\ pc[c] = "sweep" => row.user # Request(c).target
  <2>1. /\ row.user \in DOMAIN users /\ row.seen \in Int /\ row.seen <= stamp /\ row.created \in Int
        /\ users[row.user].status = "suspended" => row.seen < users[row.user].updated
        /\ row.created >= users[row.user].suspended \/ row.user \in ToSweep
    BY <1>2 DEF SessionsKept
  <2> HIDE DEF row
  <2>2. stamp \in Nat /\ stamp' \in Nat /\ stamp' >= stamp /\ user.updated \in Int
    BY <1>2 DEF AccountStep, Accounts, IsUser
  <2>3. user.status = "suspended" => row.seen < user.updated
    <3>1. user = users[row.user] \/ user.updated > stamp
      BY <1>2 DEF AccountStep
    <3> QED BY <2>1, <2>2, <3>1
  <2>4. row.created >= user.suspended \/ row.user \in ToSweep'
    <3>1. CASE user.suspended = users[row.user].suspended
      BY <1>2, <2>1, <3>1, SweepersStay
    <3>2. CASE pc'[c] = "sweep" /\ Request(c).target = row.user
      <4>1. Request(c)' = Request(c)
        BY <3>2, RequestStays
      <4> QED BY <3>2, <4>1 DEF ToSweep
    <3> QED BY <1>2, <2>1, <3>1, <3>2 DEF AccountStep
  <2> QED BY <1>2, <2>1, <2>2, <2>3, <2>4 DEF row
<1> QED BY <1>1, <1>2 DEF SessionStep

LEMMA LoginsStayKept ==
  ASSUME IInv, NEW c \in Clients, Serve(c), Alone(c), AccountStep(c)
  PROVE  LoginsKept'
<1> USE DEF IInv, tables, server
<1> SUFFICES ASSUME NEW d \in Clients, pc'[d] \in {"login_verified", "login_open"}
             PROVE  KeepsDate(d)'
  BY DEF LoginsKept
<1>1. stamp \in Nat /\ stamp' \in Nat /\ stamp' >= stamp
  BY DEF Accounts, AccountStep
<1>2. ASSUME KeepsDate(d), held'[d] = held[d], pc'[d] = "login_open" => held[d].status = "active"
      PROVE  KeepsDate(d)'
  <2> DEFINE id == held[d].id
  <2>1. held[d].updated \in Int /\ held[d].updated <= stamp
    BY <1>2 DEF KeepsDate
  <2>2. ASSUME id \in DOMAIN users'
        PROVE  /\ held[d].updated <= users'[id].updated
               /\ held[d].status = "active" /\ users'[id].status = "suspended"
                    => held[d].updated < users'[id].updated
    <3>1. users'[id].updated \in Int
      BY <2>2 DEF AccountStep, Accounts, IsUser
    <3>2. CASE id \in DOMAIN users /\ users'[id] = users[id]
      BY <1>2, <3>2 DEF KeepsDate
    <3>3. CASE users'[id].updated > stamp
      BY <1>1, <2>1, <3>1, <3>3
    <3> QED BY <2>2, <3>2, <3>3 DEF AccountStep
  <2> QED BY <1>1, <1>2, <2>1, <2>2 DEF KeepsDate
<1>3. CASE d # c
  BY <1>2, <1>3 DEF Alone, LoginsKept, KeepsDate
<1>4. CASE d = c
  <2>1. CASE LoginVerify(c)
    <3>1. PICK u \in DOMAIN users :
            held' = [held EXCEPT ![c] = [id |-> u, status |-> users[u].status,
                                         updated |-> users[u].updated]]
      <4>1. {u \in Named(Request(c).name) : users[u].pw = Request(c).pw} # {}
        BY <1>4, <2>1 DEF LoginVerify, Goto, Positioned
      <4> QED BY <2>1, <4>1 DEF LoginVerify, Keeping, Named
    <3>2. pc'[c] = "login_verified" /\ UNCHANGED <<users, stamp>>
      BY <1>4, <2>1 DEF LoginVerify, Goto, Positioned
    <3>3. held'[c].id = u /\ held'[c].status = users[u].status /\ held'[c].updated = users[u].updated
      BY <3>1 DEF Positioned
    <3>4. users[u].updated \in Int /\ users[u].updated <= stamp
      BY DEF Accounts, IsUser
    <3> QED BY <1>4, <3>2, <3>3, <3>4 DEF KeepsDate
  <2>2. CASE RecordSuccess(c)
    <3>1. pc[c] = "login_verified" /\ held'[c] = held[c] /\ held[c].status = "active"
      BY <1>4, <2>2 DEF RecordSuccess, At, Answer, AnswerAt, Positioned
    <3> QED BY <1>2, <1>4, <3>1 DEF LoginsKept
  <2>3. CASE ~ (LoginVerify(c) \/ RecordSuccess(c))
    BY <1>4, <2>3 DEF Serve, SetupCheck, SetupVerify, SetupInsert, SetupClear, LoginGate,
       RecordFailure, BeginSession, Admit, Logout, CreateUser, FindUser, UpdateUser,
       SweepSessions, DeleteUser, CreateKey, FindKey, UpdateKey, RevokeKey,
       Goto, Answer, AnswerAt, Positioned
  <2> QED BY <2>1, <2>2, <2>3
<1> QED BY <1>3, <1>4

\* Whoever starts to change accounts is an admin of that moment.
LEMMA AdminsStay ==
  ASSUME IInv, NEW c \in Clients, Serve(c), Alone(c), Ends(c) \/ Goes(c), traffic' = traffic,
         AccountStep(c)
  PROVE  Administered'
<1> USE DEF IInv
<1> SUFFICES ASSUME NEW d \in Clients, pc'[d] # "idle", Request(d)'.op \in AdminOps
             PROVE  ActiveAdmins' # {}
  BY DEF Administered
<1>1. Request(d)' = Request(d) /\ (d # c => pc'[d] = pc[d])
  BY RequestStays
<1>2. CASE pc[d] # "idle"
  BY <1>1, <1>2 DEF Administered, AccountStep
<1>3. CASE pc[d] = "idle"
  <2>1. d = c /\ Request(c).op \in AdminOps
    BY <1>1, <1>3
  <2>2. CASE Admit(c)
    <3>1. PICK caller \in ResolveCaller(c) : Permitted(caller, Request(c).op)
      BY <1>3, <2>1, <2>2 DEF Admit, Waiting, Answer, AnswerAt, Positioned
    <3>2. \E u \in DOMAIN users : users[u].status = "active" /\ caller.role = users[u].role
      BY <3>1 DEF ResolveCaller, SessionOwner, LiveKey
    <3>3. PICK u \in DOMAIN users : users[u].status = "active" /\ caller.role = users[u].role
      BY <3>2
    <3>4. Rank(caller.role) >= Rank("admin")
      <4>1. Demands(Request(c).op).role = "admin"
        BY <2>1 DEF Demands, AdminOps, KeyOps
      <4> QED BY <2>1, <3>1, <4>1 DEF Permitted, AdminOps
    <3>5. users[u].role = "admin"
      BY <3>3, <3>4 DEF Rank, Accounts, IsUser, Roles
    <3> QED BY <3>3, <3>5 DEF ActiveAdmins, AccountStep
  <2>3. CASE ~ Admit(c)
    BY <1>3, <2>1, <2>3 DEF Serve, SetupCheck, SetupVerify, SetupInsert, SetupClear, LoginGate,
       LoginVerify, RecordFailure, RecordSuccess, BeginSession, Logout, CreateUser, FindUser,
       UpdateUser, SweepSessions, DeleteUser, CreateKey, FindKey, UpdateKey, RevokeKey,
       Waiting, At, Doing, AdminOps
  <2> QED BY <2>2, <2>3
<1> QED BY <1>2, <1>3

-----------------------------------------------------------------------------
(* API keys                                                                *)

\* A key is as it was or edited, still its owner's and still revoked if it was;
\* or it is new and carries the secret of its request.
KeyStep(c) ==
  /\ IsFiniteSet(DOMAIN keys') /\ DOMAIN keys' \subseteq Nat \ {0}
  /\ \A k \in DOMAIN keys' :
       /\ DOMAIN keys'[k] = KeyFields /\ keys'[k].revoked \in BOOLEAN
       /\ keys'[k].owner \in DOMAIN users'
       /\ k \in DOMAIN keys => /\ keys'[k].secret = keys[k].secret
                               /\ keys[k].revoked => keys'[k].revoked
       /\ k \notin DOMAIN keys => /\ keys'[k].secret = Request(c).secret
                                  /\ Request(c).op = "create_key" /\ pc'[c] = "idle"
                                  /\ DOMAIN keys' = DOMAIN keys \cup {k}

LEMMA KeysUntouched ==
  ASSUME KeysKept, NEW c, keys' = keys, DOMAIN users \subseteq DOMAIN users'
  PROVE  KeyStep(c)
BY DEF KeysKept, KeyStep

\* One row changed: its secret and its owner are not among what changes.
LEMMA KeyChanged ==
  ASSUME KeysKept, NEW c, NEW k0 \in DOMAIN keys, NEW row,
         keys' = [keys EXCEPT ![k0] = row], DOMAIN users \subseteq DOMAIN users',
         DOMAIN row = KeyFields, row.secret = keys[k0].secret, row.owner = keys[k0].owner,
         row.revoked \in BOOLEAN, keys[k0].revoked => row.revoked
  PROVE  KeyStep(c)
BY DEF KeysKept, KeyStep

LEMMA KeysMove ==
  ASSUME IInv, NEW c \in Clients, Serve(c)
  PROVE  KeyStep(c)
<1> USE DEF IInv, tables, server
<1> DEFINE r == Request(c)
<1>1. More(c) /\ WellFormed(Request(c))
  BY AtWork, RequestPlanned
<1>2. DOMAIN users \subseteq DOMAIN users' \/ DeleteUser(c)
  BY AccountsMove
<1>3. CASE DeleteUser(c)
  <2>1. CASE DeleteRefused(r, held[c].id)
    BY <1>3, <2>1, KeysUntouched DEF DeleteUser
  <2>2. CASE ~ DeleteRefused(r, held[c].id)
    <3>1. /\ DOMAIN keys' \subseteq DOMAIN keys
          /\ \A k \in DOMAIN keys' : keys'[k] = keys[k] /\ keys[k].owner # r.target
          /\ DOMAIN users' = DOMAIN users \ {r.target}
      BY <1>3, <2>2 DEF DeleteUser, Restrict
    <3>2. IsFiniteSet(DOMAIN keys')
      BY <3>1, FS_Subset DEF KeysKept
    <3> QED BY <3>1, <3>2 DEF KeysKept, KeyStep
  <2> QED BY <2>1, <2>2
<1>4. CASE CreateKey(c)
  <2>1. CASE held[c].id \in DOMAIN users
    <3> DEFINE id == NextId(keys)
               row == KeyRow(r, held[c].id)
    <3>1. keys' = Put(keys, id, row) /\ users' = users
      BY <1>4, <2>1 DEF CreateKey
    <3>2. id \in Nat \ {0} /\ id \notin DOMAIN keys
      BY NextIdIsNew DEF KeysKept
    <3>3. /\ DOMAIN row = KeyFields /\ row.revoked \in BOOLEAN
          /\ row.owner \in DOMAIN users /\ row.secret = r.secret
      BY <2>1 DEF KeyRow, KeyFields
    <3> HIDE DEF id, row
    <3>4. /\ DOMAIN keys' = DOMAIN keys \cup {id} /\ keys'[id] = row
          /\ \A k \in DOMAIN keys : keys'[k] = keys[k]
      BY <3>1, <3>2 DEF Put
    <3>5. IsFiniteSet(DOMAIN keys')
      BY <3>4, FS_AddElement DEF KeysKept
    <3>6. r.op = "create_key" /\ pc'[c] = "idle"
      BY <1>4, <2>1 DEF CreateKey, Doing, Answer, AnswerAt, Positioned
    <3> QED BY <3>1, <3>2, <3>3, <3>4, <3>5, <3>6 DEF KeysKept, KeyStep
  <2>2. CASE held[c].id \notin DOMAIN users
    BY <1>4, <2>2, KeysUntouched DEF CreateKey
  <2> QED BY <2>1, <2>2
<1>5. CASE UpdateKey(c)
  <2>1. CASE r.target \in DOMAIN keys
    <3> DEFINE row == Edited(keys[r.target], r)
    <3>1. keys' = [keys EXCEPT ![r.target] = row] /\ users' = users
      BY <1>5, <2>1 DEF UpdateKey
    <3>2. DOMAIN r.set \subseteq {"scopes", "expires"}
      BY <1>1, <1>5 DEF UpdateKey, WellFormed
    <3>3. /\ DOMAIN row = KeyFields /\ row.secret = keys[r.target].secret
          /\ row.owner = keys[r.target].owner /\ row.revoked = keys[r.target].revoked
      BY <2>1, <3>2 DEF Edited, Over, KeysKept, KeyFields
    <3> HIDE DEF row
    <3>4. row.revoked \in BOOLEAN
      BY <2>1, <3>3 DEF KeysKept
    <3> QED BY <2>1, <3>1, <3>3, <3>4, KeyChanged
  <2>2. CASE r.target \notin DOMAIN keys
    BY <1>5, <2>2, KeysUntouched DEF UpdateKey
  <2> QED BY <2>1, <2>2
<1>6. CASE RevokeKey(c)
  <2>1. CASE r.target \in DOMAIN keys
    <3> DEFINE row == [keys[r.target] EXCEPT !.revoked = TRUE]
    <3>1. keys' = [keys EXCEPT ![r.target] = row] /\ users' = users
      BY <1>6, <2>1 DEF RevokeKey
    <3>2. /\ DOMAIN row = KeyFields /\ row.secret = keys[r.target].secret
          /\ row.owner = keys[r.target].owner /\ row.revoked = TRUE
      BY <2>1 DEF KeysKept, KeyFields
    <3> HIDE DEF row
    <3> QED BY <2>1, <3>1, <3>2, KeyChanged
  <2>2. CASE r.target \notin DOMAIN keys
    BY <1>6, <2>2, KeysUntouched DEF RevokeKey
  <2> QED BY <2>1, <2>2
<1>7. CASE ~ (DeleteUser(c) \/ CreateKey(c) \/ UpdateKey(c) \/ RevokeKey(c))
  <2>1. keys' = keys
    BY <1>7 DEF Serve, SetupCheck, SetupVerify, SetupInsert, SetupClear, LoginGate, LoginVerify,
       RecordFailure, RecordSuccess, BeginSession, Admit, Logout, CreateUser, FindUser,
       UpdateUser, SweepSessions, FindKey
  <2> QED BY <1>2, <1>7, <2>1, KeysUntouched
<1> QED BY <1>3, <1>4, <1>5, <1>6, <1>7

LEMMA KeysStayKept ==
  ASSUME IInv, NEW c \in Clients, Alone(c), Ends(c) \/ Goes(c), traffic' = traffic, More(c),
         KeyStep(c)
  PROVE  KeysKept'
<1> USE DEF IInv
<1>1. /\ \A k \in DOMAIN keys : keys[k].secret # Request(c).secret \/ Request(c).op # "create_key"
  <2>1. Len(answers[c]) \in Nat /\ Len(answers[c]) + 1 \in DOMAIN script[c]
    BY RequestPlanned
  <2> QED BY <2>1 DEF KeysKept, Request
<1>2. \A k, l \in DOMAIN keys' : keys'[k].secret = keys'[l].secret => k = l
  <2> SUFFICES ASSUME NEW k \in DOMAIN keys', NEW l \in DOMAIN keys',
                      keys'[k].secret = keys'[l].secret
               PROVE  k = l
    OBVIOUS
  <2>1. \A m \in DOMAIN keys' : m \in DOMAIN keys => keys'[m].secret = keys[m].secret
    BY DEF KeyStep
  <2>2. \A m \in DOMAIN keys' : m \notin DOMAIN keys =>
          /\ keys'[m].secret = Request(c).secret /\ Request(c).op = "create_key"
          /\ DOMAIN keys' = DOMAIN keys \cup {m}
    BY DEF KeyStep
  <2>3. CASE k \in DOMAIN keys /\ l \in DOMAIN keys
    BY <2>1, <2>3 DEF KeysKept
  <2>4. CASE k \notin DOMAIN keys \/ l \notin DOMAIN keys
    BY <1>1, <2>1, <2>2, <2>4
  <2> QED BY <2>3, <2>4
<1>3. ASSUME NEW d \in Clients, NEW i \in DOMAIN script'[d], NEW k \in DOMAIN keys',
             i > Len(answers'[d]), script'[d][i].op = "create_key"
      PROVE  keys'[k].secret # script'[d][i].secret
  <2>1. script' = script
    BY DEF script
  <2>2. /\ Len(answers[d]) \in Nat /\ i \in Nat /\ Len(answers[c]) \in Nat
        /\ Len(answers[c]) + 1 \in DOMAIN script[c]
    BY <2>1, RequestPlanned, LenProperties DEF Positioned, Codes, Planned
  <2>3. Len(answers'[d]) = Len(answers[d]) \/ (d = c /\ Len(answers'[d]) = Len(answers[d]) + 1)
    <3>1. CASE d # c \/ Goes(c)
      BY <3>1 DEF Alone, Goes
    <3>2. CASE d = c /\ Ends(c)
      <4>1. PICK a \in Nat \X Nat : answers'[c] = Append(answers[c], a)
        BY <3>2 DEF Ends
      <4> QED BY <3>2, <4>1, AppendProperties DEF Positioned, Codes
    <3> QED BY <3>1, <3>2
  <2>4. i > Len(answers[d])
    BY <1>3, <2>2, <2>3
  <2>5. CASE k \in DOMAIN keys
    <3>1. keys'[k].secret = keys[k].secret
      BY <2>5 DEF KeyStep
    <3>2. keys[k].secret # script[d][i].secret
      BY <1>3, <2>1, <2>4, <2>5 DEF KeysKept
    <3> QED BY <2>1, <3>1, <3>2
  <2>6. CASE k \notin DOMAIN keys
    <3>1. /\ keys'[k].secret = Request(c).secret /\ Request(c).op = "create_key" /\ Ends(c)
      BY <2>6 DEF KeyStep, Goes
    <3>2. d # c \/ i # Len(answers[c]) + 1
      <4>1. ASSUME d = c PROVE Len(answers'[c]) = Len(answers[c]) + 1
        <5>1. PICK a \in Nat \X Nat : answers'[c] = Append(answers[c], a)
          BY <3>1 DEF Ends
        <5> QED BY <5>1, AppendProperties DEF Positioned, Codes
      <4> QED BY <1>3, <2>2, <4>1
    <3> QED BY <1>3, <2>1, <2>2, <3>1, <3>2 DEF Planned, Request
  <2> QED BY <2>5, <2>6
<1>4. \A k \in DOMAIN keys' : /\ DOMAIN keys'[k] = KeyFields
                              /\ keys'[k].owner \in DOMAIN users' /\ keys'[k].revoked \in BOOLEAN
  BY DEF KeyStep
<1> QED BY <1>2, <1>3, <1>4 DEF KeysKept, KeyStep

-----------------------------------------------------------------------------
(* The first account                                                       *)

\* The index of the last answer or of the request at work, and what was won.
LEMMA WinnersStay ==
  ASSUME IInv, NEW c \in Clients, Alone(c), Ends(c) \/ Goes(c), traffic' = traffic,
         NEW d \in Clients, NEW i \in Nat, Winner(d, i)'
  PROVE  \/ Winner(d, i)
         \/ d = c /\ i = Len(answers[c]) + 1 /\ pc'[c] = "setup_clear"
<1> USE DEF IInv
<1>1. script' = script
  BY DEF script
<1>2. CASE d # c \/ Goes(c)
  BY <1>1, <1>2 DEF Winner, Alone, Goes, Answered
<1>3. CASE d = c /\ Ends(c)
  <2>1. PICK code \in Nat, time \in Nat :
          /\ answers'[c] = Append(answers[c], <<code, time>>)
          /\ code = 201 => pc[c] = "setup_clear" \/ Request(c).op # "setup"
    BY <1>3 DEF Ends
  <2>2. answers[c] \in Codes /\ Len(answers[c]) \in Nat /\ DOMAIN answers[c] = 1..Len(answers[c])
    BY LenProperties DEF Positioned, Codes
  <2>3. /\ Len(answers'[c]) = Len(answers[c]) + 1 /\ DOMAIN answers'[c] = 1..(Len(answers[c]) + 1)
        /\ \A j \in 1..Len(answers[c]) : answers'[c][j] = answers[c][j]
        /\ answers'[c][Len(answers[c]) + 1] = <<code, time>>
    <3> DEFINE n == Len(answers[c])
               a == <<code, time>>
    <3>1. a \in Nat \X Nat
      OBVIOUS
    <3> HIDE DEF a
    <3> QED BY <2>1, <2>2, <3>1, AppendProperties, LenProperties DEF Codes, a
  <2>4. pc'[c] = "idle"
    BY <1>3 DEF Ends
  <2>5. i \in DOMAIN answers'[c] /\ script[c][i].op = "setup" /\ answers'[c][i][1] = 201
    BY <1>1, <1>3, <2>4 DEF Winner, Answered
  <2>6. CASE i \in DOMAIN answers[c]
    BY <1>3, <2>2, <2>3, <2>5, <2>6 DEF Winner, Answered
  <2>7. CASE i = Len(answers[c]) + 1
    BY <1>3, <2>1, <2>3, <2>5, <2>7 DEF Winner, Request
  <2> QED BY <2>2, <2>3, <2>5, <2>6, <2>7
<1> QED BY <1>2, <1>3

\* Only a setup that found no account goes on to clear the token.
LEMMA ClearAfterInsert ==
  ASSUME Positioned, Administered, NEW c \in Clients, Serve(c)
  PROVE  /\ pc'[c] = "setup_clear" => DOMAIN users = {} /\ DOMAIN users' # {}
         /\ DOMAIN users = {} /\ DOMAIN users' # {} => pc'[c] = "setup_clear"
         /\ pc[c] = "setup_clear" => setupToken' = FALSE
         /\ setupToken' => setupToken
<1> USE DEF tables, server, throttle
<1>1. CASE SetupInsert(c)
  <2>1. CASE users = <<>>
    <3>1. DOMAIN users = {} /\ 1 \in DOMAIN users'
      BY <1>1, <2>1 DEF SetupInsert, Put
    <3> QED BY <1>1, <2>1, <3>1 DEF SetupInsert, At, Goto, Positioned
  <2>2. CASE users # <<>>
    BY <1>1, <2>2 DEF SetupInsert, At, Answer, AnswerAt, Positioned
  <2> QED BY <2>1, <2>2
<1>2. CASE SetupClear(c)
  BY <1>2 DEF SetupClear, At, Answer, AnswerAt, Positioned
<1>3. CASE ~ (SetupInsert(c) \/ SetupClear(c))
  <2>1. pc[c] # "setup_clear" /\ setupToken' = setupToken
    BY <1>3 DEF Serve, SetupCheck, SetupVerify, LoginGate, LoginVerify, RecordFailure,
       RecordSuccess, BeginSession, Admit, Logout, CreateUser, FindUser, UpdateUser,
       SweepSessions, DeleteUser, CreateKey, FindKey, UpdateKey, RevokeKey, Waiting, At, Doing
  <2>2. pc'[c] # "setup_clear"
    BY <1>3 DEF Serve, SetupCheck, SetupVerify, LoginGate, LoginVerify, RecordFailure,
       RecordSuccess, BeginSession, Admit, Logout, CreateUser, FindUser, UpdateUser,
       SweepSessions, DeleteUser, CreateKey, FindKey, UpdateKey, RevokeKey,
       Goto, Answer, AnswerAt, Positioned
  <2>3. DOMAIN users = {} => DOMAIN users' = {}
    <3>1. CASE CreateUser(c)
      BY <3>1 DEF CreateUser, Doing, AdminOps, Administered, ActiveAdmins
    <3>2. CASE ~ CreateUser(c)
      BY <1>3, <3>2 DEF Serve, SetupCheck, SetupVerify, LoginGate, LoginVerify, RecordFailure,
         RecordSuccess, BeginSession, Admit, Logout, FindUser, UpdateUser, SweepSessions,
         DeleteUser, CreateKey, FindKey, UpdateKey, RevokeKey, Restrict
    <3> QED BY <3>1, <3>2
  <2> QED BY <2>1, <2>2, <2>3
<1> QED BY <1>1, <1>2, <1>3

LEMMA SetUpStays ==
  ASSUME IInv, NEW c \in Clients, Serve(c), Alone(c), Ends(c) \/ Goes(c), traffic' = traffic,
         AccountStep(c)
  PROVE  SetUp'
<1> USE DEF IInv
<1>1. /\ pc'[c] = "setup_clear" => DOMAIN users = {} /\ DOMAIN users' # {}
      /\ DOMAIN users = {} /\ DOMAIN users' # {} => pc'[c] = "setup_clear"
      /\ pc[c] = "setup_clear" => setupToken' = FALSE
      /\ setupToken' => setupToken
  BY ClearAfterInsert
<1>2. \A d, e \in Clients : \A i, j \in Nat : Winner(d, i)' /\ Winner(e, j)' => d = e /\ i = j
  BY <1>1, WinnersStay DEF SetUp
<1>3. \A d \in Clients : \A i \in Nat : Winner(d, i)' => DOMAIN users' # {}
  BY <1>1, WinnersStay DEF SetUp, AccountStep
<1>4. setupToken' /\ DOMAIN users' # {} => \E d \in Clients : pc'[d] = "setup_clear"
  BY <1>1 DEF SetUp, Alone
<1> QED BY <1>2, <1>3, <1>4 DEF SetUp

-----------------------------------------------------------------------------
(* The invariant                                                           *)

LEMMA SurroundingsStay ==
  ASSUME IInv, NEW c \in Clients, Serve(c), UNCHANGED <<traffic, clock, restarts>>
  PROVE  Surrounded'
<1> USE DEF IInv, tables, server, throttle
<1>1. setupToken \in BOOLEAN /\ IsLog(pairLog) /\ IsLog(nameLog)
  BY DEF Surrounded
<1>2. setupToken' \in BOOLEAN
  BY <1>1 DEF Serve, SetupCheck, SetupVerify, SetupInsert, SetupClear, LoginGate, LoginVerify,
     RecordFailure, RecordSuccess, BeginSession, Admit, Logout, CreateUser, FindUser, UpdateUser,
     SweepSessions, DeleteUser, CreateKey, FindKey, UpdateKey, RevokeKey
<1>3. IsLog(pairLog') /\ IsLog(nameLog')
  <2>1. CASE LoginGate(c)
    BY <1>1, <2>1, AskedIsLog DEF LoginGate
  <2>2. CASE RecordFailure(c)
    BY <1>1, <2>2, RegisterIsLog DEF RecordFailure
  <2>3. CASE RecordSuccess(c)
    BY <1>1, <2>3, ForgetIsLog DEF RecordSuccess
  <2>4. CASE ~ (LoginGate(c) \/ RecordFailure(c) \/ RecordSuccess(c))
    <3>1. UNCHANGED <<pairLog, nameLog>>
      BY <2>4 DEF Serve, SetupCheck, SetupVerify, SetupInsert, SetupClear, LoginVerify,
         BeginSession, Admit, Logout, CreateUser, FindUser, UpdateUser,
         SweepSessions, DeleteUser, CreateKey, FindKey, UpdateKey, RevokeKey
    <3> QED BY <1>1, <3>1
  <2> QED BY <2>1, <2>2, <2>3, <2>4
<1> QED BY <1>2, <1>3 DEF Surrounded

LEMMA ServeNext ==
  ASSUME IInv, NEW c \in Clients, Serve(c)
  PROVE  IInv'
<1>1. clock \in Nat
  BY DEF IInv, Surrounded, Planned
<1>2. Alone(c) /\ (Ends(c) \/ Goes(c)) /\ UNCHANGED <<traffic, clock, restarts, unswept>>
  BY <1>1, Frame DEF IInv
<1>3. More(c)
  BY AtWork DEF IInv
<1>4. AccountStep(c) /\ SessionStep(c) /\ KeyStep(c)
  BY AccountsMove, SessionsMove, KeysMove
<1>5. Planned' /\ Positioned'
  BY <1>2, <1>3, Positions DEF IInv
<1>6. Surrounded'
  BY <1>2, SurroundingsStay
<1>7. Accounts'
  BY <1>4 DEF AccountStep
<1>8. Administered' /\ LoginsKept'
  BY <1>2, <1>4, AdminsStay, LoginsStayKept
<1>9. SessionsKept' /\ KeysKept' /\ SetUp'
  BY <1>2, <1>3, <1>4, SessionsStayKept, KeysStayKept, SetUpStays
<1> QED BY <1>5, <1>6, <1>7, <1>8, <1>9 DEF IInv

LEMMA TickNext == ASSUME IInv, Tick PROVE IInv'
<1>1. UNCHANGED <<traffic, answers, pc, held, users, sessions, keys, stamp, setupToken,
                  pairLog, nameLog, restarts, unswept>>
  BY DEF Tick, tables, throttle
<1>2. Planned' /\ Positioned' /\ Accounts' /\ Administered' /\ LoginsKept' /\ SessionsKept' /\ KeysKept'
  <2>1. Planned' /\ Positioned'
    BY <1>1 DEF IInv, Planned, Positioned, script, More
  <2>2. Accounts' /\ Administered'
    BY <1>1 DEF IInv, Accounts, Administered, ActiveAdmins, Request, script
  <2>3. LoginsKept'
    BY <1>1 DEF IInv, LoginsKept, KeepsDate
  <2>4. SessionsKept'
    BY <1>1 DEF IInv, SessionsKept, ToSweep, Request, script
  <2>5. KeysKept'
    BY <1>1 DEF IInv, KeysKept, script
  <2> QED BY <2>1, <2>2, <2>3, <2>4, <2>5
<1>3. SetUp'
  <2>1. \A c \in Clients : \A i \in Nat : Winner(c, i)' => Winner(c, i)
    BY <1>1 DEF Winner, Answered, script
  <2> QED BY <1>1, <2>1 DEF IInv, SetUp
<1>4. Surrounded'
  BY <1>1 DEF IInv, Surrounded, Planned, Tick
<1> QED BY <1>2, <1>3, <1>4 DEF IInv

LEMMA RestartNext == ASSUME IInv, Restart PROVE IInv'
<1> USE DEF IInv
<1>1. UNCHANGED <<traffic, users, sessions, keys, stamp, clock>>
  BY DEF Restart, tables
<1>2. /\ pc' = [c \in Clients |-> "idle"] /\ DOMAIN answers' = Clients /\ DOMAIN held' = Clients
      /\ \A c \in Clients : answers'[c] = IF pc[c] # "idle" THEN Append(answers[c], <<0, 0>>)
                                                            ELSE answers[c]
  BY DEF Restart
<1>3. script' = script /\ Planned'
  BY <1>1 DEF script, Planned
<1>4. ASSUME NEW c \in Clients
      PROVE  /\ answers'[c] \in Codes /\ Len(answers'[c]) <= Len(script[c])
             /\ Len(answers'[c]) \in Nat /\ Len(answers[c]) \in Nat
             /\ DOMAIN answers'[c] = 1..Len(answers'[c]) /\ DOMAIN answers[c] = 1..Len(answers[c])
             /\ Len(answers'[c]) >= Len(answers[c])
             /\ \A i \in DOMAIN answers'[c] : \/ i \in DOMAIN answers[c] /\ answers'[c][i] = answers[c][i]
                                              \/ answers'[c][i][1] = 0
  <2> DEFINE n == Len(answers[c])
             a == <<0, 0>>
  <2>1. answers[c] \in Codes /\ n \in Nat /\ DOMAIN answers[c] = 1..n /\ Len(script[c]) \in Nat
    BY LenProperties DEF Positioned, Codes, Planned
  <2>2. CASE pc[c] = "idle"
    BY <1>2, <2>1, <2>2 DEF Positioned
  <2>3. CASE pc[c] # "idle"
    <3>1. answers'[c] = Append(answers[c], a) /\ n < Len(script[c])
      BY <1>2, <2>3 DEF Positioned, More
    <3>2. a \in Nat \X Nat /\ a[1] = 0
      OBVIOUS
    <3> HIDE DEF a
    <3>3. /\ answers'[c] \in Codes /\ Len(answers'[c]) = n + 1
          /\ DOMAIN answers'[c] = 1..(n + 1)
          /\ \A i \in 1..n : answers'[c][i] = answers[c][i]
          /\ answers'[c][n + 1] = a
      BY <2>1, <3>1, <3>2, AppendProperties, LenProperties DEF Codes
    <3> QED BY <2>1, <3>1, <3>2, <3>3
  <2> QED BY <2>2, <2>3
<1>5. Positioned'
  BY <1>2, <1>3, <1>4 DEF Positioned, Steps
<1>6. Surrounded'
  BY <1>1, NoRecords DEF Surrounded, Restart, Planned
<1>7. Accounts' /\ Administered' /\ LoginsKept'
  BY <1>1, <1>2 DEF Accounts, Administered, LoginsKept
<1>8. SessionsKept'
  <2>1. ToSweep \subseteq ToSweep'
    BY <1>2 DEF ToSweep, Restart, Positioned
  <2> QED BY <1>1, <2>1 DEF SessionsKept
<1>9. KeysKept'
  <2>1. ASSUME NEW c \in Clients, NEW i \in DOMAIN script[c], i > Len(answers'[c])
        PROVE  i > Len(answers[c])
    BY <1>4, <2>1 DEF Planned
  <2> QED BY <1>1, <1>3, <2>1 DEF KeysKept
<1>10. SetUp'
  <2>1. ASSUME NEW c \in Clients, NEW i \in Nat, Winner(c, i)' PROVE Winner(c, i)
    <3>1. i \in DOMAIN answers'[c] /\ script[c][i].op = "setup" /\ answers'[c][i][1] = 201
      BY <1>2, <1>3, <2>1 DEF Winner, Answered
    <3> QED BY <1>4, <3>1 DEF Winner, Answered
  <2>2. setupToken' => DOMAIN users' = {}
    <3>1. setupToken' => users = <<>>
      BY Zenon DEF Restart
    <3> QED BY <1>1, <3>1
  <2> QED BY <1>1, <2>1, <2>2 DEF SetUp
<1> QED BY <1>3, <1>5, <1>6, <1>7, <1>8, <1>9, <1>10

LEMMA Starts == ASSUME Init PROVE IInv
<1>1. PICK case \in Cases :
        /\ traffic = case.traffic /\ jar = case.jar
        /\ users = case.users /\ sessions = case.sessions /\ keys = case.keys
        /\ setupToken = (case.users = <<>>)
  BY DEF Init
<1>2. /\ Tables(case) /\ Fresh(script, case.keys)
      /\ \A c \in Clients : /\ Len(script[c]) \in Nat /\ DOMAIN script[c] = 1..Len(script[c])
                            /\ \A i \in DOMAIN script[c] : WellFormed(script[c][i])
      /\ traffic.ticks \in Nat \ {0} /\ traffic.restarts \in Nat
  BY <1>1, CasesAreSound DEF script
<1>3. /\ answers = [c \in Clients |-> <<>>] /\ pc = [c \in Clients |-> "idle"]
      /\ held = [c \in Clients |-> Nothing] /\ stamp = 0 /\ pairLog = <<>> /\ nameLog = <<>>
      /\ clock = 1 /\ restarts = 0 /\ unswept = {}
  BY DEF Init
<1>4. Planned
  BY <1>2 DEF Planned, Fresh
<1>5. Positioned
  <2>1. \A c \in Clients : answers[c] \in Codes /\ Len(answers[c]) = 0
    BY <1>3, EmptySeq DEF Codes
  <2> QED BY <1>2, <1>3, <2>1 DEF Positioned, Steps
<1>6. Surrounded
  BY <1>1, <1>2, <1>3, NoRecords DEF Surrounded
<1>7. Accounts
  BY <1>1, <1>2, <1>3 DEF Accounts, Tables, IsUser
<1>8. Administered /\ LoginsKept
  BY <1>3 DEF Administered, LoginsKept
<1>9. SessionsKept
  BY <1>1, <1>2, <1>3 DEF SessionsKept, Tables
<1>10. KeysKept
  BY <1>1, <1>2 DEF KeysKept, Tables, Fresh
<1>11. SetUp
  <2>1. \A c \in Clients : \A i \in Nat : ~ Winner(c, i)
    BY <1>3 DEF Winner
  <2>2. setupToken => users = <<>>
    BY <1>1, Zenon
  <2>3. setupToken => DOMAIN users = {}
    BY <2>2
  <2> QED BY <2>1, <2>3 DEF SetUp
<1> QED BY <1>4, <1>5, <1>6, <1>7, <1>8, <1>9, <1>10, <1>11 DEF IInv

LEMMA StutterNext == ASSUME IInv, UNCHANGED vars PROVE IInv'
BY DEF IInv, vars, tables, server, throttle, Planned, Positioned, Surrounded, Accounts,
   Administered, LoginsKept, KeepsDate, SessionsKept, KeysKept, SetUp, Winner, Answered, ToSweep,
   ActiveAdmins, Request, script, More

LEMMA IInvNext == ASSUME IInv, [Next]_vars PROVE IInv'
BY ServeNext, TickNext, RestartNext, StutterNext DEF Next

LEMMA Invariance == Spec => []IInv
BY Starts, IInvNext, PTL DEF Spec

-----------------------------------------------------------------------------
(* Theorems                                                                *)

LEMMA SessionsFollow == IInv => SessionsAreSound
<1> SUFFICES ASSUME IInv PROVE SessionsAreSound
  OBVIOUS
<1> USE DEF IInv
<1>1. pc \in [Clients -> Steps]
  BY DEF Positioned
<1>2. \A c \in Clients : Len(answers[c]) + (IF pc[c] = "idle" THEN 0 ELSE 1) <= Len(script[c])
  <2> TAKE c \in Clients
  <2>1. Len(answers[c]) \in Nat /\ Len(script[c]) \in Nat
    BY LenProperties DEF Positioned, Codes, Planned
  <2> QED BY <2>1 DEF Positioned, More
<1>3. \A u \in DOMAIN users : /\ users[u].role \in Roles /\ users[u].status \in Statuses
                              /\ users[u].suspended <= users[u].updated /\ users[u].updated <= stamp
                              /\ Named(users[u].name) = {u}
  BY DEF Accounts, IsUser, Named
<1>4. \A k \in DOMAIN keys : KeyOf(keys[k].secret) = {k} /\ keys[k].revoked \in BOOLEAN
  BY DEF KeysKept, KeyOf
<1>5. TypeOK
  BY <1>1, <1>2, <1>3, <1>4 DEF TypeOK, Surrounded, IsLog
<1>6. RowsHaveOwners /\ SuspendedDoesNotSignIn
  BY DEF RowsHaveOwners, SuspendedDoesNotSignIn, SessionsKept, KeysKept
<1>7. SuspensionEndsSessions
  BY DEF SuspensionEndsSessions, SessionsKept, ToSweep
<1> QED BY <1>5, <1>6, <1>7 DEF SessionsAreSound

\* A set whose elements are all equal has at most one.
LEMMA AtMostOne ==
  ASSUME NEW S, \A x, y \in S : x = y
  PROVE  Cardinality(S) <= 1
<1>1. CASE S = {}
  BY <1>1, FS_EmptySet
<1>2. CASE S # {}
  <2>1. PICK x \in S : TRUE
    BY <1>2
  <2>2. S = {x}
    BY <2>1
  <2> QED BY <2>2, FS_Singleton
<1> QED BY <1>1, <1>2

LEMMA OneSetup == IInv => OneFirstAdmin
<1> SUFFICES ASSUME IInv PROVE OneFirstAdmin
  OBVIOUS
<1> DEFINE won(c) == {<<c, i>> : i \in {j \in DOMAIN answers[c] : Answered(c, j, "setup", {201})}}
           S == UNION {won(c) : c \in Clients}
<1>1. \A x \in S : \E c \in Clients : \E i \in Nat : x = <<c, i>> /\ Winner(c, i)
  <2> SUFFICES ASSUME NEW c \in Clients, NEW i \in DOMAIN answers[c],
                      Answered(c, i, "setup", {201})
               PROVE  i \in Nat /\ Winner(c, i)
    OBVIOUS
  <2>1. DOMAIN answers[c] = 1..Len(answers[c]) /\ Len(answers[c]) \in Nat
    BY LenProperties DEF IInv, Positioned, Codes
  <2> QED BY <2>1 DEF Winner
<1> HIDE DEF S, won
<1>2. \A x, y \in S : x = y
  BY <1>1 DEF IInv, SetUp
<1>3. Cardinality(S) <= 1
  BY <1>2, AtMostOne
<1> QED BY <1>3 DEF S, won, OneFirstAdmin, IInv, SetUp

LEMMA AdminsRemain == ASSUME IInv, Next PROVE ActiveAdmins # {} => ActiveAdmins' # {}
<1>1. ASSUME NEW c \in Clients, Serve(c)
      PROVE  ActiveAdmins # {} => ActiveAdmins' # {}
  BY <1>1, AccountsMove DEF AccountStep
<1>2. CASE Tick \/ Restart
  BY <1>2 DEF Tick, Restart, tables, ActiveAdmins
<1> QED BY <1>1, <1>2 DEF Next

\* However many clients set the server up, change, suspend and delete accounts
\* at once, and wherever the process restarts: one setup creates the first
\* admin, and the server never loses its last active one (account_routes._setup,
\* accounts.guard_update and guard_delete inside BEGIN IMMEDIATE).
THEOREM AdministrationSound == Spec => AdministrationIsSound
<1>1. IInv => OneFirstAdmin
  BY OneSetup
<1>2. IInv /\ [Next]_vars => [ActiveAdmins # {} => ActiveAdmins' # {}]_vars
  BY AdminsRemain
<1> QED BY <1>1, <1>2, Invariance, PTL DEF Spec, AdministrationIsSound, AdministrationIsNeverLost

\* A session and a key always have an account; no login opens a session for an
\* account that was suspended when its password was checked, and a suspension
\* ends the sessions from before it, unless its sweep is still to come or a
\* restart cut it short (sessions.begin_session, accounts.apply_guarded_update,
\* the foreign keys of appdb/schema.py).
THEOREM SessionsSound == Spec => []SessionsAreSound
BY SessionsFollow, Invariance, PTL

\* No edit that its owner has begun brings a revoked key back
\* (api_key_routes._update_api_key against _delete_api_key).
THEOREM RevokedForGood == Spec => RevocationIsFinal
<1> DEFINE Final == \A k \in DOMAIN keys \cap DOMAIN keys' :
                      keys[k].secret = keys'[k].secret /\ keys[k].revoked => keys'[k].revoked
<1>1. ASSUME IInv, Next PROVE Final
  <2>1. ASSUME NEW c \in Clients, Serve(c) PROVE Final
    BY <1>1, <2>1, KeysMove DEF KeyStep
  <2>2. CASE Tick \/ Restart
    BY <2>2 DEF Tick, Restart, tables
  <2> QED BY <1>1, <2>1, <2>2 DEF Next
<1>2. IInv /\ [Next]_vars => [Final]_vars
  BY <1>1
<1> QED BY <1>2, Invariance, PTL DEF Spec, RevocationIsFinal

-----------------------------------------------------------------------------
(* The throttle's record of a name                                         *)

RecordsOf(K) == [key : K, failures : Seq(Nat), until : Nat]
Distinct(log) == \A i, j \in DOMAIN log : log[i].key = log[j].key => i = j
IsMap(log, K) == log \in Seq(RecordsOf(K)) /\ Distinct(log)

LEMMA PlaceOfKey ==
  ASSUME NEW log, Distinct(log), NEW i \in DOMAIN log
  PROVE  Tracked(log, log[i].key) /\ Place(log, log[i].key) = i /\ RecordOf(log, log[i].key) = log[i]
BY DEF Distinct, Tracked, Place, RecordOf

LEMMA UnknownRecord ==
  ASSUME NEW log, NEW key, ~ Tracked(log, key)
  PROVE  RecordOf(log, key) = [key |-> key, failures |-> <<>>, until |-> NoLock]
BY DEF RecordOf

LEMMA RecordIsTyped ==
  ASSUME NEW K, NEW log, IsMap(log, K), NEW key \in K
  PROVE  RecordOf(log, key) \in RecordsOf(K) /\ RecordOf(log, key).key = key
<1>1. CASE Tracked(log, key)
  <2>1. PICK i \in DOMAIN log : log[i].key = key
    BY <1>1 DEF Tracked
  <2>2. log[i] \in RecordsOf(K)
    BY <2>1, ElementOfSeq, LenProperties DEF IsMap
  <2> QED BY <2>1, <2>2, PlaceOfKey DEF IsMap
<1>2. CASE ~ Tracked(log, key)
  <2>1. <<>> \in Seq(Nat) /\ NoLock \in Nat
    BY DEF NoLock
  <2>2. RecordOf(log, key) = [key |-> key, failures |-> <<>>, until |-> NoLock]
    BY <1>2, UnknownRecord
  <2>3. [key |-> key, failures |-> <<>>, until |-> NoLock] \in [key : K, failures : Seq(Nat), until : Nat]
    BY <2>1
  <2> QED BY <2>2, <2>3 DEF RecordsOf
<1> QED BY <1>1, <1>2

\* Two maps that know the same of a name.
LEMMA SameRecord ==
  ASSUME NEW log, Distinct(log), NEW new, Distinct(new), NEW key,
         \A i \in DOMAIN log : log[i].key = key => \E j \in DOMAIN new : new[j] = log[i],
         \A j \in DOMAIN new : new[j].key = key => \E i \in DOMAIN log : log[i].key = key
  PROVE  RecordOf(new, key) = RecordOf(log, key)
<1>1. CASE Tracked(log, key)
  <2>1. PICK i \in DOMAIN log : log[i].key = key
    BY <1>1 DEF Tracked
  <2>2. PICK j \in DOMAIN new : new[j] = log[i]
    BY <2>1
  <2> QED BY <2>1, <2>2, PlaceOfKey
<1>2. CASE ~ Tracked(log, key)
  <2>1. ~ Tracked(new, key)
    BY <1>2 DEF Tracked
  <2> QED BY <1>2, <2>1, UnknownRecord
<1> QED BY <1>1, <1>2

Cleared(r, now) ==
  IF r.until # NoLock /\ now >= r.until THEN [r EXCEPT !.failures = <<>>, !.until = NoLock] ELSE r

LEMMA AskedRecords ==
  ASSUME NEW K, NEW log, IsMap(log, K), NEW key \in K, NEW now
  PROVE  /\ IsMap(Asked(log, key, now), K)
         /\ RecordOf(Asked(log, key, now), key) = Cleared(RecordOf(log, key), now)
         /\ \A n \in K \ {key} : RecordOf(Asked(log, key, now), n) = RecordOf(log, n)
<1> DEFINE new == Asked(log, key, now)
<1>1. /\ DOMAIN new = DOMAIN log
      /\ \A i \in DOMAIN log : new[i] = IF log[i].key = key THEN Cleared(log[i], now) ELSE log[i]
  BY DEF Asked, Cleared
<1>2. \A i \in DOMAIN log : log[i] \in RecordsOf(K)
  BY ElementOfSeq, LenProperties DEF IsMap
<1>3. ASSUME NEW i \in DOMAIN log PROVE new[i] \in RecordsOf(K) /\ new[i].key = log[i].key
  <2>1. <<>> \in Seq(Nat) /\ NoLock \in Nat
    BY DEF NoLock
  <2>2. Cleared(log[i], now) \in RecordsOf(K) /\ Cleared(log[i], now).key = log[i].key
    BY <1>2, <2>1 DEF Cleared, RecordsOf
  <2> HIDE DEF new
  <2> QED BY <1>1, <1>2, <2>2
<1>4. new \in Seq(RecordsOf(K))
  <2>1. Len(log) \in Nat /\ DOMAIN log = 1 .. Len(log)
    BY LenProperties DEF IsMap
  <2>2. new = [i \in 1 .. Len(log) |-> new[i]]
    BY <2>1 DEF Asked
  <2> HIDE DEF new
  <2>3. new \in [1 .. Len(log) -> RecordsOf(K)]
    BY <1>3, <2>1, <2>2
  <2> QED BY <2>1, <2>3, SeqDef
<1> HIDE DEF new
<1>5. Distinct(new)
  BY <1>1, <1>3 DEF IsMap, Distinct
<1>6. RecordOf(new, key) = Cleared(RecordOf(log, key), now)
  <2>1. CASE Tracked(log, key)
    <3>1. PICK i \in DOMAIN log : log[i].key = key
      BY <2>1 DEF Tracked
    <3>2. RecordOf(log, key) = log[i]
      BY <3>1, PlaceOfKey DEF IsMap
    <3>3. RecordOf(new, key) = new[i]
      BY <1>1, <1>3, <1>5, <3>1, PlaceOfKey
    <3> QED BY <1>1, <3>1, <3>2, <3>3
  <2>2. CASE ~ Tracked(log, key)
    <3>1. ~ Tracked(new, key)
      BY <1>1, <1>3, <2>2 DEF Tracked
    <3> QED BY <2>2, <3>1, UnknownRecord DEF Cleared
  <2> QED BY <2>1, <2>2
<1>7. ASSUME NEW n \in K \ {key} PROVE RecordOf(new, n) = RecordOf(log, n)
  <2>1. \A i \in DOMAIN log : log[i].key = n => new[i] = log[i]
    BY <1>1
  <2>2. Distinct(log)
    BY DEF IsMap
  <2> QED BY <1>1, <1>3, <1>5, <2>1, <2>2, SameRecord
<1> QED BY <1>4, <1>5, <1>6, <1>7 DEF IsMap, new

LEMMA ForgetRecords ==
  ASSUME NEW K, NEW log, IsMap(log, K), NEW key
  PROVE  /\ IsMap(Forget(log, key), K) /\ ~ Tracked(Forget(log, key), key)
         /\ \A n \in K \ {key} : RecordOf(Forget(log, key), n) = RecordOf(log, n)
<1>1. CASE ~ Tracked(log, key)
  BY <1>1 DEF Forget
<1>2. CASE Tracked(log, key)
  <2> DEFINE S == RecordsOf(K)
             p == Place(log, key)
             m == Len(log)
             q == p + 1
             front == SubSeq(log, 1, p - 1)
             back == SubSeq(log, q, m)
             new == front \o back
  <2>1. log \in Seq(S) /\ m \in Nat /\ DOMAIN log = 1 .. m /\ Distinct(log)
    BY LenProperties DEF IsMap
  <2>2. p \in 1 .. m /\ log[p].key = key
    BY <1>2, <2>1 DEF Tracked, Place
  <2>3. Forget(log, key) = new
    BY <1>2 DEF Forget, RemoveAt
  <2> HIDE DEF S, p, m
  <2>4. \A i \in 1 .. m : log[i] \in S
    BY <2>1
  <2>5. /\ front \in Seq(S) /\ Len(front) = p - 1
        /\ \A i \in 1 .. p - 1 : front[i] = log[i]
    <3>1. p - 1 \in Int /\ \A i \in 1 .. p - 1 : log[i] \in S
      BY <2>1, <2>2, <2>4
    <3>2. front \in Seq(S) /\ Len(front) = IF 1 <= p - 1 THEN (p - 1) - 1 + 1 ELSE 0
      BY <3>1, SubSeqProperties
    <3>3. \A i \in 1 .. (p - 1) - 1 + 1 : front[i] = log[1 + i - 1]
      BY <3>1, SubSeqProperties
    <3> HIDE DEF front
    <3> QED BY <2>1, <2>2, <3>2, <3>3
  <2>6. q \in Int /\ q = p + 1 /\ q - 1 = p
    BY <2>1, <2>2
  <2> HIDE DEF q
  <2>7. /\ back \in Seq(S) /\ Len(back) = m - p
        /\ \A i \in 1 .. m - p : back[i] = log[p + i]
    <3>1. \A i \in q .. m : log[i] \in S
      BY <2>1, <2>2, <2>4, <2>6
    <3>2. back \in Seq(S) /\ Len(back) = IF q <= m THEN m - q + 1 ELSE 0
      BY <2>1, <2>6, <3>1, SubSeqProperties
    <3>3. \A i \in 1 .. m - q + 1 : back[i] = log[q + i - 1]
      BY <2>1, <2>6, <3>1, SubSeqProperties
    <3> HIDE DEF back
    <3>4. m - q + 1 = m - p
      BY <2>1, <2>2, <2>6
    <3>5. Len(back) = m - p
      BY <2>1, <2>2, <2>6, <3>2
    <3>6. \A i \in 1 .. m - p : q + i - 1 = p + i
      BY <2>1, <2>2, <2>6
    <3> QED BY <3>2, <3>3, <3>4, <3>5, <3>6
  <2> HIDE DEF front, back
  <2>8. /\ new \in Seq(S) /\ Len(new) = m - 1
        /\ \A i \in 1 .. m - 1 : new[i] = IF i <= p - 1 THEN log[i] ELSE log[i + 1]
    <3>1. /\ new \in Seq(S) /\ Len(new) = Len(front) + Len(back)
          /\ \A i \in 1 .. Len(front) + Len(back) :
               new[i] = IF i <= Len(front) THEN front[i] ELSE back[i - Len(front)]
      BY <2>5, <2>7, ConcatProperties
    <3> HIDE DEF new
    <3>2. Len(front) + Len(back) = m - 1
      BY <2>1, <2>2, <2>5, <2>7
    <3>3. ASSUME NEW i \in 1 .. m - 1, i <= p - 1 PROVE new[i] = log[i]
      BY <2>1, <2>2, <2>5, <3>1, <3>2, <3>3
    <3>4. ASSUME NEW i \in 1 .. m - 1, ~ i <= p - 1 PROVE new[i] = log[i + 1]
      <4>1. i - (p - 1) \in 1 .. m - p /\ p + (i - (p - 1)) = i + 1
        BY <2>1, <2>2, <3>4
      <4>2. new[i] = back[i - (p - 1)]
        BY <2>5, <3>1, <3>2, <3>4
      <4> QED BY <2>7, <4>1, <4>2
    <3> QED BY <3>1, <3>2, <3>3, <3>4
  <2> HIDE DEF new
  <2>9. DOMAIN new = 1 .. m - 1
    BY <2>1, <2>2, <2>8, LenProperties
  <2>10. ASSUME NEW i \in DOMAIN new
         PROVE  \E k \in DOMAIN log : k # p /\ new[i] = log[k] /\ k = IF i <= p - 1 THEN i ELSE i + 1
    BY <2>1, <2>2, <2>8, <2>9
  <2>11. ASSUME NEW k \in DOMAIN log, k # p PROVE \E i \in DOMAIN new : new[i] = log[k]
    <3>1. CASE k < p
      BY <2>1, <2>2, <2>8, <2>9, <3>1
    <3>2. CASE k > p
      <4>1. k - 1 \in 1 .. m - 1 /\ ~ k - 1 <= p - 1 /\ (k - 1) + 1 = k
        BY <2>1, <2>2, <3>2
      <4> QED BY <2>8, <2>9, <4>1
    <3> QED BY <2>1, <2>2, <2>11, <3>1, <3>2
  <2>12. Distinct(new)
    <3>1. ASSUME NEW i \in DOMAIN new, NEW j \in DOMAIN new, new[i].key = new[j].key PROVE i = j
      <4>1. (IF i <= p - 1 THEN i ELSE i + 1) = (IF j <= p - 1 THEN j ELSE j + 1)
        BY <2>1, <2>10, <3>1 DEF Distinct
      <4> QED BY <2>1, <2>2, <2>9, <4>1
    <3> QED BY <3>1 DEF Distinct
  <2>13. ~ Tracked(new, key)
    BY <2>1, <2>2, <2>10 DEF Distinct, Tracked
  <2>14. ASSUME NEW n \in K \ {key} PROVE RecordOf(new, n) = RecordOf(log, n)
    <3>1. \A i \in DOMAIN log : log[i].key = n => \E j \in DOMAIN new : new[j] = log[i]
      BY <2>2, <2>11
    <3>2. \A j \in DOMAIN new : new[j].key = n => \E i \in DOMAIN log : log[i].key = n
      BY <2>10
    <3> QED BY <2>1, <2>12, <3>1, <3>2, SameRecord
  <2> QED BY <2>3, <2>8, <2>12, <2>13, <2>14 DEF IsMap, S
<1> QED BY <1>1, <1>2

Registered(r, now, threshold) ==
  LET when == Append(Recent(r.failures, now), now)
  IN  [key |-> r.key, failures |-> when,
       until |-> IF Len(when) >= threshold THEN now + Lockout ELSE r.until]

LEMMA CountIsBounded ==
  ASSUME NEW s \in Seq(Nat), NEW G
  PROVE  Count(s, G) <= Len(s)
<1>1. Len(s) \in Nat /\ DOMAIN s = 1 .. Len(s)
  BY LenProperties
<1>2. IsFiniteSet(DOMAIN s) /\ Cardinality(DOMAIN s) = Len(s)
  BY <1>1, FS_Interval, SMT
<1> QED BY <1>2, FS_Subset, {i \in DOMAIN s : s[i] \in G} \in SUBSET DOMAIN s DEF Count, CountAt

LEMMA RecentIsShorter ==
  ASSUME NEW failures \in Seq(Nat), NEW now
  PROVE  Recent(failures, now) \in Seq(Nat) /\ Len(Recent(failures, now)) <= Len(failures)
<1> DEFINE places == {i \in DOMAIN failures : failures[i] \in Young(now)}
<1>1. /\ AtPlaces(failures, places) \in Seq(Nat)
      /\ Len(AtPlaces(failures, places)) = Cardinality(places)
  BY AtPlacesFacts, places \in SUBSET DOMAIN failures
<1>2. Cardinality(places) <= Len(failures)
  BY CountIsBounded DEF Count, CountAt
<1> QED BY <1>1, <1>2 DEF Recent, Kept

LEMMA AppendCount ==
  ASSUME NEW s \in Seq(Nat), NEW e \in Nat, NEW G
  PROVE  Count(Append(s, e), G) = IF e \in G THEN Count(s, G) + 1 ELSE Count(s, G)
<1> DEFINE n == Len(s)
           new == Append(s, e)
           A == {i \in DOMAIN s : s[i] \in G}
           B == {i \in DOMAIN new : new[i] \in G}
<1>1. /\ n \in Nat /\ DOMAIN s = 1 .. n /\ DOMAIN new = 1 .. n + 1
      /\ \A i \in 1 .. n : new[i] = s[i]
      /\ new[n + 1] = e
  BY AppendProperties, LenProperties
<1>2. IsFiniteSet(A)
  BY CountIsNumber
<1> HIDE DEF new
<1>6. n + 1 \notin A
  BY <1>1
<1>3. B = IF e \in G THEN A \cup {n + 1} ELSE A
  BY <1>1
<1>4. Cardinality(A \cup {n + 1}) = Cardinality(A) + 1
  <2> HIDE DEF A, n
  <2> QED BY <1>2, <1>6, FS_AddElement
<1> HIDE DEF A, B, n
<1>5. Cardinality(B) = IF e \in G THEN Cardinality(A) + 1 ELSE Cardinality(A)
  BY <1>3, <1>4
<1> QED BY <1>5 DEF Count, CountAt, A, B, new

\* A failure keeps the recent ones before it and adds itself.
LEMMA RegisteredFacts ==
  ASSUME NEW K, NEW r \in RecordsOf(K), NEW now \in Nat, NEW threshold
  PROVE  /\ Registered(r, now, threshold) \in RecordsOf(K)
         /\ Registered(r, now, threshold).key = r.key
         /\ Len(Registered(r, now, threshold).failures) <= Len(r.failures) + 1
<1> DEFINE kept == Recent(r.failures, now)
           when == Append(kept, now)
<1>1. r.failures \in Seq(Nat) /\ r.until \in Nat /\ r.key \in K
  BY DEF RecordsOf
<1>2. kept \in Seq(Nat) /\ Len(kept) <= Len(r.failures)
  BY <1>1, RecentIsShorter
<1> HIDE DEF kept
<1>3. when \in Seq(Nat) /\ Len(kept) \in Nat /\ Len(when) = Len(kept) + 1
  BY <1>2, AppendProperties, LenProperties
<1> HIDE DEF when
<1>4. Lockout \in Nat
  BY ThrottleAssumption
<1>5. Registered(r, now, threshold) = [key |-> r.key, failures |-> when,
         until |-> IF Len(when) >= threshold THEN now + Lockout ELSE r.until]
  BY DEF Registered, when, kept
<1>6. Registered(r, now, threshold) \in RecordsOf(K)
  BY <1>1, <1>3, <1>4, <1>5 DEF RecordsOf
<1>7. Len(when) <= Len(r.failures) + 1
  BY <1>1, <1>2, <1>3, LenProperties
<1> QED BY <1>5, <1>6, <1>7

LEMMA RegisteredCount ==
  ASSUME NEW K, NEW r \in RecordsOf(K), NEW now \in Nat, NEW threshold, NEW G, NEW young,
         young = Young(now) \cap G
  PROVE  Count(Registered(r, now, threshold).failures, G) =
           IF now \in G THEN Count(r.failures, young) + 1 ELSE Count(r.failures, young)
<1>1. r.failures \in Seq(Nat)
  BY DEF RecordsOf
<1>2. Recent(r.failures, now) \in Seq(Nat)
  BY <1>1, RecentIsShorter
<1>3. Count(Recent(r.failures, now), G) = Count(r.failures, young)
  BY <1>1, KeptCount DEF Recent
<1>4. Registered(r, now, threshold).failures = Append(Recent(r.failures, now), now)
  BY DEF Registered
<1> QED BY <1>2, <1>3, <1>4, AppendCount

\* A map of different keys is no longer than there are keys.
LEMMA FewRecords ==
  ASSUME NEW K, IsFiniteSet(K), NEW log, IsMap(log, K)
  PROVE  Len(log) <= Cardinality(K)
<1>1. Len(log) \in Nat /\ DOMAIN log = 1 .. Len(log) /\ \A i \in 1 .. Len(log) : log[i].key \in K
  <2>1. Len(log) \in Nat /\ DOMAIN log = 1 .. Len(log) /\ \A i \in 1 .. Len(log) : log[i] \in RecordsOf(K)
    BY LenProperties, ElementOfSeq DEF IsMap
  <2> QED BY <2>1 DEF RecordsOf
<1> DEFINE n == Len(log)
           f == [i \in 1 .. n |-> log[i].key]
<1>2. f \in [1 .. n -> K] /\ \A i, j \in 1 .. n : f[i] = f[j] => i = j
  BY <1>1 DEF IsMap, Distinct
<1>3. n \in Nat
  BY <1>1
<1> HIDE DEF n, f
<1>4. f \in Injection(1 .. n, K)
  BY <1>2, Fun_IsInj
<1>5. Cardinality(1 .. n) <= Cardinality(K)
  BY <1>4, FS_Injection
<1>6. Cardinality(1 .. n) = n
  BY <1>3, FS_Interval, SMT
<1> QED BY <1>5, <1>6 DEF n

LEMMA RegisterRecords ==
  ASSUME NEW K, IsFiniteSet(K), Cardinality(K) <= MaxTracked, NEW log, IsMap(log, K),
         NEW key \in K, NEW now \in Nat, NEW threshold
  PROVE  /\ IsMap(Register(log, key, now, threshold), K)
         /\ RecordOf(Register(log, key, now, threshold), key) = Registered(RecordOf(log, key), now, threshold)
         /\ \A n \in K \ {key} : RecordOf(Register(log, key, now, threshold), n) = RecordOf(log, n)
<1> DEFINE old == Forget(log, key)
           new == Registered(RecordOf(log, key), now, threshold)
           all == Append(old, new)
           m == Len(old)
<1>1. RecordOf(log, key) \in RecordsOf(K) /\ RecordOf(log, key).key = key
  BY RecordIsTyped
<1>2. new \in RecordsOf(K) /\ new.key = key
  BY <1>1, RegisteredFacts
<1>3. /\ IsMap(old, K) /\ ~ Tracked(old, key)
      /\ \A n \in K \ {key} : RecordOf(old, n) = RecordOf(log, n)
  BY ForgetRecords
<1>4. Register(log, key, now, threshold) = SubSeq(all, IF Len(all) > MaxTracked THEN 2 ELSE 1, Len(all))
  BY <1>1 DEF Register, Registered
<1> HIDE DEF old, new
<1>5. /\ all \in Seq(RecordsOf(K)) /\ m \in Nat /\ Len(all) = m + 1
      /\ \A i \in 1 .. m : all[i] = old[i]
      /\ all[m + 1] = new
      /\ DOMAIN old = 1 .. m /\ DOMAIN all = 1 .. m + 1
  BY <1>2, <1>3, AppendProperties, LenProperties DEF IsMap
<1> HIDE DEF all, m
<1>6. Distinct(all)
  <2>1. \A i \in 1 .. m : old[i].key # key
    BY <1>3, <1>5 DEF Tracked
  <2>2. \A i, j \in 1 .. m : old[i].key = old[j].key => i = j
    BY <1>3, <1>5 DEF IsMap, Distinct
  <2>3. ASSUME NEW i \in DOMAIN all, NEW j \in DOMAIN all, all[i].key = all[j].key PROVE i = j
    <3>1. CASE i = m + 1 /\ j = m + 1
      BY <3>1
    <3>2. CASE i = m + 1 /\ j # m + 1
      <4>1. j \in 1 .. m
        BY <1>5, <3>2
      <4> QED BY <1>2, <1>5, <2>1, <2>3, <3>2, <4>1
    <3>3. CASE i # m + 1 /\ j = m + 1
      <4>1. i \in 1 .. m
        BY <1>5, <3>3
      <4> QED BY <1>2, <1>5, <2>1, <2>3, <3>3, <4>1
    <3>4. CASE i # m + 1 /\ j # m + 1
      <4>1. i \in 1 .. m /\ j \in 1 .. m
        BY <1>5, <3>4
      <4> QED BY <1>5, <2>2, <2>3, <4>1
    <3> QED BY <3>1, <3>2, <3>3, <3>4
  <2> QED BY <2>3 DEF Distinct
<1>7. IsMap(all, K)
  BY <1>5, <1>6 DEF IsMap
<1>8. Len(all) <= Cardinality(K) /\ Cardinality(K) \in Nat
  BY <1>7, FewRecords, FS_CardinalityType
<1>9. Register(log, key, now, threshold) = all
  <2>1. MaxTracked \in Nat
    BY ThrottleAssumption
  <2>2. ~ Len(all) > MaxTracked
    BY <1>5, <1>8, <2>1
  <2>3. SubSeq(all, 1, Len(all)) = all
    <3> DEFINE n == Len(all)
               s == SubSeq(all, 1, n)
    <3>1. n \in Int /\ n \in Nat /\ \A i \in 1 .. n : all[i] \in RecordsOf(K)
      BY <1>5, ElementOfSeq
    <3> HIDE DEF n
    <3>2. /\ s \in Seq(RecordsOf(K)) /\ Len(s) = (IF 1 <= n THEN n - 1 + 1 ELSE 0)
          /\ \A i \in 1 .. n - 1 + 1 : s[i] = all[1 + i - 1]
      BY <3>1, SubSeqProperties
    <3> HIDE DEF s
    <3>3. Len(s) = n /\ \A i \in 1 .. n : s[i] = all[i]
      BY <3>1, <3>2
    <3>4. s = all
      BY <1>5, <3>2, <3>3, SeqEqual DEF n
    <3> QED BY <3>4 DEF n, s
  <2> QED BY <1>4, <2>2, <2>3
<1>10. RecordOf(all, key) = new
  <2>1. m + 1 \in DOMAIN all
    BY <1>5
  <2> QED BY <1>2, <1>5, <1>6, <2>1, PlaceOfKey
<1>11. ASSUME NEW n \in K \ {key} PROVE RecordOf(all, n) = RecordOf(old, n)
  <2>1. \A i \in DOMAIN old : old[i].key = n => \E j \in DOMAIN all : all[j] = old[i]
    BY <1>5
  <2>2. \A j \in DOMAIN all : all[j].key = n => \E i \in DOMAIN old : old[i].key = n
    <3>1. ASSUME NEW j \in DOMAIN all, all[j].key = n PROVE j \in 1 .. m
      BY <1>2, <1>5, <3>1
    <3> QED BY <1>5, <3>1
  <2> QED BY <1>3, <1>6, <2>1, <2>2, SameRecord DEF IsMap
<1> QED BY <1>3, <1>7, <1>9, <1>10, <1>11 DEF new

-----------------------------------------------------------------------------
(* Wrong guesses                                                           *)

Wrong(n) == {a \in LoginsOf(n) : answers[a[1]][a[2]][1] = 401}
When(a) == answers[a[1]][a[2]][2]
Later(n, time) == {a \in Wrong(n) : When(a) > time}

\* Who is past the gate with a name and has not had an answer.
Passed == {"login_verify", "login_failed", "login_verified"}
Past(n) == {c \in Clients : pc[c] \in Passed /\ Fold(Request(c).name) = n}
Others == Cardinality(Clients) - 1

\* The record of a name counts every recent wrong guess but those a lockout
\* forgot with it, which are fewer than the clients: they were past the gate when
\* it locked, and nobody passes the gate of a locked name.  So what is locked can
\* grow only by those that are past the gate still, and a lock that lasts as long
\* as the window outlives what had been counted when it began.
Counted(n) ==
  LET r == RecordOf(nameLog, n) IN
  /\ \A a \in Wrong(n) : When(a) \in 0 .. clock
  /\ \A time \in Nat : time >= clock =>
          Cardinality(Later(n, time - Window)) <= Count(r.failures, Young(time)) + Others
  /\ r.until = NoLock => Len(r.failures) < NameLimit
  /\ r.until # NoLock => /\ Len(r.failures) + Cardinality(Past(n)) <= NameLimit + Others
                         /\ Cardinality(Later(n, r.until - Lockout)) + Cardinality(Past(n)) <= Others

LoginsServeLogins == \A c \in Clients : pc[c] \in Passed \cup {"login_open"} => Request(c).op = "login"

\* No record is ever evicted, and no lock is shorter than the window.
Roomy == Window <= Lockout /\ Cardinality(Usernames) <= MaxTracked
Guessing ==
  /\ LoginsServeLogins /\ IsMap(nameLog, Usernames)
  /\ \A n \in Usernames : Succeeded(n) \/ restarts > 0 \/ Counted(n)

LEMMA WrongMembers ==
  ASSUME NEW n, NEW a
  PROVE  a \in Wrong(n) <=> \E c \in Clients : \E i \in DOMAIN answers[c] :
           /\ a = <<c, i>> /\ script[c][i].op = "login" /\ Fold(script[c][i].name) = n
           /\ answers[c][i][1] = 401
BY DEF Wrong, LoginsOf

LEMMA WrongIsFinite ==
  ASSUME Positioned, NEW n
  PROVE  IsFiniteSet(Wrong(n))
<1> DEFINE f == [c \in Clients |-> {c} \X DOMAIN answers[c]]
           S == {f[c] : c \in Clients}
<1>1. ASSUME NEW c \in Clients PROVE IsFiniteSet(f[c])
  <2>1. Len(answers[c]) \in Nat /\ DOMAIN answers[c] = 1 .. Len(answers[c])
    BY LenProperties DEF Positioned, Codes
  <2>2. IsFiniteSet(DOMAIN answers[c])
    BY <2>1, FS_Interval, SMT
  <2>3. IsFiniteSet({c})
    BY FS_Singleton
  <2>4. IsFiniteSet({c} \X DOMAIN answers[c])
    BY <2>2, <2>3, FS_Product
  <2> QED BY <2>4
<1>2. IsFiniteSet(S)
  <2>1. Clients \subseteq DOMAIN f
    OBVIOUS
  <2> HIDE DEF f
  <2> QED BY <2>1, ClientsAreFinite, ImageIsFinite
<1>3. IsFiniteSet(UNION S)
  <2> HIDE DEF f
  <2> QED BY <1>1, <1>2, FS_UNION
<1>4. Wrong(n) \in SUBSET UNION S
  BY WrongMembers
<1> QED BY <1>3, <1>4, FS_Subset

LEMMA LaterIsFinite ==
  ASSUME Positioned, NEW n, NEW time
  PROVE  IsFiniteSet(Later(n, time)) /\ Cardinality(Later(n, time)) \in Nat
BY WrongIsFinite, FS_Subset, FS_CardinalityType, Later(n, time) \in SUBSET Wrong(n) DEF Later

LEMMA PastIsFinite ==
  ASSUME NEW n
  PROVE  IsFiniteSet(Past(n)) /\ Cardinality(Past(n)) \in Nat
BY ClientsAreFinite, FS_Subset, FS_CardinalityType, Past(n) \in SUBSET Clients DEF Past

LEMMA NamesAreFinite ==
  ASSUME Planned
  PROVE  IsFiniteSet(Usernames)
<1> DEFINE logins(c) == {j \in DOMAIN script[c] : script[c][j].op = "login"}
           f == [c \in Clients |-> {Fold(script[c][i].name) : i \in logins(c)}]
           S == {f[c] : c \in Clients}
<1>1. ASSUME NEW c \in Clients PROVE IsFiniteSet(f[c])
  <2> DEFINE g == [i \in DOMAIN script[c] |-> Fold(script[c][i].name)]
  <2>1. IsFiniteSet(DOMAIN script[c])
    BY FS_Interval, SMT DEF Planned
  <2>2. IsFiniteSet(logins(c)) /\ logins(c) \subseteq DOMAIN g
    BY <2>1, FS_Subset, logins(c) \in SUBSET DOMAIN script[c]
  <2>3. IsFiniteSet({g[i] : i \in logins(c)})
    <3> HIDE DEF g
    <3> QED BY <2>2, ImageIsFinite
  <2> QED BY <2>3
<1>2. IsFiniteSet(S)
  <2>1. Clients \subseteq DOMAIN f
    OBVIOUS
  <2> HIDE DEF f
  <2> QED BY <2>1, ClientsAreFinite, ImageIsFinite
<1>3. IsFiniteSet(UNION S)
  <2> HIDE DEF f
  <2> QED BY <1>1, <1>2, FS_UNION
<1>4. ASSUME NEW n \in Usernames PROVE n \in UNION S
  BY <1>4 DEF Usernames
<1>5. Usernames \in SUBSET UNION S
  BY <1>4
<1> QED BY <1>3, <1>5, FS_Subset

\* The name of a login that is being served is one of the names.
LEMMA NameServed ==
  ASSUME Planned, Positioned, NEW c \in Clients, More(c), Request(c).op = "login"
  PROVE  Fold(Request(c).name) \in Usernames
<1>1. Len(answers[c]) + 1 \in DOMAIN script[c]
  BY RequestPlanned
<1> QED BY <1>1 DEF Usernames, Request

-----------------------------------------------------------------------------
(* What a step does to the guesses of a name                               *)

\* A step adds at most the answer it gives.
LEMMA AnswersGrow ==
  ASSUME Positioned, NEW c \in Clients, NEW code \in Nat, NEW time \in Nat,
         answers'[c] = Append(answers[c], <<code, time>>)
  PROVE  /\ Len(answers[c]) \in Nat /\ DOMAIN answers[c] = 1 .. Len(answers[c])
         /\ DOMAIN answers'[c] = DOMAIN answers[c] \cup {Len(answers[c]) + 1}
         /\ \A i \in DOMAIN answers[c] : answers'[c][i] = answers[c][i]
         /\ answers'[c][Len(answers[c]) + 1] = <<code, time>>
<1> DEFINE a == <<code, time>>
           n == Len(answers[c])
<1>1. a \in Nat \X Nat
  OBVIOUS
<1>2. answers[c] \in Codes /\ n \in Nat /\ DOMAIN answers[c] = 1 .. n
  BY LenProperties DEF Positioned, Codes
<1>3. answers'[c] = Append(answers[c], a)
  OBVIOUS
<1> HIDE DEF a, n
<1>4. /\ DOMAIN answers'[c] = 1 .. n + 1
      /\ \A i \in 1 .. n : answers'[c][i] = answers[c][i]
      /\ answers'[c][n + 1] = a
  <2>1. /\ Append(answers[c], a) \in Codes /\ Len(Append(answers[c], a)) = n + 1
        /\ \A i \in 1 .. n : Append(answers[c], a)[i] = answers[c][i]
        /\ Append(answers[c], a)[n + 1] = a
    BY <1>1, <1>2, AppendProperties DEF Codes, n
  <2>2. DOMAIN Append(answers[c], a) = 1 .. n + 1
    BY <2>1, LenProperties DEF Codes
  <2> QED BY <1>3, <2>1, <2>2
<1>5. 1 .. n + 1 = 1 .. n \cup {n + 1}
  BY <1>2
<1> QED BY <1>2, <1>4, <1>5 DEF a, n

\* No wrong guess of this name is answered.
Quiet(c, n) ==
  \/ answers'[c] = answers[c]
  \/ \E code \in Nat, time \in Nat :
       /\ answers'[c] = Append(answers[c], <<code, time>>)
       /\ Request(c).op = "login" /\ Fold(Request(c).name) = n => code # 401

LEMMA NoGuess ==
  ASSUME Positioned, NEW c \in Clients, NEW n, Alone(c), Quiet(c, n), traffic' = traffic
  PROVE  Wrong(n)' = Wrong(n) /\ \A a \in Wrong(n) : When(a)' = When(a)
<1>1. \A d \in Clients \ {c} : answers'[d] = answers[d]
  BY DEF Alone
<1>2. script' = script
  BY DEF script
<1>3. CASE answers'[c] = answers[c]
  <2>1. \A d \in Clients : answers'[d] = answers[d]
    BY <1>1, <1>3
  <2>2. \A a : a \in Wrong(n)' <=> \E d \in Clients : \E i \in DOMAIN answers'[d] :
           /\ a = <<d, i>> /\ script'[d][i].op = "login" /\ Fold(script'[d][i].name) = n
           /\ answers'[d][i][1] = 401
    BY DEF Wrong, LoginsOf
  <2>3. \A a : a \in Wrong(n)' <=> a \in Wrong(n)
    BY <1>2, <2>1, <2>2, WrongMembers
  <2>4. ASSUME NEW a \in Wrong(n) PROVE When(a)' = When(a)
    <3>1. a[1] \in Clients
      BY WrongMembers
    <3> QED BY <2>1, <3>1 DEF When
  <2> QED BY <2>3, <2>4
<1>4. CASE answers'[c] # answers[c]
  <2>1. PICK code \in Nat, time \in Nat :
          /\ answers'[c] = Append(answers[c], <<code, time>>)
          /\ Request(c).op = "login" /\ Fold(Request(c).name) = n => code # 401
    BY <1>4 DEF Quiet
  <2> DEFINE new == Len(answers[c]) + 1
  <2>2. /\ Len(answers[c]) \in Nat /\ DOMAIN answers[c] = 1 .. Len(answers[c])
        /\ DOMAIN answers'[c] = DOMAIN answers[c] \cup {new}
        /\ \A i \in DOMAIN answers[c] : answers'[c][i] = answers[c][i]
        /\ answers'[c][new] = <<code, time>>
    BY <2>1, AnswersGrow
  <2>3. Request(c) = script[c][new]
    BY DEF Request
  <2>4. new \notin DOMAIN answers[c]
    BY <2>2
  <2> HIDE DEF new
  <2>5. \A a : a \in Wrong(n)' <=> \E d \in Clients : \E i \in DOMAIN answers'[d] :
           /\ a = <<d, i>> /\ script[d][i].op = "login" /\ Fold(script[d][i].name) = n
           /\ answers'[d][i][1] = 401
    BY <1>2 DEF Wrong, LoginsOf
  <2>6. ASSUME NEW d \in Clients, NEW i \in DOMAIN answers'[d], script[d][i].op = "login",
               Fold(script[d][i].name) = n, answers'[d][i][1] = 401
        PROVE  i \in DOMAIN answers[d] /\ answers'[d][i] = answers[d][i]
    <3>1. CASE d = c
      <4>1. i # new
        BY <2>1, <2>2, <2>3, <2>6, <3>1
      <4> QED BY <2>2, <3>1, <4>1
    <3>2. CASE d # c
      BY <1>1, <3>2
    <3> QED BY <3>1, <3>2
  <2>7. \A d \in Clients : \A i \in DOMAIN answers[d] : i \in DOMAIN answers'[d] /\ answers'[d][i] = answers[d][i]
    BY <1>1, <2>2
  <2>8. \A a : a \in Wrong(n)' <=> a \in Wrong(n)
    <3>1. ASSUME NEW a, a \in Wrong(n)' PROVE a \in Wrong(n)
      BY <2>5, <2>6, <3>1, WrongMembers
    <3>2. ASSUME NEW a, a \in Wrong(n) PROVE a \in Wrong(n)'
      BY <2>5, <2>7, <3>2, WrongMembers
    <3> QED BY <3>1, <3>2
  <2>9. ASSUME NEW a \in Wrong(n) PROVE When(a)' = When(a)
    BY <2>7, WrongMembers DEF When
  <2> QED BY <2>8, <2>9
<1> QED BY <1>3, <1>4

LEMMA OneGuess ==
  ASSUME Positioned, NEW c \in Clients, Alone(c), traffic' = traffic, NEW time \in Nat,
         answers'[c] = Append(answers[c], <<401, time>>), Request(c).op = "login",
         NEW n, n = Fold(Request(c).name)
  PROVE  \E new : /\ new \notin Wrong(n) /\ Wrong(n)' = Wrong(n) \cup {new} /\ When(new)' = time
                  /\ \A a \in Wrong(n) : When(a)' = When(a)
<1> PICK last : last = Len(answers[c]) + 1
  OBVIOUS
<1> DEFINE new == <<c, last>>
<1>1. \A d \in Clients \ {c} : answers'[d] = answers[d]
  BY DEF Alone
<1>2. script' = script
  BY DEF script
<1>3. /\ Len(answers[c]) \in Nat /\ DOMAIN answers[c] = 1 .. Len(answers[c])
      /\ DOMAIN answers'[c] = DOMAIN answers[c] \cup {last}
      /\ \A i \in DOMAIN answers[c] : answers'[c][i] = answers[c][i]
      /\ answers'[c][last] = <<401, time>>
  BY AnswersGrow
<1>4. Request(c) = script[c][last]
  BY DEF Request
<1>5. last \notin DOMAIN answers[c]
  BY <1>3
<1>6. \A a : a \in Wrong(n)' <=> \E d \in Clients : \E i \in DOMAIN answers'[d] :
         /\ a = <<d, i>> /\ script[d][i].op = "login" /\ Fold(script[d][i].name) = n
         /\ answers'[d][i][1] = 401
  BY <1>2 DEF Wrong, LoginsOf
<1>7. \A d \in Clients : \A i \in DOMAIN answers[d] : i \in DOMAIN answers'[d] /\ answers'[d][i] = answers[d][i]
  BY <1>1, <1>3
<1>8. new \notin Wrong(n)
  BY <1>5, WrongMembers
<1>9. new \in Wrong(n)'
  BY <1>3, <1>4, <1>6
<1>10. ASSUME NEW a \in Wrong(n) PROVE a \in Wrong(n)' /\ When(a)' = When(a)
  <2>1. PICK d \in Clients : \E i \in DOMAIN answers[d] :
           /\ a = <<d, i>> /\ script[d][i].op = "login" /\ Fold(script[d][i].name) = n
           /\ answers[d][i][1] = 401
    BY WrongMembers
  <2> QED BY <1>6, <1>7, <2>1 DEF When
<1>11. ASSUME NEW a, a \in Wrong(n)', a # new PROVE a \in Wrong(n)
  <2>0. PICK d \in Clients : \E i \in DOMAIN answers'[d] :
           /\ a = <<d, i>> /\ script[d][i].op = "login" /\ Fold(script[d][i].name) = n
           /\ answers'[d][i][1] = 401
    BY <1>6, <1>11
  <2>1. PICK i \in DOMAIN answers'[d] :
           /\ a = <<d, i>> /\ script[d][i].op = "login" /\ Fold(script[d][i].name) = n
           /\ answers'[d][i][1] = 401
    BY <2>0
  <2>2. i \in DOMAIN answers[d] /\ answers'[d][i] = answers[d][i]
    <3>1. CASE d = c
      BY <1>3, <1>11, <2>1, <3>1
    <3>2. CASE d # c
      BY <1>1, <3>2
    <3> QED BY <3>1, <3>2
  <2> QED BY <2>1, <2>2, WrongMembers
<1>12. When(new)' = time
  BY <1>3 DEF When
<1> QED BY <1>8, <1>9, <1>10, <1>11, <1>12

-----------------------------------------------------------------------------
(* The count stays                                                         *)

\* Nothing is counted anew, and nobody new is past the gate.
LEMMA CountStays ==
  ASSUME IInv, NEW n, Counted(n), clock' \in Nat, clock' >= clock,
         RecordOf(nameLog', n) = RecordOf(nameLog, n), Positioned',
         Wrong(n)' = Wrong(n), \A a \in Wrong(n) : When(a)' = When(a),
         RecordOf(nameLog, n).until # NoLock => Past(n)' \subseteq Past(n),
         RecordOf(nameLog, n) \in RecordsOf(Usernames)
  PROVE  Counted(n)'
<1> DEFINE r == RecordOf(nameLog, n)
<1>1. clock \in Nat /\ NameLimit \in Nat /\ Others \in Int
  BY FS_CardinalityType, ClientsAreFinite, LimitsAssumption DEF IInv, Surrounded, Planned, Others
<1>2. \A time : Later(n, time)' = Later(n, time)
  BY DEF Later
<1>3. r.until # NoLock => /\ Cardinality(Past(n)') <= Cardinality(Past(n))
                          /\ Cardinality(Past(n)') \in Nat /\ Cardinality(Past(n)) \in Nat
  BY PastIsFinite, FS_Subset, FS_CardinalityType
<1>4. r.failures \in Seq(Nat) /\ Len(r.failures) \in Nat
  BY LenProperties DEF RecordsOf
<1>5. \A time : Cardinality(Later(n, time)) \in Nat
  BY LaterIsFinite DEF IInv
<1> HIDE DEF r
<1>6. /\ \A a \in Wrong(n) : When(a) \in 0 .. clock
      /\ \A time \in Nat : time >= clock =>
              Cardinality(Later(n, time - Window)) <= Count(r.failures, Young(time)) + Others
      /\ r.until = NoLock => Len(r.failures) < NameLimit
      /\ r.until # NoLock => /\ Len(r.failures) + Cardinality(Past(n)) <= NameLimit + Others
                             /\ Cardinality(Later(n, r.until - Lockout)) + Cardinality(Past(n)) <= Others
  BY DEF Counted, r
<1>7. \A a \in Wrong(n)' : When(a)' \in 0 .. clock'
  BY <1>1, <1>6
<1>8. \A time \in Nat : time >= clock' =>
           Cardinality(Later(n, time - Window)) <= Count(r.failures, Young(time)) + Others
  BY <1>1, <1>6
<1>9. r.until # NoLock => /\ Len(r.failures) + Cardinality(Past(n)') <= NameLimit + Others
                          /\ Cardinality(Later(n, r.until - Lockout)) + Cardinality(Past(n)') <= Others
  BY <1>1, <1>3, <1>4, <1>5, <1>6
<1>10. r = RecordOf(nameLog', n) /\ Others' = Others
  BY DEF r, Others
<1> QED BY <1>2, <1>6, <1>7, <1>8, <1>9, <1>10 DEF Counted

\* An expired lockout forgets what was counted before; what is recent of it
\* came from clients that were past the gate.
LEMMA CountClears ==
  ASSUME IInv, NEW n, Counted(n), Clients # {}, Window <= Lockout,
         UNCHANGED <<clock, answers, traffic>>,
         RecordOf(nameLog, n) \in RecordsOf(Usernames),
         RecordOf(nameLog, n).until # NoLock, clock >= RecordOf(nameLog, n).until,
         RecordOf(nameLog', n) = Cleared(RecordOf(nameLog, n), clock)
  PROVE  Counted(n)'
<1> DEFINE r == RecordOf(nameLog, n)
           old == Later(n, r.until - Lockout)
<1>1. /\ clock \in Nat /\ NameLimit \in Nat \ {0} /\ Others \in Nat /\ Window \in Nat /\ Lockout \in Nat
      /\ r.until \in Nat
  <2>1. Cardinality(Clients) \in Nat \ {0}
    BY FS_CardinalityType, FS_EmptySet, ClientsAreFinite
  <2> QED BY <2>1, LimitsAssumption, ThrottleAssumption DEF IInv, Surrounded, Planned, Others, RecordsOf
<1>2. /\ \A a \in Wrong(n) : When(a) \in 0 .. clock
      /\ Cardinality(old) + Cardinality(Past(n)) <= Others
  BY DEF Counted
<1>3. IsFiniteSet(old) /\ Cardinality(old) \in Nat /\ Cardinality(Past(n)) \in Nat
  BY LaterIsFinite, PastIsFinite DEF IInv
<1>4. RecordOf(nameLog', n).failures = <<>> /\ RecordOf(nameLog', n).until = NoLock
  BY DEF Cleared, RecordsOf
<1>5. ASSUME NEW time \in Nat, time >= clock
      PROVE  Cardinality(Later(n, time - Window)) <= Count(<<>>, Young(time)) + Others
  <2>1. \A a \in Wrong(n) : When(a) > time - Window => When(a) > r.until - Lockout
    <3>1. time - Window >= r.until - Lockout
      BY <1>1, <1>5
    <3> QED BY <1>1, <1>2, <3>1
  <2>2. Later(n, time - Window) \in SUBSET old
    BY <2>1 DEF Later
  <2>3. Cardinality(Later(n, time - Window)) <= Cardinality(old)
    BY <1>3, <2>2, FS_Subset
  <2>4. Cardinality(Later(n, time - Window)) \in Nat
    BY <1>3, <2>2, FS_Subset, FS_CardinalityType
  <2>5. <<>> \in Seq(Nat) 
    OBVIOUS
  <2>6. Count(<<>>, Young(time)) \in Nat
    BY <2>5, CountIsNumber
  <2> QED BY <1>1, <1>2, <1>3, <2>3, <2>4, <2>6
<1>6. Wrong(n)' = Wrong(n) /\ (\A a : When(a)' = When(a)) /\ Others' = Others
      /\ (\A time : Later(n, time)' = Later(n, time))
  BY DEF Wrong, LoginsOf, script, When, Later, Others
<1>7. Len(<<>>) < NameLimit
  BY <1>1
<1> HIDE DEF r, old
<1> QED BY <1>2, <1>4, <1>5, <1>6, <1>7 DEF Counted

\* A wrong guess of a client that was past the gate.
LEMMA CountGoesOn ==
  ASSUME IInv, NEW n, Counted(n), NEW c \in Past(n), Past(n)' \subseteq Past(n) \ {c},
         clock' = clock, RecordOf(nameLog, n) \in RecordsOf(Usernames),
         RecordOf(nameLog', n) = Registered(RecordOf(nameLog, n), clock, NameLimit),
         NEW new, new \notin Wrong(n), Wrong(n)' = Wrong(n) \cup {new}, When(new)' = clock,
         \A a \in Wrong(n) : When(a)' = When(a)
  PROVE  Counted(n)'
<1> DEFINE r == RecordOf(nameLog, n)
           s == Registered(r, clock, NameLimit)
           l == Len(r.failures)
           m == Len(s.failures)
           p == Cardinality(Past(n))
           q == Cardinality(Past(n)')
<1>1. /\ clock \in Nat /\ NameLimit \in Nat \ {0} /\ Others \in Nat
      /\ Window \in Nat \ {0} /\ Lockout \in Nat \ {0}
      /\ r.until \in Nat
  <2>1. Cardinality(Clients) \in Nat \ {0}
    BY FS_CardinalityType, FS_EmptySet, ClientsAreFinite DEF Past
  <2> QED BY <2>1, LimitsAssumption, ThrottleAssumption DEF IInv, Surrounded, Planned, Others, RecordsOf
<1>2. p \in Nat /\ q \in Nat /\ q <= p - 1 /\ q <= Others
  <2>1. IsFiniteSet(Past(n)) /\ p \in Nat
    BY PastIsFinite
  <2>2. IsFiniteSet(Past(n) \ {c}) /\ Cardinality(Past(n) \ {c}) = p - 1
    BY <2>1, FS_RemoveElement
  <2>3. IsFiniteSet(Past(n)') /\ q <= p - 1
    BY <2>2, FS_Subset
  <2>4. IsFiniteSet(Clients \ {c}) /\ Cardinality(Clients \ {c}) = Others
    BY ClientsAreFinite, FS_RemoveElement DEF Past, Others
  <2>5. Past(n)' \in SUBSET (Clients \ {c})
    BY DEF Past
  <2>6. q <= Others
    BY <2>4, <2>5, FS_Subset
  <2> QED BY <2>1, <2>3, <2>6, FS_CardinalityType
<1>3. /\ s \in RecordsOf(Usernames) /\ m <= l + 1 /\ l \in Nat /\ m \in Nat
      /\ \A G : Count(s.failures, G) =
           IF clock \in G THEN Count(r.failures, Young(clock) \cap G) + 1
                        ELSE Count(r.failures, Young(clock) \cap G)
  <2>1. r \in RecordsOf(Usernames) /\ clock \in Nat
    BY <1>1
  <2> HIDE DEF r
  <2>2. s \in RecordsOf(Usernames) /\ m <= l + 1
    BY <2>1, RegisteredFacts
  <2>3. ASSUME NEW G
        PROVE  Count(s.failures, G) =
           IF clock \in G THEN Count(r.failures, Young(clock) \cap G) + 1
                        ELSE Count(r.failures, Young(clock) \cap G)
    <3>1. PICK K : K = Usernames
      OBVIOUS
    <3>2. PICK now \in Nat : now = clock
      BY <2>1
    <3>3. PICK x \in RecordsOf(K) : x = r
      BY <2>1, <3>1
    <3>4. PICK young : young = Young(now) \cap G
      OBVIOUS
    <3>5. Count(Registered(x, now, NameLimit).failures, G) =
            IF now \in G THEN Count(x.failures, young) + 1 ELSE Count(x.failures, young)
      BY <3>4, RegisteredCount, Z3
    <3> QED BY <3>2, <3>3, <3>4, <3>5
  <2> HIDE DEF s
  <2>4. r.failures \in Seq(Nat) /\ s.failures \in Seq(Nat)
    BY <2>1, <2>2 DEF RecordsOf
  <2> QED BY <2>2, <2>3, <2>4, LenProperties
<1>4. s.until = IF m >= NameLimit THEN clock + Lockout ELSE r.until
  BY DEF Registered
<1>5. /\ \A a \in Wrong(n) : When(a) \in 0 .. clock
      /\ \A time \in Nat : time >= clock =>
              Cardinality(Later(n, time - Window)) <= Count(r.failures, Young(time)) + Others
      /\ r.until = NoLock => l < NameLimit
      /\ r.until # NoLock => l + p <= NameLimit + Others /\ Cardinality(Later(n, r.until - Lockout)) + p <= Others
  BY DEF Counted
<1>6. ASSUME NEW time
      PROVE  /\ Later(n, time) \in SUBSET Wrong(n)
             /\ IsFiniteSet(Later(n, time)) /\ Cardinality(Later(n, time)) \in Nat
             /\ Later(n, time)' = IF clock > time THEN Later(n, time) \cup {new} ELSE Later(n, time)
  BY LaterIsFinite DEF Later, IInv
<1>7. \A time : Cardinality(Later(n, time)') =
        IF clock > time THEN Cardinality(Later(n, time)) + 1 ELSE Cardinality(Later(n, time))
  <2>1. ASSUME NEW time PROVE Cardinality(Later(n, time) \cup {new}) = Cardinality(Later(n, time)) + 1
    BY <1>6, FS_AddElement
  <2> QED BY <1>6, <2>1
<1>8. RecordOf(nameLog', n) = s /\ Others' = Others
  BY DEF Others
<1>9. r.failures \in Seq(Nat)
  BY DEF RecordsOf
<1> HIDE DEF r, s, l, m, p, q
<1>10. \A a \in Wrong(n)' : When(a)' \in 0 .. clock
  BY <1>1, <1>5
<1>11. ASSUME NEW time \in Nat, time >= clock
       PROVE  Cardinality(Later(n, time - Window)') <= Count(s.failures, Young(time)) + Others
  <2>1. Young(clock) \cap Young(time) = Young(time)
    BY <1>1, <1>11 DEF Young
  <2>2. clock \in Young(time) <=> clock > time - Window
    BY <1>1 DEF Young
  <2>3. Count(r.failures, Young(time)) \in Nat
    BY <1>9, CountIsNumber
  <2>4. Cardinality(Later(n, time - Window)) <= Count(r.failures, Young(time)) + Others
    BY <1>5, <1>11
  <2>5. Cardinality(Later(n, time - Window)) \in Nat
    BY <1>6
  <2>6. CASE clock \in Young(time)
    <3>1. Count(s.failures, Young(time)) = Count(r.failures, Young(time)) + 1
      BY <1>3, <2>1, <2>6
    <3>2. Cardinality(Later(n, time - Window)') = Cardinality(Later(n, time - Window)) + 1
      BY <1>7, <2>2, <2>6
    <3> QED BY <1>1, <2>3, <2>4, <2>5, <3>1, <3>2
  <2>7. CASE clock \notin Young(time)
    <3>1. Count(s.failures, Young(time)) = Count(r.failures, Young(time))
      BY <1>3, <2>1, <2>7
    <3>2. Cardinality(Later(n, time - Window)') = Cardinality(Later(n, time - Window))
      BY <1>7, <2>2, <2>7
    <3> QED BY <2>4, <3>1, <3>2
  <2> QED BY <2>6, <2>7
<1>12. s.until = NoLock => m < NameLimit
  BY <1>1, <1>3, <1>4 DEF NoLock
<1>13. s.until # NoLock => m + q <= NameLimit + Others
  <2>1. CASE r.until = NoLock
    BY <1>1, <1>2, <1>3, <1>5, <2>1
  <2>2. CASE r.until # NoLock
    BY <1>1, <1>2, <1>3, <1>5, <2>2
  <2> QED BY <2>1, <2>2
<1>14. ASSUME NEW time, time = s.until - Lockout, s.until # NoLock
       PROVE  Cardinality(Later(n, time)') + q <= Others
  <2>1. CASE m >= NameLimit
    <3>1. time = clock
      BY <1>1, <1>4, <1>14, <2>1
    <3>2. Later(n, time) = {}
      BY <1>1, <1>5, <3>1 DEF Later
    <3>3. Cardinality(Later(n, time)') = 0
      <4>1. Cardinality(Later(n, time)) = 0 /\ ~ clock > time
        BY <1>1, <3>1, <3>2, FS_EmptySet
      <4> QED BY <1>7, <4>1
    <3> QED BY <1>1, <1>2, <3>3
  <2>2. CASE m < NameLimit
    <3>1. time = r.until - Lockout /\ r.until # NoLock
      BY <1>1, <1>3, <1>4, <1>14, <2>2
    <3>2. Cardinality(Later(n, time)) \in Nat
      BY <1>6
    <3>3. Cardinality(Later(n, time)') \in Nat /\ Cardinality(Later(n, time)') <= Cardinality(Later(n, time)) + 1
      BY <1>7, <3>2
    <3> QED BY <1>1, <1>2, <1>5, <3>1, <3>2, <3>3
  <2> QED BY <1>1, <1>3, <2>1, <2>2
<1>15. PICK until : until = s.until
  OBVIOUS
<1>16. until # NoLock => Cardinality(Later(n, until - Lockout)') + q <= Others
  BY <1>14, <1>15
<1>17. /\ RecordOf(nameLog', n).until = until /\ RecordOf(nameLog', n).failures = s.failures
       /\ Len(s.failures) = m /\ Cardinality(Past(n)') = q
  BY <1>8, <1>15 DEF m, q
<1>18. /\ \A time \in Nat : time >= clock' =>
            Cardinality(Later(n, time - Window)') <= Count(RecordOf(nameLog', n).failures, Young(time)) + Others'
       /\ \A a \in Wrong(n)' : When(a)' \in 0 .. clock'
  BY <1>8, <1>10, <1>11
<1>19. /\ until = NoLock => m < NameLimit
       /\ until # NoLock => m + q <= NameLimit + Others'
       /\ until # NoLock => Cardinality(Later(n, until - Lockout)') + q <= Others'
  BY <1>8, <1>12, <1>13, <1>15, <1>16
<1> QED BY <1>17, <1>18, <1>19 DEF Counted

-----------------------------------------------------------------------------
(* What each step does to the guesses                                      *)

\* Steps that leave the map of names and whoever is past the gate alone.
LEMMA PlainSteps ==
  ASSUME IInv, NEW c \in Clients, Serve(c), LoginsServeLogins, NEW n,
         ~ LoginGate(c), ~ RecordFailure(c), ~ RecordSuccess(c)
  PROVE  /\ nameLog' = nameLog /\ Quiet(c, n)
         /\ pc'[c] \in Passed => pc[c] \in Passed
         /\ pc'[c] # "login_open" /\ (pc[c] = "login_open" => BeginSession(c))
<1> USE DEF tables, server, throttle
<1>1. nameLog' = nameLog
  BY DEF Serve, SetupCheck, SetupVerify, SetupInsert, SetupClear, LoginVerify,
     BeginSession, Admit, Logout, CreateUser, FindUser, UpdateUser,
     SweepSessions, DeleteUser, CreateKey, FindKey, UpdateKey, RevokeKey
<1>a. ASSUME NEW code \in Nat, Answer(c, code), Request(c).op # "login" \/ code # 401
      PROVE  Quiet(c, n) /\ pc'[c] = "idle"
  BY <1>a, AnswerIsAlone DEF Answer, IInv, Quiet
<1>g. ASSUME NEW step \in Steps \ {"idle"}, Goto(c, step), UNCHANGED held \/ \E what : Keeping(c, what)
      PROVE  Quiet(c, n) /\ pc'[c] = step
  BY <1>g, GoingIsAlone DEF IInv, Quiet
<1> USE DEF Passed, Steps
<1> DEFINE Plain == /\ Quiet(c, n) /\ (pc'[c] \in Passed => pc[c] \in Passed)
                    /\ pc'[c] # "login_open" /\ (pc[c] = "login_open" => BeginSession(c))
<1>2. CASE SetupCheck(c)
  BY <1>2, <1>a, <1>g DEF SetupCheck, Waiting
<1>3. CASE SetupVerify(c)
  BY <1>3, <1>a, <1>g DEF SetupVerify, At
<1>4. CASE SetupInsert(c)
  BY <1>4, <1>a, <1>g DEF SetupInsert, At
<1>5. CASE SetupClear(c)
  BY <1>5, <1>a DEF SetupClear, At
<1>6. CASE LoginVerify(c)
  BY <1>6, <1>g DEF LoginVerify, At
<1>7. CASE BeginSession(c)
  BY <1>7, <1>a DEF BeginSession
<1>8. CASE Admit(c)
  BY <1>8, <1>a, <1>g DEF Admit, Waiting, AdminOps, KeyOps
<1>9. CASE Logout(c)
  BY <1>9, <1>a DEF Logout, Doing
<1>10. CASE CreateUser(c)
  BY <1>10, <1>a DEF CreateUser, Doing
<1>11. CASE FindUser(c)
  BY <1>11, <1>a, <1>g DEF FindUser, Doing
<1>12. CASE UpdateUser(c)
  BY <1>12, <1>a, <1>g DEF UpdateUser, At
<1>13. CASE SweepSessions(c)
  BY <1>13, <1>a DEF SweepSessions, At
<1>14. CASE DeleteUser(c)
  BY <1>14, <1>a DEF DeleteUser, At
<1>15. CASE CreateKey(c)
  BY <1>15, <1>a DEF CreateKey, Doing
<1>16. CASE FindKey(c)
  BY <1>16, <1>a, <1>g DEF FindKey, Doing
<1>17. CASE UpdateKey(c)
  BY <1>17, <1>a DEF UpdateKey, At
<1>18. CASE RevokeKey(c)
  BY <1>18, <1>a DEF RevokeKey, At
<1> HIDE DEF Plain
<1>19. Plain
  BY <1>2, <1>3, <1>4, <1>5, <1>6, <1>7, <1>8, <1>9, <1>10, <1>11, <1>12, <1>13, <1>14, <1>15,
     <1>16, <1>17, <1>18 DEF Serve, Plain
<1> QED BY <1>1, <1>19 DEF Plain

LEMMA AnswersStay ==
  ASSUME Positioned, NEW c \in Clients, Alone(c), Ends(c) \/ Goes(c),
         NEW d \in Clients, NEW i \in DOMAIN answers[d]
  PROVE  i \in DOMAIN answers'[d] /\ answers'[d][i] = answers[d][i]
<1>1. CASE d = c /\ Ends(c)
  <2>1. PICK code \in Nat, time \in Nat : answers'[c] = Append(answers[c], <<code, time>>)
    BY <1>1 DEF Ends
  <2> QED BY <1>1, <2>1, AnswersGrow
<1> QED BY <1>1 DEF Alone, Goes

\* A handler that is past the gate is a login's.
LEMMA LoginsGoOn ==
  ASSUME IInv, NEW c \in Clients, Serve(c), LoginsServeLogins
  PROVE  LoginsServeLogins'
<1>1. Alone(c) /\ (Ends(c) \/ Goes(c)) /\ traffic' = traffic /\ Positioned
  BY Frame DEF IInv, Surrounded, Planned
<1>2. ASSUME pc'[c] \in Passed \cup {"login_open"} PROVE Request(c)' = Request(c) /\ Request(c).op = "login"
  <2>1. Request(c)' = Request(c)
    BY <1>1, <1>2, RequestStays DEF Passed
  <2>2. CASE LoginGate(c)
    BY <2>1, <2>2 DEF LoginGate, Waiting
  <2>3. CASE RecordFailure(c)
    BY <1>1, <1>2, <2>3, AnswerIsAlone DEF RecordFailure, Passed
  <2>4. CASE RecordSuccess(c)
    BY <2>1, <2>4 DEF RecordSuccess, At, LoginsServeLogins, Passed
  <2>5. CASE ~ (LoginGate(c) \/ RecordFailure(c) \/ RecordSuccess(c))
    <3>1. pc[c] \in Passed
      BY <1>2, <2>5, PlainSteps
    <3> QED BY <2>1, <3>1 DEF LoginsServeLogins
  <2> QED BY <2>2, <2>3, <2>4, <2>5
<1>3. ASSUME NEW d \in Clients \ {c} PROVE Request(d)' = Request(d) /\ pc'[d] = pc[d]
  BY <1>1, RequestStays
<1>4. ASSUME NEW d \in Clients, pc'[d] \in Passed \cup {"login_open"} PROVE Request(d)'.op = "login"
  BY <1>2, <1>3, <1>4 DEF LoginsServeLogins
<1> QED BY <1>4 DEF LoginsServeLogins

LEMMA SuccessMembers ==
  ASSUME NEW n
  PROVE  Succeeded(n) <=>
           \/ \E d \in Clients : \E i \in DOMAIN answers[d] :
                /\ script[d][i].op = "login" /\ Fold(script[d][i].name) = n
                /\ answers[d][i][1] \in {200, 403, 500}
           \/ \E d \in Clients : pc[d] = "login_open" /\ Fold(Request(d).name) = n
<1>1. \A a : a \in LoginsOf(n) <=> \E d \in Clients : \E i \in DOMAIN answers[d] :
        a = <<d, i>> /\ script[d][i].op = "login" /\ Fold(script[d][i].name) = n
  BY DEF LoginsOf
<1>2. (\E a \in LoginsOf(n) : answers[a[1]][a[2]][1] \in {200, 403, 500}) <=>
        \E d \in Clients : \E i \in DOMAIN answers[d] :
          /\ script[d][i].op = "login" /\ Fold(script[d][i].name) = n
          /\ answers[d][i][1] \in {200, 403, 500}
  <2>1. ASSUME NEW a \in LoginsOf(n), answers[a[1]][a[2]][1] \in {200, 403, 500}
        PROVE  \E d \in Clients : \E i \in DOMAIN answers[d] :
                 /\ script[d][i].op = "login" /\ Fold(script[d][i].name) = n
                 /\ answers[d][i][1] \in {200, 403, 500}
    <3>1. PICK d \in Clients : \E i \in DOMAIN answers[d] :
            a = <<d, i>> /\ script[d][i].op = "login" /\ Fold(script[d][i].name) = n
      BY <1>1, <2>1
    <3> QED BY <2>1, <3>1
  <2>2. ASSUME NEW d \in Clients, NEW i \in DOMAIN answers[d],
               script[d][i].op = "login", Fold(script[d][i].name) = n, answers[d][i][1] \in {200, 403, 500}
        PROVE  \E a \in LoginsOf(n) : answers[a[1]][a[2]][1] \in {200, 403, 500}
    <3>1. <<d, i>> \in LoginsOf(n)
      BY <1>1, <2>2
    <3> QED BY <2>2, <3>1
  <2> QED BY <2>1, <2>2
<1> QED BY <1>2 DEF Succeeded

LEMMA SuccessNext ==
  ASSUME NEW n, NEW d \in Clients, NEW i \in DOMAIN answers'[d],
         script'[d][i].op = "login", Fold(script'[d][i].name) = n, answers'[d][i][1] \in {200, 403, 500}
  PROVE  Succeeded(n)'
<1>1. \A a : a \in LoginsOf(n)' <=> \E e \in Clients : \E j \in DOMAIN answers'[e] :
        a = <<e, j>> /\ script'[e][j].op = "login" /\ Fold(script'[e][j].name) = n
  BY DEF LoginsOf
<1>2. <<d, i>> \in LoginsOf(n)'
  BY <1>1
<1> PICK a : a = <<d, i>>
  OBVIOUS
<1>3. a \in LoginsOf(n)' /\ answers'[a[1]][a[2]][1] \in {200, 403, 500}
  BY <1>2
<1>4. \E b \in LoginsOf(n)' : answers'[b[1]][b[2]][1] \in {200, 403, 500}
  BY <1>3
<1> QED BY <1>4 DEF Succeeded

\* The answer that says so counts as a success from then on.
LEMMA AnsweredSuccess ==
  ASSUME IInv, NEW c \in Clients, NEW n, NEW code \in {200, 403, 500}, NEW time \in Nat,
         answers'[c] = Append(answers[c], <<code, time>>), traffic' = traffic,
         Request(c).op = "login", Fold(Request(c).name) = n
  PROVE  Succeeded(n)'
<1> PICK i : i = Len(answers[c]) + 1
  OBVIOUS
<1>1. i \in DOMAIN answers'[c] /\ answers'[c][i] = <<code, time>>
  BY AnswersGrow DEF IInv
<1>2. script'[c][i] = Request(c)
  BY DEF Request, script
<1>3. /\ script'[c][i].op = "login" /\ Fold(script'[c][i].name) = n
      /\ answers'[c][i][1] \in {200, 403, 500}
  BY <1>1, <1>2
<1> QED BY <1>1, <1>3, SuccessNext

\* A success is not forgotten.
LEMMA SuccessStays ==
  ASSUME IInv, NEW c \in Clients, Serve(c), LoginsServeLogins, NEW n, Succeeded(n)
  PROVE  Succeeded(n)'
<1>1. Alone(c) /\ (Ends(c) \/ Goes(c)) /\ traffic' = traffic /\ Positioned
  BY Frame DEF IInv, Surrounded, Planned
<1>2. script' = script
  BY <1>1 DEF script
<1>3. ASSUME NEW d \in Clients, NEW i \in DOMAIN answers[d], script[d][i].op = "login",
             Fold(script[d][i].name) = n, answers[d][i][1] \in {200, 403, 500}
      PROVE  Succeeded(n)'
  <2>1. i \in DOMAIN answers'[d] /\ answers'[d][i] = answers[d][i]
    BY <1>1, <1>3, AnswersStay
  <2> QED BY <1>2, <1>3, <2>1, SuccessNext
<1>4. ASSUME NEW d \in Clients \ {c}, pc[d] = "login_open", Fold(Request(d).name) = n
      PROVE  Succeeded(n)'
  <2>1. Request(d)' = Request(d) /\ pc'[d] = pc[d]
    BY <1>1, RequestStays
  <2>2. \E e \in Clients : pc'[e] = "login_open" /\ Fold(Request(e)'.name) = n
    BY <1>4, <2>1
  <2> QED BY <2>2 DEF Succeeded
<1>5. ASSUME pc[c] = "login_open", Fold(Request(c).name) = n
      PROVE  Succeeded(n)'
  <2>1. BeginSession(c)
    BY <1>5, PlainSteps DEF LoginGate, RecordFailure, RecordSuccess, Waiting, At
  <2>2. PICK code \in {200, 500} : Answer(c, code)
    BY <2>1 DEF BeginSession
  <2>3. answers'[c] = Append(answers[c], <<code, 0>>)
    BY <1>1, <2>2, AnswerIsAlone DEF Answer
  <2>4. Request(c).op = "login"
    BY <1>5 DEF LoginsServeLogins
  <2> QED BY <1>1, <1>5, <2>3, <2>4, AnsweredSuccess
<1> QED BY <1>3, <1>4, <1>5, SuccessMembers

\* Nobody gets past the gate but at the gate.
LEMMA PastStays ==
  ASSUME IInv, NEW c \in Clients, Serve(c), NEW n, pc'[c] \in Passed => c \in Past(n) \/ Fold(Request(c).name) # n
  PROVE  Past(n)' \subseteq Past(n)
<1>1. Alone(c) /\ (Ends(c) \/ Goes(c)) /\ traffic' = traffic /\ Positioned
  BY Frame DEF IInv, Surrounded, Planned
<1>2. ASSUME NEW d \in Clients, pc'[d] \in Passed, Fold(Request(d)'.name) = n
      PROVE  d \in Past(n)
  <2>1. Request(d)' = Request(d) /\ (d # c => pc'[d] = pc[d])
    BY <1>1, <1>2, RequestStays DEF Passed
  <2> QED BY <1>2, <2>1 DEF Past
<1> QED BY <1>2 DEF Past

LEMMA NamesStay == ASSUME traffic' = traffic PROVE Usernames' = Usernames /\ Roomy' = Roomy
<1>1. Usernames' = Usernames
  BY DEF Usernames, script
<1> QED BY <1>1 DEF Roomy

\* It is enough to look at the names that are still counted.
LEMMA NameByName ==
  ASSUME IInv, NEW c \in Clients, Serve(c), Guessing, IsMap(nameLog', Usernames),
         \A n \in Usernames : Counted(n) => Succeeded(n)' \/ Counted(n)'
  PROVE  Guessing'
<1>1. traffic' = traffic /\ restarts' = restarts
  BY Frame DEF IInv, Surrounded, Planned
<1>2. Usernames' = Usernames
  BY <1>1, NamesStay
<1>3. LoginsServeLogins'
  BY LoginsGoOn DEF Guessing
<1>4. ASSUME NEW n \in Usernames PROVE Succeeded(n)' \/ restarts' > 0 \/ Counted(n)'
  BY <1>1, SuccessStays DEF Guessing
<1> QED BY <1>2, <1>3, <1>4 DEF Guessing

LEMMA QuietCount ==
  ASSUME IInv, NEW c \in Clients, Serve(c), Guessing, NEW n \in Usernames, Counted(n), Quiet(c, n),
         RecordOf(nameLog', n) = RecordOf(nameLog, n),
         RecordOf(nameLog, n).until # NoLock => Past(n)' \subseteq Past(n)
  PROVE  Counted(n)'
<1>1. Alone(c) /\ traffic' = traffic /\ clock' = clock /\ clock \in Nat /\ Positioned
  BY Frame DEF IInv, Surrounded, Planned
<1>2. Wrong(n)' = Wrong(n) /\ \A a \in Wrong(n) : When(a)' = When(a)
  BY <1>1, NoGuess
<1>3. Positioned'
  BY ServeNext DEF IInv
<1>4. RecordOf(nameLog, n) \in RecordsOf(Usernames)
  BY RecordIsTyped DEF Guessing
<1>5. clock' \in Nat /\ clock' >= clock
  BY <1>1
<1> QED BY <1>2, <1>3, <1>4, <1>5, CountStays

LEMMA PlainCounts ==
  ASSUME IInv, NEW c \in Clients, Serve(c), Guessing,
         ~ LoginGate(c), ~ RecordFailure(c), ~ RecordSuccess(c)
  PROVE  Guessing'
<1>1. nameLog' = nameLog
  BY PlainSteps DEF Guessing
<1>2. IsMap(nameLog', Usernames)
  BY <1>1 DEF Guessing
<1>3. ASSUME NEW n \in Usernames, Counted(n) PROVE Counted(n)'
  <2>1. Quiet(c, n) /\ (pc'[c] \in Passed => pc[c] \in Passed)
    BY PlainSteps DEF Guessing
  <2>2. Past(n)' \subseteq Past(n)
    BY <2>1, PastStays DEF Past
  <2> QED BY <1>1, <1>3, <2>1, <2>2, QuietCount
<1> QED BY <1>2, <1>3, NameByName

LEMMA SuccessCounts ==
  ASSUME IInv, NEW c \in Clients, Serve(c), Guessing, RecordSuccess(c)
  PROVE  Guessing'
<1> PICK key : key = Fold(Request(c).name)
  OBVIOUS
<1>1. pc[c] = "login_verified" /\ nameLog' = Forget(nameLog, key)
  BY DEF RecordSuccess, At
<1>2. Alone(c) /\ traffic' = traffic /\ Positioned
  BY Frame DEF IInv, Surrounded, Planned
<1>3. Request(c).op = "login"
  BY <1>1 DEF Guessing, LoginsServeLogins, Passed
<1>4. /\ IsMap(nameLog', Usernames)
      /\ \A n \in Usernames \ {key} : RecordOf(nameLog', n) = RecordOf(nameLog, n)
  <2> QED BY <1>1, ForgetRecords DEF Guessing
<1>5. \/ pc'[c] = "idle" /\ answers'[c] = Append(answers[c], <<403, 0>>)
      \/ pc'[c] = "login_open" /\ answers'[c] = answers[c] /\ Request(c)' = Request(c)
  <2>1. CASE Answer(c, 403)
    BY <1>2, <2>1, AnswerIsAlone DEF Answer
  <2>2. CASE Goto(c, "login_open") /\ UNCHANGED held
    <3>1. pc'[c] = "login_open" /\ answers'[c] = answers[c]
      BY <1>2, <2>2, GoingIsAlone DEF Steps
    <3> QED BY <1>2, <3>1 DEF Request, script
  <2> QED BY <2>1, <2>2 DEF RecordSuccess
<1>6. Succeeded(key)'
  <2>1. CASE answers'[c] = Append(answers[c], <<403, 0>>)
    BY <1>2, <1>3, <2>1, AnsweredSuccess
  <2>2. CASE pc'[c] = "login_open" /\ Request(c)' = Request(c)
    BY <2>2 DEF Succeeded
  <2> QED BY <1>5, <2>1, <2>2
<1>7. ASSUME NEW n \in Usernames, n # key, Counted(n) PROVE Counted(n)'
  <2>1. Quiet(c, n)
    <3>1. 403 \in Nat /\ 0 \in Nat /\ 403 # 401
      OBVIOUS
    <3> QED BY <1>5, <3>1 DEF Quiet
  <2>2. Past(n)' \subseteq Past(n)
    BY <1>5, PastStays DEF Passed
  <2> QED BY <1>4, <1>7, <2>1, <2>2, QuietCount
<1> QED BY <1>4, <1>6, <1>7, NameByName

LEMMA FailureCounts ==
  ASSUME IInv, Roomy, NEW c \in Clients, Serve(c), Guessing, RecordFailure(c)
  PROVE  Guessing'
<1> PICK key : key = Fold(Request(c).name)
  OBVIOUS
<1>1. /\ pc[c] = "login_failed" /\ nameLog' = Register(nameLog, key, clock, NameLimit)
      /\ AnswerAt(c, 401, clock)
  BY DEF RecordFailure, At
<1>2. /\ Alone(c) /\ (Ends(c) \/ Goes(c)) /\ traffic' = traffic /\ clock' = clock /\ clock \in Nat
      /\ Planned /\ Positioned
  BY Frame DEF IInv, Surrounded, Planned
<1>3. Request(c).op = "login" /\ More(c)
  BY <1>1, AtWork DEF Guessing, LoginsServeLogins, Passed, IInv
<1>4. pc'[c] = "idle" /\ answers'[c] = Append(answers[c], <<401, clock>>)
  BY <1>1, <1>2, AnswerIsAlone
<1>5. key \in Usernames /\ IsFiniteSet(Usernames)
  BY <1>2, <1>3, NameServed, NamesAreFinite
<1>6. IsMap(nameLog, Usernames) /\ Cardinality(Usernames) <= MaxTracked
  BY DEF Guessing, Roomy
<1>7. /\ IsMap(nameLog', Usernames)
      /\ RecordOf(nameLog', key) = Registered(RecordOf(nameLog, key), clock, NameLimit)
      /\ \A n \in Usernames \ {key} : RecordOf(nameLog', n) = RecordOf(nameLog, n)
  <2>1. PICK now \in Nat : now = clock
    BY <1>2
  <2>2. nameLog' = Register(nameLog, key, now, NameLimit)
    BY <1>1, <2>1
  <2> QED BY <1>5, <1>6, <2>1, <2>2, RegisterRecords
<1>8. ASSUME NEW n \in Usernames, n # key, Counted(n) PROVE Counted(n)'
  <2>1. Quiet(c, n)
    <3>1. PICK now \in Nat : now = clock
      BY <1>2
    <3>2. 401 \in Nat /\ answers'[c] = Append(answers[c], <<401, now>>) /\ Fold(Request(c).name) # n
      BY <1>4, <1>8, <3>1
    <3> QED BY <3>2 DEF Quiet
  <2>2. Past(n)' \subseteq Past(n)
    BY <1>4, PastStays DEF Passed
  <2> QED BY <1>7, <1>8, <2>1, <2>2, QuietCount
<1>9. ASSUME Counted(key) PROVE Counted(key)'
  <2>1. key \in Usernames /\ RecordOf(nameLog, key) \in RecordsOf(Usernames)
    BY <1>5, <1>6, RecordIsTyped
  <2>2. c \in Past(key)
    BY <1>1 DEF Past, Passed
  <2>3. Past(key)' \subseteq Past(key) \ {c}
    <3>1. Past(key)' \subseteq Past(key)
      BY <1>4, PastStays DEF Passed
    <3>2. c \notin Past(key)'
      BY <1>4 DEF Past, Passed
    <3> QED BY <3>1, <3>2
  <2>4. PICK now \in Nat : now = clock
    BY <1>2
  <2>5. PICK new : /\ new \notin Wrong(key) /\ Wrong(key)' = Wrong(key) \cup {new} /\ When(new)' = now
                   /\ \A a \in Wrong(key) : When(a)' = When(a)
    BY <1>2, <1>3, <1>4, <2>4, OneGuess
  <2>6. RecordOf(nameLog', key) = Registered(RecordOf(nameLog, key), clock, NameLimit) /\ Counted(key)
    BY <1>7, <1>9
  <2> QED BY <1>2, <2>1, <2>2, <2>3, <2>4, <2>5, <2>6, CountGoesOn
<1>10. ASSUME NEW n \in Usernames, Counted(n) PROVE Counted(n)'
  BY <1>8, <1>9, <1>10
<1> QED BY <1>7, <1>10, NameByName

LEMMA GateCounts ==
  ASSUME IInv, Roomy, NEW c \in Clients, Serve(c), Guessing, LoginGate(c)
  PROVE  Guessing'
<1> PICK key : key = Fold(Request(c).name)
  OBVIOUS
<1> PICK now : now = clock
  OBVIOUS
<1> DEFINE blocked == IsLocked(pairLog, AttemptKey(Request(c)), clock)
           r == RecordOf(nameLog, key)
<1>1. /\ pc[c] = "idle" /\ Request(c).op = "login"
      /\ nameLog' = IF blocked THEN nameLog ELSE Asked(nameLog, key, now)
      /\ \/ /\ blocked \/ IsLocked(nameLog, key, now)
            /\ Answer(c, 429)
         \/ /\ ~ blocked /\ ~ IsLocked(nameLog, key, now)
            /\ Goto(c, "login_verify") /\ UNCHANGED held
  BY DEF LoginGate, Waiting, Locked
<1>2. /\ Alone(c) /\ traffic' = traffic /\ clock' = clock /\ now \in Nat /\ Planned /\ Positioned
  BY Frame DEF IInv, Surrounded, Planned
<1>3. key \in Usernames
  BY <1>1, <1>2, AtWork, NameServed
<1>4. IsMap(nameLog, Usernames) /\ r \in RecordsOf(Usernames)
  BY <1>3, RecordIsTyped DEF Guessing
<1>5. /\ IsMap(nameLog', Usernames)
      /\ RecordOf(nameLog', key) = IF blocked THEN r ELSE Cleared(r, now)
      /\ \A n \in Usernames \ {key} : RecordOf(nameLog', n) = RecordOf(nameLog, n)
  <2> HIDE DEF blocked
  <2> QED BY <1>1, <1>3, <1>4, AskedRecords
<1>6. IsLocked(nameLog, key, now) <=> r.until # NoLock /\ now < r.until
  BY DEF IsLocked
<1>7. \A n : Quiet(c, n)
  <2>1. CASE Answer(c, 429)
    <3>1. 429 \in Nat /\ 0 \in Nat /\ 429 # 401 /\ answers'[c] = Append(answers[c], <<429, 0>>)
      BY <1>2, <2>1, AnswerIsAlone DEF Answer
    <3> QED BY <3>1 DEF Quiet
  <2>2. CASE Goto(c, "login_verify")
    BY <2>2 DEF Goto, Quiet
  <2> QED BY <1>1, <2>1, <2>2
<1>8. ASSUME NEW n \in Usernames, n # key PROVE Past(n)' \subseteq Past(n)
  BY <1>8, PastStays
<1>9. ASSUME Answer(c, 429) PROVE Past(key)' \subseteq Past(key)
  <2>1. pc'[c] = "idle"
    BY <1>2, <1>9, AnswerIsAlone DEF Answer
  <2> QED BY <2>1, PastStays DEF Passed
<1> HIDE DEF blocked
<1>10. r.until \in Nat
  BY <1>4 DEF RecordsOf
<1>11. ASSUME Counted(key) PROVE Counted(key)'
  <2>1. CASE r.until = NoLock \/ blocked \/ now < r.until
    <3>1. RecordOf(nameLog', key) = r
      BY <1>2, <1>5, <1>10, <2>1 DEF Cleared
    <3>2. r.until # NoLock => Past(key)' \subseteq Past(key)
      BY <1>1, <1>6, <1>9, <2>1
    <3> QED BY <1>3, <1>7, <1>11, <3>1, <3>2, QuietCount
  <2>2. CASE r.until # NoLock /\ ~ blocked /\ ~ now < r.until
    <3>1. clock >= r.until /\ RecordOf(nameLog', key) = Cleared(r, clock)
      BY <1>2, <1>5, <1>10, <2>2
    <3>2. UNCHANGED <<clock, answers, traffic>>
      BY <1>1, <1>2, <1>6, <2>2 DEF Goto
    <3>3. Clients # {} /\ Window <= Lockout
      BY DEF Roomy
    <3> QED BY <1>4, <1>11, <2>2, <3>1, <3>2, <3>3, CountClears
  <2> QED BY <2>1, <2>2
<1>12. ASSUME NEW n \in Usernames, n # key, Counted(n) PROVE Counted(n)'
  BY <1>5, <1>7, <1>8, <1>12, QuietCount
<1>13. ASSUME NEW n \in Usernames, Counted(n) PROVE Counted(n)'
  BY <1>11, <1>12, <1>13
<1> QED BY <1>5, <1>13, NameByName

LEMMA TickCounts ==
  ASSUME IInv, Guessing, Tick
  PROVE  Guessing'
<1>1. /\ UNCHANGED <<traffic, answers, pc, nameLog, restarts>> /\ clock' = clock + 1 /\ clock \in Nat
  BY DEF Tick, throttle, IInv, Surrounded, Planned
<1>2. Usernames' = Usernames /\ Positioned'
  BY <1>1, NamesStay, TickNext DEF IInv
<1>3. LoginsServeLogins'
  BY <1>1 DEF Guessing, LoginsServeLogins, Request, script
<1>4. ASSUME NEW n \in Usernames, Counted(n) PROVE Counted(n)'
  <2>1. Wrong(n)' = Wrong(n) /\ (\A a : When(a)' = When(a)) /\ Past(n)' = Past(n)
    BY <1>1 DEF Wrong, LoginsOf, script, When, Past, Request
  <2>2. RecordOf(nameLog', n) = RecordOf(nameLog, n) /\ RecordOf(nameLog, n) \in RecordsOf(Usernames)
    BY <1>1, RecordIsTyped DEF Guessing
  <2>3. clock' \in Nat /\ clock' >= clock
    BY <1>1
  <2> QED BY <1>2, <1>4, <2>1, <2>2, <2>3, CountStays
<1>5. ASSUME NEW n \in Usernames, Succeeded(n) PROVE Succeeded(n)'
  BY <1>1, <1>5 DEF Succeeded, LoginsOf, script, Request
<1>6. IsMap(nameLog', Usernames)
  BY <1>1 DEF Guessing
<1>7. ASSUME NEW n \in Usernames PROVE Succeeded(n)' \/ restarts' > 0 \/ Counted(n)'
  BY <1>1, <1>4, <1>5 DEF Guessing
<1> QED BY <1>2, <1>3, <1>6, <1>7 DEF Guessing

LEMMA RestartCounts ==
  ASSUME IInv, Guessing, Restart
  PROVE  Guessing'
<1>1. nameLog' = <<>> /\ restarts' = restarts + 1 /\ restarts \in Nat /\ traffic' = traffic
      /\ pc' = [c \in Clients |-> "idle"]
  BY DEF Restart, IInv, Surrounded, Planned
<1>2. LoginsServeLogins'
  BY <1>1 DEF LoginsServeLogins, Passed
<1>3. Usernames' = Usernames
  BY <1>1, NamesStay
<1>4. IsMap(<<>>, Usernames)
  BY EmptySeq DEF IsMap, Distinct
<1> QED BY <1>1, <1>2, <1>3, <1>4 DEF Guessing

LEMMA GuessingStarts ==
  ASSUME Init
  PROVE  Guessing
<1>1. nameLog = <<>> /\ clock = 1 /\ pc = [c \in Clients |-> "idle"] /\ answers = [c \in Clients |-> <<>>]
  BY DEF Init
<1>2. LoginsServeLogins
  BY <1>1 DEF LoginsServeLogins, Passed
<1>3. IsMap(nameLog, Usernames)
  BY <1>1, EmptySeq DEF IsMap, Distinct
<1>4. ASSUME NEW n \in Usernames PROVE Counted(n)
  <2>1. Wrong(n) = {}
    BY <1>1, WrongMembers
  <2>2. ~ Tracked(nameLog, n)
    BY <1>1 DEF Tracked
  <2>3. RecordOf(nameLog, n).failures = <<>> /\ RecordOf(nameLog, n).until = NoLock
    BY <2>2, UnknownRecord
  <2>4. \A time : Cardinality(Later(n, time)) = 0
    BY <2>1, FS_EmptySet DEF Later
  <2>5. \A time : Count(<<>>, Young(time)) \in Nat
    <3>1. <<>> \in Seq(Nat)
      OBVIOUS
    <3> QED BY <3>1, CountIsNumber
  <2>6. Others \in Nat
    <3>1. Clients # {}
      BY <1>4 DEF Usernames
    <3>2. Cardinality(Clients) \in Nat \ {0}
      BY <3>1, FS_CardinalityType, FS_EmptySet, ClientsAreFinite
    <3> QED BY <3>2 DEF Others
  <2>7. Len(<<>>) < NameLimit
    BY LimitsAssumption
  <2> QED BY <2>1, <2>3, <2>4, <2>5, <2>6, <2>7 DEF Counted
<1> QED BY <1>2, <1>3, <1>4 DEF Guessing

LEMMA RoomyNext ==
  ASSUME IInv, [Next]_vars
  PROVE  Roomy' = Roomy
<1>1. traffic' = traffic
  <2>1. ASSUME NEW c \in Clients, Serve(c) PROVE traffic' = traffic
    BY <2>1, Frame DEF IInv, Surrounded, Planned
  <2> QED BY <2>1 DEF Next, Tick, Restart, vars
<1> QED BY <1>1, NamesStay

LEMMA GuessingNext ==
  ASSUME IInv, Roomy, Guessing, [Next]_vars
  PROVE  Guessing'
<1>1. ASSUME NEW c \in Clients, Serve(c) PROVE Guessing'
  BY <1>1, PlainCounts, GateCounts, FailureCounts, SuccessCounts
<1>2. CASE UNCHANGED vars
  <2>1. UNCHANGED <<traffic, answers, pc, nameLog, restarts, clock>>
    BY <1>2 DEF vars, server, throttle
  <2>2. LoginsServeLogins' /\ Usernames' = Usernames
    BY <2>1, NamesStay DEF Guessing, LoginsServeLogins, Request, script
  <2>3. ASSUME NEW n \in Usernames, Counted(n) PROVE Counted(n)'
    <3>1. (\A time : Later(n, time)' = Later(n, time)) /\ Past(n)' = Past(n)
      BY <2>1 DEF Later, Wrong, LoginsOf, script, When, Past, Request
    <3>2. Wrong(n)' = Wrong(n) /\ \A a : When(a)' = When(a)
      BY <2>1 DEF Wrong, LoginsOf, script, When
    <3> QED BY <2>1, <2>3, <3>1, <3>2 DEF Counted, Others
  <2>4. ASSUME NEW n \in Usernames, Succeeded(n) PROVE Succeeded(n)'
    BY <2>1, <2>4 DEF Succeeded, LoginsOf, script, Request
  <2>5. IsMap(nameLog', Usernames)
    BY <2>1 DEF Guessing
  <2>6. ASSUME NEW n \in Usernames PROVE Succeeded(n)' \/ restarts' > 0 \/ Counted(n)'
    BY <2>1, <2>3, <2>4 DEF Guessing
  <2> QED BY <2>2, <2>5, <2>6 DEF Guessing
<1> QED BY <1>1, <1>2, TickCounts, RestartCounts DEF Next

\* The counts of one name, put together.
LEMMA GuessesAdd ==
  ASSUME IInv, Roomy, Guessing
  PROVE  GuessesAreBounded
<1>1. ASSUME NEW n \in Usernames, Counted(n)
      PROVE  Cardinality(WrongGuesses(n)) <= NameLimit + 2 * (Cardinality(Clients) - 1)
  <2> DEFINE r == RecordOf(nameLog, n)
  <2>1. Clients # {}
    BY <1>1 DEF Usernames
  <2>2. /\ Cardinality(Clients) \in Nat \ {0} /\ clock \in Nat /\ NameLimit \in Nat \ {0} /\ Window \in Nat
        /\ Others = Cardinality(Clients) - 1
    BY <2>1, FS_CardinalityType, FS_EmptySet, ClientsAreFinite, LimitsAssumption, ThrottleAssumption
    DEF IInv, Surrounded, Planned, Others
  <2>3. r.failures \in Seq(Nat) /\ Len(r.failures) \in Nat
    BY RecordIsTyped, LenProperties DEF Guessing, RecordsOf
  <2>4. /\ \A a \in Wrong(n) : When(a) \in 0 .. clock
        /\ Cardinality(Later(n, clock - Window)) <= Count(r.failures, Young(clock)) + Others
        /\ r.until = NoLock => Len(r.failures) < NameLimit
        /\ r.until # NoLock => Len(r.failures) + Cardinality(Past(n)) <= NameLimit + Others
    BY <1>1, <2>2 DEF Counted
  <2>5. WrongGuesses(n) = Later(n, clock - Window)
    <3>1. \A a \in Wrong(n) : When(a) + Window > clock <=> When(a) > clock - Window
      BY <2>2, <2>4
    <3>2. WrongGuesses(n) = {a \in Wrong(n) : When(a) + Window > clock}
      BY DEF WrongGuesses, Wrong, When
    <3> QED BY <3>1, <3>2 DEF Later
  <2>6. Count(r.failures, Young(clock)) \in Nat /\ Count(r.failures, Young(clock)) <= Len(r.failures)
    <3> HIDE DEF r
    <3> QED BY <2>3, CountIsNumber, CountIsBounded
  <2>7. Cardinality(Past(n)) \in Nat /\ Cardinality(Later(n, clock - Window)) \in Nat
    BY PastIsFinite, LaterIsFinite DEF IInv
  <2> HIDE DEF r
  <2>8. Len(r.failures) <= NameLimit + Others
    BY <2>2, <2>3, <2>4, <2>7
  <2>9. Cardinality(Later(n, clock - Window)) <= NameLimit + Others + Others
    BY <2>2, <2>3, <2>4, <2>6, <2>7, <2>8
  <2> QED BY <2>2, <2>5, <2>7, <2>9
<1> QED BY <1>1 DEF Guessing, GuessesAreBounded

\* However many addresses guess at a username at once, and however the logins
\* interleave around the gate, the count and the lockout: the wrong passwords
\* checked for it in one window stay within the threshold, the attempts past the
\* gate when it is reached, and those past it at the lockout before
\* (login_throttle.LoginThrottle, account_routes._login).
THEOREM GuessesBounded == Spec => []GuessesAreBounded
<1>1. Init => IInv /\ (Roomy => Guessing)
  BY Starts, GuessingStarts
<1>2. IInv /\ (Roomy => Guessing) /\ [Next]_vars => (IInv /\ (Roomy => Guessing))'
  BY IInvNext, RoomyNext, GuessingNext
<1>3. IInv /\ (Roomy => Guessing) => GuessesAreBounded
  BY GuessesAdd DEF GuessesAreBounded, Roomy
<1> QED BY <1>1, <1>2, <1>3, PTL DEF Spec

=============================================================================
