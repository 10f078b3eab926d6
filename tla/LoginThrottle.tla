--------------------------- MODULE LoginThrottle ---------------------------
(***************************************************************************)
(* The failed-login throttle of the search server                          *)
(* (src/search/login_throttle.py): two bounded maps of failure records,    *)
(* one per (address, username) and one per username.  A map is an          *)
(* OrderedDict whose touched key moves to the end; here it is the sequence *)
(* of its records in that order.  A record holds the times of the recent   *)
(* failures and the time its lockout ends (NoLock when it has none).       *)
(* Every call runs under the throttle's one lock, so each is one operator. *)
(***************************************************************************)
EXTENDS Lists, SequencesExt

CONSTANTS
  Window,      \* failures older than this no longer count
  Lockout,     \* how long a tripped record stays locked
  MaxTracked   \* the number of records a map holds before it evicts

ASSUME ThrottleAssumption ==
  /\ Window \in Nat \ {0} /\ Lockout \in Nat \ {0} /\ MaxTracked \in Nat \ {0}

NoLock == 0

Tracked(log, key) == \E i \in DOMAIN log : log[i].key = key

Place(log, key) == CHOOSE i \in DOMAIN log : log[i].key = key

RecordOf(log, key) ==
  IF Tracked(log, key) THEN log[Place(log, key)]
  ELSE [key |-> key, failures |-> <<>>, until |-> NoLock]

\* A lockout whose end has come is over: the record is then cleared.
IsLocked(log, key, now) ==
  LET until == RecordOf(log, key).until IN until # NoLock /\ now < until

\* What asking leaves behind: an expired lockout and its failures are cleared
\* in place, the record keeps its turn.
Asked(log, key, now) ==
  [i \in DOMAIN log |->
     IF log[i].key = key /\ log[i].until # NoLock /\ now >= log[i].until
     THEN [log[i] EXCEPT !.failures = <<>>, !.until = NoLock]
     ELSE log[i]]

Young(now) == {t \in Nat : t + Window > now}
Recent(failures, now) == Kept(failures, Young(now))

Forget(log, key) == IF Tracked(log, key) THEN RemoveAt(log, Place(log, key)) ELSE log

\* A failure moves the key to the end, drops what is older than the window,
\* locks at the threshold, and evicts the oldest record of a full map.
Register(log, key, now, threshold) ==
  LET old  == RecordOf(log, key)
      when == Append(Recent(old.failures, now), now)
      new  == [key |-> key, failures |-> when,
               until |-> IF Len(when) >= threshold THEN now + Lockout ELSE old.until]
      all  == Append(Forget(log, key), new)
  IN SubSeq(all, IF Len(all) > MaxTracked THEN 2 ELSE 1, Len(all))
=============================================================================
