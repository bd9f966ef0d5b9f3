----------------------------- MODULE Statistics -----------------------------
(***************************************************************************)
(* Hashrate statistics: the rows the proxies write of every share, the API *)
(* process that flushes, collects and shows them (api/server.go and its    *)
(* queries in storage/redis.go), and its cache of account pages.           *)
(*                                                                         *)
(* Times are ages.  A share is the number of ticks since its MULTI, a row  *)
(* the set of them, since nothing here tells two shares of one tick apart. *)
(* A command carries the time its caller read before it (since), so it     *)
(* deletes what was out of the window then.                                *)
(***************************************************************************)
EXTENDS Integers, FiniteSets

CONSTANTS
  Logins,
  Asked,           \* the logins whose account is asked for
  Small, Large,    \* hashrateWindow and hashrateLargeWindow
  Expiration,      \* hashrateExpiration of the proxies
  Interval,        \* statsCollectInterval
  Slow,            \* ticks that a flush, a collection or a request takes at most
  MaxShares,       \* bound of this model on the shares at one time
  MaxFaults        \* bound of this model on errors

ASSUME StatisticsAssumption ==
  /\ IsFiniteSet(Logins) /\ Asked \subseteq Logins
  /\ Small \in Nat \ {0} /\ Large \in Nat \ {0} /\ Small <= Large
  /\ Expiration \in Nat /\ Expiration >= Large
  /\ Interval \in Nat /\ Slow \in Nat
  /\ MaxShares \in Nat /\ MaxFaults \in Nat

VARIABLES
  hashrate,    \* hashrate[l]: the shares of l in the row of the pool
  row,         \* row[l]: hashrate:l
  idle,        \* ticks since the last EXPIRE of row[l]
  listed,      \* rows that the follower has
  timer,       \* the goroutine with the two timers
  stats,       \* the snapshot: the miners in it, and its age
  cache,       \* ApiServer.miners: the entries young enough to be answered
  account,     \* the request that holds minersMu
  written,     \* history: the shares written within the large window
  faults

store == <<hashrate, row, idle, written>>
vars == <<store, listed, timer, stats, cache, account, faults>>

\* What is that old is out of the window by any time that is still in use.
Oldest(window) == window + Slow + 1

\* No snapshot yet: it shows what an old one shows, nothing to rely on.
NoStats == [miners |-> {}, age |-> Small]
Idle == [at |-> "idle"]
NobodyYet == [l \in Logins |-> {}]

\* Start purges and collects before the timers run.
Starting == [at |-> "flush", start |-> TRUE, since |-> 0]

Init ==
  /\ hashrate = NobodyYet /\ row = NobodyYet /\ written = NobodyYet
  /\ idle = [l \in Logins |-> Expiration]
  /\ listed = {}
  /\ timer = Starting /\ stats = NoStats /\ cache = <<>> /\ account = Idle
  /\ faults = 0

-----------------------------------------------------------------------------
(* The store *)

Rows == {l \in Logins : row[l] # {}}

Shares == UNION {{<<l, a>> : a \in hashrate[l] \cup row[l]} : l \in Logins}

\* The share's part of the MULTI of WriteShare and WriteBlock.
WriteShare(l) ==
  /\ Cardinality(Shares) < MaxShares
  /\ hashrate' = [hashrate EXCEPT ![l] = @ \cup {0}]
  /\ row' = [row EXCEPT ![l] = @ \cup {0}]
  /\ written' = [written EXCEPT ![l] = @ \cup {0}]
  /\ idle' = [idle EXCEPT ![l] = 0]
  /\ UNCHANGED <<listed, timer, stats, cache, account, faults>>

\* The follower applies what it has been sent; deletions and expiries too.
Replicate ==
  /\ listed # Rows /\ listed' = Rows
  /\ timer' = IF timer.at = "scan" THEN [timer EXCEPT !.left = @ \cap Rows] ELSE timer
  /\ UNCHANGED <<store, stats, cache, account, faults>>

\* ZREMRANGEBYSCORE key -inf (now-window, where now was read since ticks ago.
Trimmed(ages, window, since) == {a \in ages : a <= window + since}

Within(ages) == {a + 1 : a \in ages \cap (0 .. Large - 1)}
Older(age, most) == IF age < most THEN age + 1 ELSE most
Grown(ages, window) == {Older(a, Oldest(window)) : a \in ages}

Expired(l) == idle[l] >= Expiration

\* A tick.  An entry that is too old to be answered is as good as none.
Tick ==
  /\ timer.at # "idle" => timer.since < Slow
  /\ account.at # "idle" => account.age < Slow
  /\ hashrate' = [l \in Logins |-> Grown(hashrate[l], Small)]
  /\ row' = [l \in Logins |-> IF Expired(l) THEN {} ELSE Grown(row[l], Large)]
  /\ written' = [l \in Logins |-> Within(written[l])]
  /\ idle' = [l \in Logins |-> Older(idle[l], Expiration)]
  /\ timer' = IF timer.at = "idle" THEN timer ELSE [timer EXCEPT !.since = @ + 1]
  /\ stats' = IF stats.age + 1 < Small THEN [stats EXCEPT !.age = @ + 1] ELSE NoStats
  /\ cache' = [l \in {m \in DOMAIN cache : cache[m].age < Interval} |->
       [age |-> cache[l].age + 1, shown |-> Within(cache[l].shown)]]
  /\ account' =
       CASE account.at = "idle" -> account
         [] account.at = "exists" -> [account EXCEPT !.age = @ + 1]
         [] account.at = "workers" -> [account EXCEPT !.age = @ + 1, !.since = @ + 1]
         [] account.at = "reply" -> [account EXCEPT !.age = @ + 1, !.shown = Within(@)]
  /\ UNCHANGED <<listed, faults>>

-----------------------------------------------------------------------------
(* The timers' goroutine *)

At(labels) == timer.at \in labels

Fault == faults < MaxFaults /\ faults' = faults + 1

\* purgeStale, and the now that FlushStaleStats reads first.
PurgeTimer ==
  /\ At({"idle"})
  /\ timer' = [at |-> "flush", start |-> FALSE, since |-> 0]
  /\ UNCHANGED <<store, listed, stats, cache, account, faults>>

\* The row of the pool, by the small window.
TrimPool ==
  hashrate' = [l \in Logins |-> Trimmed(hashrate[l], Small, timer.since)]

FlushPool ==
  /\ At({"flush"})
  /\ TrimPool
  /\ timer' = [at |-> "scan", start |-> timer.start, since |-> timer.since,
                left |-> listed, done |-> {}]
  /\ UNCHANGED <<row, idle, written, listed, stats, cache, account, faults>>

\* Mutant of TrimRow: the small window here, too.
TrimRowSmall(l, since) == row' = [row EXCEPT ![l] = Trimmed(@, Small, since)]

\* The row of a miner, by the large window.
TrimRow(l, since) == row' = [row EXCEPT ![l] = Trimmed(@, Large, since)]

\* SCAN returns each row that the follower has all along; it may or may not
\* return one that comes meanwhile.
FlushRow(l) ==
  /\ At({"scan"}) /\ l \in listed \ timer.done
  /\ TrimRow(l, timer.since)
  /\ timer' = [timer EXCEPT !.done = @ \cup {l}]
  /\ UNCHANGED <<hashrate, idle, written, listed, stats, cache, account, faults>>

Collecting == [at |-> "collect", since |-> 0]

\* Mutant of ScanIsOver: one page is enough.
ScanIsOverEarly == timer.left = {} \/ timer.done # {}

\* The cursor is 0 again.
ScanIsOver == timer.left \subseteq timer.done

FlushEnd ==
  /\ At({"scan"}) /\ ScanIsOver
  /\ timer' = IF timer.start THEN Collecting ELSE Idle
  /\ UNCHANGED <<store, listed, stats, cache, account, faults>>

\* collectStats, and the now that CollectStats reads first.
StatsTimer ==
  /\ At({"idle"})
  /\ timer' = Collecting
  /\ UNCHANGED <<store, listed, stats, cache, account, faults>>

\* The MULTI of CollectStats: what it trims it does not show.
CollectStats ==
  /\ At({"collect"})
  /\ TrimPool
  /\ timer' = [at |-> "luck", since |-> 0,
                miners |-> {l \in Logins : hashrate'[l] # {}}]
  /\ UNCHANGED <<row, idle, written, listed, stats, cache, account, faults>>

\* CollectLuckStats has answered: the snapshot is stored.
StoreStats ==
  /\ At({"luck"})
  /\ stats' = [miners |-> timer.miners, age |-> timer.since]
  /\ timer' = Idle
  /\ UNCHANGED <<store, listed, cache, account, faults>>

\* A command of the goroutine returns an error, with its effect or without
\* it: the flush ends, or the old snapshot stays.
TimerFails ==
  /\ ~At({"idle"}) /\ Fault
  /\ \/ UNCHANGED <<hashrate, row>>
     \/ At({"flush", "collect"}) /\ TrimPool /\ UNCHANGED row
     \/ /\ At({"scan"})
        /\ \E l \in listed \ timer.done : TrimRow(l, timer.since)
        /\ UNCHANGED hashrate
  /\ timer' = IF At({"flush", "scan"}) /\ timer.start THEN Collecting ELSE Idle
  /\ UNCHANGED <<idle, written, listed, stats, cache, account>>

-----------------------------------------------------------------------------
(* Requests for an account, one at a time under minersMu *)

\* Mutant of Cached: an entry that is used stays fresh.
CachedRenewed(l) == cache' = [cache EXCEPT ![l].age = 0]

\* An entry that is answered stays as it is.
Cached(l) == UNCHANGED cache

\* The lock, the now of the request, and the look into the cache.
AccountIndex(l) ==
  /\ account = Idle
  /\ IF l \in DOMAIN cache
     THEN /\ Cached(l)
          /\ account' = [at |-> "reply", login |-> l, age |-> 0, shown |-> cache[l].shown]
     ELSE /\ account' = [at |-> "exists", login |-> l, age |-> 0]
          /\ UNCHANGED cache
  /\ UNCHANGED <<store, listed, timer, stats, faults>>

\* Whether the follower has the miner's hash already is left open, and an
\* error is answered like a miner that does not exist (server.go:274).  What
\* GetMinerStats reads there is left out; then CollectWorkersStats reads its now.
GetMinerStats ==
  /\ account.at = "exists"
  /\ account' \in {Idle, [at |-> "workers", login |-> account.login,
                         age |-> account.age, since |-> 0]}
  /\ UNCHANGED <<store, listed, timer, stats, cache, faults>>

\* Mutant of Shown: the MULTI reads the row before it deletes.
ShownFirst(l) == row[l]

\* What the MULTI reads: the row without what it has just deleted.
Shown(l) == row'[l]

\* The MULTI, and the new entry, as old as the request.
CollectWorkersStats ==
  LET l == account.login
      shown == Shown(l)
  IN /\ account.at = "workers"
     /\ TrimRow(l, account.since)
     /\ cache' = IF account.age > Interval THEN cache
                 ELSE [m \in DOMAIN cache \cup {l} |->
                         IF m = l THEN [age |-> account.age, shown |-> shown] ELSE cache[m]]
     /\ account' = [at |-> "reply", login |-> l, age |-> account.age, shown |-> shown]
     /\ UNCHANGED <<hashrate, idle, written, listed, timer, stats, faults>>

Reply ==
  /\ account.at = "reply"
  /\ account' = Idle
  /\ UNCHANGED <<store, listed, timer, stats, cache, faults>>

\* An error answers the request and leaves the cache.
AccountFails ==
  /\ account.at = "workers" /\ Fault
  /\ UNCHANGED row \/ TrimRow(account.login, account.since)
  /\ account' = Idle
  /\ UNCHANGED <<hashrate, idle, written, listed, timer, stats, cache>>

-----------------------------------------------------------------------------
Next ==
  \/ \E l \in Logins : WriteShare(l)
  \/ Replicate
  \/ Tick
  \/ PurgeTimer
  \/ FlushPool
  \/ \E l \in Logins : FlushRow(l)
  \/ FlushEnd
  \/ StatsTimer
  \/ CollectStats
  \/ StoreStats
  \/ TimerFails
  \/ \E l \in Asked : AccountIndex(l)
  \/ GetMinerStats
  \/ CollectWorkersStats
  \/ Reply
  \/ AccountFails

Spec == Init /\ [][Next]_vars

TimerStep ==
  FlushPool \/ (\E l \in Logins : FlushRow(l)) \/ FlushEnd \/ CollectStats \/ StoreStats

\* The follower follows, the goroutine goes on, and of two timers that have
\* fired select takes each in the end.
FairSpec ==
  /\ Spec /\ WF_vars(Replicate) /\ WF_vars(TimerStep) /\ SF_vars(PurgeTimer)

-----------------------------------------------------------------------------
(* Properties *)

Pages == SUBSET (0 .. Large + Slow)

Timers ==
  [at : {"idle"}]
  \cup [at : {"flush"}, start : BOOLEAN, since : 0 .. Slow]
  \cup [at : {"scan"}, start : BOOLEAN, since : 0 .. Slow,
        left : SUBSET Logins, done : SUBSET Logins]
  \cup [at : {"collect"}, since : 0 .. Slow]
  \cup [at : {"luck"}, since : 0 .. Slow, miners : SUBSET Logins]

Accounts ==
  [at : {"idle"}]
  \cup [at : {"exists"}, login : Asked, age : 0 .. Slow]
  \cup {r \in [at : {"workers"}, login : Asked, age : 0 .. Slow, since : 0 .. Slow] :
          r.since <= r.age}
  \cup [at : {"reply"}, login : Asked, age : 0 .. Slow, shown : Pages]

\* Every variable keeps its type, and each place of a goroutine its locals; no
\* page shows a share that was out of the window when it was asked for.
TypeOK ==
  /\ hashrate \in [Logins -> SUBSET (0 .. Oldest(Small))]
  /\ row \in [Logins -> SUBSET (0 .. Oldest(Large))]
  /\ written \in [Logins -> SUBSET (0 .. Large)]
  /\ idle \in [Logins -> 0 .. Expiration]
  /\ listed \subseteq Logins
  /\ timer \in Timers
  /\ stats \in [miners : SUBSET Logins, age : (0 .. Small) \cup (0 .. Slow)]
  /\ DOMAIN cache \subseteq Asked
  /\ cache \in [DOMAIN cache -> [age : 0 .. Interval, shown : Pages]]
  /\ account \in Accounts
  /\ faults \in 0 .. MaxFaults

\* No share is deleted from a row before its window is over, although purges,
\* collections and account requests delete by times of their own and each row
\* has a window of its own (redis.go:636, 679, 733).
WindowKept ==
  \A l \in Logins, a \in 0 .. Large :
    a \in written[l] => a \in row[l] /\ (a <= Small => a \in hashrate[l])

\* No view is older than it may be.  An account's page misses no share that
\* was made more than an interval before the request, however often it is
\* asked for and however long the store took; a snapshot misses no miner that
\* was there before it was taken (server.go:265-302, 137-152).
ViewsAreFresh ==
  /\ account.at = "reply" =>
       \A a \in written[account.login] :
         a > account.age + Interval => a \in account.shown
  /\ \A l \in Logins : \A a \in written[l] :
       a > stats.age /\ a <= Small => l \in stats.miners

\* The purge reaches every row (redis.go:634, "Must run it periodically to
\* flush out of window hashrate entries"): what is out of its window goes, even
\* that of a miner who goes on.
OldSharesGo ==
  \A l \in Logins : Oldest(Large) \in row[l] ~> Oldest(Large) \notin row[l]
=============================================================================
