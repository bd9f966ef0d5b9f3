-------------------------- MODULE StatisticsProofs ---------------------------
(***************************************************************************)
(* Proofs about the statistics (module Statistics): types, that no row     *)
(* loses a share inside its window, and that no view is older than it may  *)
(* be, for any windows, interval, and slowness of the commands.            *)
(***************************************************************************)
EXTENDS Statistics, TLAPS

-----------------------------------------------------------------------------
(* The invariant *)

StoreType ==
  /\ hashrate \in [Logins -> SUBSET (0 .. Oldest(Small))]
  /\ row \in [Logins -> SUBSET (0 .. Oldest(Large))]
  /\ written \in [Logins -> SUBSET (0 .. Large)]
  /\ idle \in [Logins -> 0 .. Expiration]

StatsType == stats \in [miners : SUBSET Logins, age : (0 .. Small) \cup (0 .. Slow)]

CacheType ==
  DOMAIN cache \subseteq Asked /\ cache \in [DOMAIN cache -> [age : 0 .. Interval, shown : Pages]]

\* The type invariant, part by part.
LEMMA TypeParts ==
  TypeOK <=> /\ StoreType /\ listed \subseteq Logins /\ timer \in Timers /\ StatsType
             /\ CacheType /\ account \in Accounts /\ faults \in 0 .. MaxFaults
BY DEF TypeOK, StoreType, StatsType, CacheType

\* The type invariant after a step, part by part.
LEMMA TypePartsNext ==
  TypeOK' <=> /\ StoreType' /\ listed' \subseteq Logins /\ timer' \in Timers /\ StatsType'
              /\ CacheType' /\ account' \in Accounts /\ faults' \in 0 .. MaxFaults
BY DEF TypeOK, StoreType, StatsType, CacheType, Timers, Accounts, Pages

\* A row does not expire while one of its shares is inside the large window.
Awake == \A l \in Logins : \A a \in written[l] : idle[l] <= a

\* A page in the cache shows every share made before it was read, and a
\* snapshot in the making every miner that was there before it was read.
CacheFresh ==
  \A l \in DOMAIN cache : \A a \in written[l] : a > cache[l].age => a \in cache[l].shown

ReplyFresh ==
  account.at = "reply" =>
    \A a \in written[account.login] : a > account.age + Interval => a \in account.shown

StatsFresh ==
  \A l \in Logins : \A a \in written[l] : a > stats.age /\ a <= Small => l \in stats.miners

LuckFresh ==
  timer.at = "luck" =>
    \A l \in Logins : \A a \in written[l] : a > timer.since /\ a <= Small => l \in timer.miners

\* The rows' invariant, and the views'.
RowInv == WindowKept /\ Awake

ViewInv == CacheFresh /\ ReplyFresh /\ StatsFresh /\ LuckFresh

-----------------------------------------------------------------------------
(* What the steps do to the rows *)

\* What the assumptions say of the windows and the bounds of ages.
LEMMA Numbers ==
  /\ Small \in Nat \ {0} /\ Large \in Nat \ {0} /\ Small <= Large
  /\ Expiration \in Nat /\ Large <= Expiration /\ Interval \in Nat /\ Slow \in Nat
  /\ Oldest(Small) \in Nat /\ Oldest(Large) \in Nat
  /\ Small + Slow < Oldest(Small) /\ Large + Slow < Oldest(Large)
BY StatisticsAssumption DEF Oldest

\* Deleting by a time read since ticks ago deletes nothing inside the window.
LEMMA TrimmedKeeps ==
  ASSUME NEW window \in Nat, NEW since \in Nat, NEW ages \in SUBSET Nat
  PROVE  /\ Trimmed(ages, window, since) \subseteq ages
         /\ \A a \in ages : a <= window => a \in Trimmed(ages, window, since)
         /\ \A a \in Trimmed(ages, window, since) : a <= window + since
BY DEF Trimmed

\* Rows that are as they were or trimmed.
Trims ==
  /\ UNCHANGED <<written, idle>>
  /\ \A l \in Logins :
       /\ hashrate'[l] \subseteq hashrate[l]
       /\ \A a \in hashrate[l] : a <= Small => a \in hashrate'[l]
       /\ row'[l] \subseteq row[l]
       /\ \A a \in row[l] : a <= Large => a \in row'[l]
  /\ hashrate' \in [Logins -> SUBSET (0 .. Oldest(Small))]
  /\ row' \in [Logins -> SUBSET (0 .. Oldest(Large))]

\* The trim of the pool's row drops what is out of the small window.
LEMMA PoolTrims ==
  ASSUME StoreType, TrimPool, timer.since \in Nat, UNCHANGED <<row, written, idle>>
  PROVE  Trims
<1>1. \A l \in Logins : hashrate[l] \in SUBSET Nat
  BY Numbers DEF StoreType
<1>2. /\ hashrate' = [l \in Logins |-> Trimmed(hashrate[l], Small, timer.since)]
      /\ Small \in Nat
  BY Numbers DEF TrimPool
<1>3. \A l \in Logins : /\ hashrate'[l] \subseteq hashrate[l]
                        /\ \A a \in hashrate[l] : a <= Small => a \in hashrate'[l]
  BY <1>1, <1>2, TrimmedKeeps
<1>4. hashrate' \in [Logins -> SUBSET (0 .. Oldest(Small))]
  BY <1>2, <1>3 DEF StoreType
<1>5. QED
  BY <1>3, <1>4 DEF Trims, StoreType

\* The trim of a miner's row drops what is out of the large window, and all of that.
LEMMA RowTrims ==
  ASSUME StoreType, NEW l \in Logins, NEW since \in Nat, TrimRow(l, since),
         UNCHANGED <<hashrate, written, idle>>
  PROVE  Trims /\ \A a \in row'[l] : a <= Large + since
<1>1. row[l] \in SUBSET Nat
  BY Numbers DEF StoreType
<1>2. row' = [row EXCEPT ![l] = Trimmed(row[l], Large, since)] /\ Large \in Nat
  BY Numbers DEF TrimRow
<1>3. /\ row'[l] \subseteq row[l] /\ \A a \in row[l] : a <= Large => a \in row'[l]
      /\ \A a \in row'[l] : a <= Large + since
  BY <1>1, <1>2, TrimmedKeeps DEF StoreType
<1>4. \A m \in Logins \ {l} : row'[m] = row[m]
  BY <1>2 DEF StoreType
<1>5. row' \in [Logins -> SUBSET (0 .. Oldest(Large))]
  <2>1. Trimmed(row[l], Large, since) \in SUBSET (0 .. Oldest(Large))
    BY <1>1, <1>2, TrimmedKeeps DEF StoreType
  <2>2. QED
    BY <1>2, <2>1 DEF StoreType
<1>6. QED
  BY <1>3, <1>4, <1>5 DEF Trims, StoreType

\* A step that leaves the rows alone drops nothing.
LEMMA NothingTrims ==
  ASSUME StoreType, UNCHANGED store
  PROVE  Trims
BY DEF Trims, store, StoreType

\* A share, a tick, or at most a deletion.
LEMMA StoreSteps ==
  ASSUME TypeOK, [Next]_vars
  PROVE  (\E l \in Logins : WriteShare(l)) \/ Tick \/ Trims
<1>1. StoreType /\ listed \subseteq Logins /\ timer \in Timers /\ account \in Accounts
  BY TypeParts
<1>2. timer.at # "idle" => timer.since \in Nat
  BY <1>1, Numbers DEF Timers
<1>3. account.at = "workers" => account.login \in Logins /\ account.since \in Nat
  BY <1>1, Numbers, StatisticsAssumption DEF Accounts
<1>4. CASE FlushPool
  BY <1>1, <1>2, <1>4, PoolTrims DEF FlushPool, At
<1>5. ASSUME NEW l \in Logins, FlushRow(l)
      PROVE  Trims
  BY <1>1, <1>2, <1>5, RowTrims DEF FlushRow, At
<1>6. CASE CollectStats
  BY <1>1, <1>2, <1>6, PoolTrims DEF CollectStats, At
<1>7. CASE TimerFails
  <2>1. timer.since \in Nat /\ UNCHANGED <<idle, written>>
    BY <1>2, <1>7 DEF TimerFails, At
  <2>2. CASE UNCHANGED <<hashrate, row>>
    BY <1>1, <2>1, <2>2, NothingTrims DEF store
  <2>3. CASE TrimPool /\ UNCHANGED row
    BY <1>1, <2>1, <2>3, PoolTrims
  <2>4. ASSUME NEW l \in listed \ timer.done, TrimRow(l, timer.since), UNCHANGED hashrate
        PROVE  Trims
    BY <1>1, <2>1, <2>4, RowTrims
  <2>5. QED
    BY <1>7, <2>2, <2>3, <2>4 DEF TimerFails
<1>8. CASE CollectWorkersStats
  BY <1>1, <1>3, <1>8, RowTrims DEF CollectWorkersStats
<1>9. CASE AccountFails
  <2>1. CASE UNCHANGED row
    BY <1>1, <1>9, <2>1, NothingTrims DEF AccountFails, store
  <2>2. CASE TrimRow(account.login, account.since)
    BY <1>1, <1>3, <1>9, <2>2, RowTrims DEF AccountFails
  <2>3. QED
    BY <1>9, <2>1, <2>2 DEF AccountFails
<1>10. CASE UNCHANGED vars
  BY <1>1, <1>10, NothingTrims DEF vars
<1>11. CASE \/ Replicate \/ PurgeTimer \/ FlushEnd \/ StatsTimer \/ StoreStats
            \/ (\E l \in Asked : AccountIndex(l)) \/ GetMinerStats \/ Reply
  <2>1. UNCHANGED store
    BY <1>11 DEF Replicate, PurgeTimer, FlushEnd, StatsTimer, StoreStats, AccountIndex,
      GetMinerStats, Reply
  <2>2. QED
    BY <1>1, <2>1, NothingTrims
<1>12. QED
  BY <1>4, <1>5, <1>6, <1>7, <1>8, <1>9, <1>10, <1>11 DEF Next

-----------------------------------------------------------------------------
(* A tick *)

\* An age grows by a tick until it is as high as it is counted.
LEMMA OlderIs ==
  ASSUME NEW most \in Nat, NEW age \in 0 .. most
  PROVE  /\ Older(age, most) \in 0 .. most /\ Older(age, most) <= age + 1
         /\ age < most => Older(age, most) = age + 1
BY DEF Older

\* After a tick the shares of the large window are a tick older.
LEMMA WithinIs ==
  ASSUME NEW ages \in SUBSET Nat
  PROVE  /\ Within(ages) \in SUBSET (0 .. Large)
         /\ \A b \in Within(ages) : b - 1 \in ages /\ b - 1 < Large /\ b \in Nat /\ b > 0
         /\ \A a \in ages : a < Large => a + 1 \in Within(ages)
BY Numbers DEF Within

\* After a tick the shares of a row are a tick older.
LEMMA GrownIs ==
  ASSUME NEW window \in Nat, NEW ages \in SUBSET (0 .. Oldest(window))
  PROVE  /\ Grown(ages, window) \in SUBSET (0 .. Oldest(window))
         /\ \A a \in ages : a <= window => a + 1 \in Grown(ages, window)
<1>1. Oldest(window) \in Nat /\ window < Oldest(window)
  BY Numbers DEF Oldest
<1>2. \A a \in ages : Older(a, Oldest(window)) \in 0 .. Oldest(window)
  BY <1>1, OlderIs
<1>3. ASSUME NEW a \in ages, a <= window
      PROVE  a + 1 \in Grown(ages, window)
  <2>1. a < Oldest(window) /\ a \in 0 .. Oldest(window)
    BY <1>1, <1>3
  <2>2. Older(a, Oldest(window)) = a + 1
    BY <1>1, <2>1, OlderIs
  <2>3. QED
    BY <2>2 DEF Grown
<1>4. QED
  BY <1>2, <1>3 DEF Grown

\* After a tick every share of a live row is a tick older.
LEMMA TickStore ==
  ASSUME StoreType, Tick
  PROVE  /\ StoreType'
         /\ \A l \in Logins :
              /\ written'[l] = Within(written[l]) /\ idle'[l] <= idle[l] + 1
              /\ \A a \in hashrate[l] : a <= Small => a + 1 \in hashrate'[l]
              /\ ~ Expired(l) => \A a \in row[l] : a <= Large => a + 1 \in row'[l]
<1>1. /\ hashrate' = [l \in Logins |-> Grown(hashrate[l], Small)]
      /\ row' = [l \in Logins |-> IF Expired(l) THEN {} ELSE Grown(row[l], Large)]
      /\ written' = [l \in Logins |-> Within(written[l])]
      /\ idle' = [l \in Logins |-> Older(idle[l], Expiration)]
  BY DEF Tick
<1>2. Small \in Nat /\ Large \in Nat /\ Expiration \in Nat
  BY Numbers
<1>3. ASSUME NEW l \in Logins
      PROVE  /\ Grown(hashrate[l], Small) \in SUBSET (0 .. Oldest(Small))
             /\ \A a \in hashrate[l] : a <= Small => a + 1 \in Grown(hashrate[l], Small)
             /\ Grown(row[l], Large) \in SUBSET (0 .. Oldest(Large))
             /\ \A a \in row[l] : a <= Large => a + 1 \in Grown(row[l], Large)
  BY <1>2, <1>3, GrownIs DEF StoreType
<1>4. ASSUME NEW l \in Logins
      PROVE  Within(written[l]) \in SUBSET (0 .. Large)
  <2>1. written[l] \in SUBSET Nat
    BY <1>2 DEF StoreType
  <2>2. QED
    BY <2>1, WithinIs
<1>5. ASSUME NEW l \in Logins
      PROVE  Older(idle[l], Expiration) \in 0 .. Expiration
               /\ Older(idle[l], Expiration) <= idle[l] + 1
  BY <1>2, <1>5, OlderIs DEF StoreType
<1>6. QED
  BY <1>1, <1>3, <1>4, <1>5 DEF StoreType

-----------------------------------------------------------------------------
(* Types *)

\* A share adds an age of 0 to the rows and keeps the types.
LEMMA ShareType ==
  ASSUME StoreType, NEW l \in Logins, WriteShare(l)
  PROVE  /\ StoreType'
         /\ hashrate' = [hashrate EXCEPT ![l] = @ \cup {0}] /\ row' = [row EXCEPT ![l] = @ \cup {0}]
         /\ written' = [written EXCEPT ![l] = @ \cup {0}] /\ idle' = [idle EXCEPT ![l] = 0]
         /\ UNCHANGED <<listed, timer, stats, cache, account, faults>>
<1>1. 0 \in 0 .. Oldest(Small) /\ 0 \in 0 .. Oldest(Large) /\ 0 \in 0 .. Large /\ 0 \in 0 .. Expiration
  BY Numbers
<1>2. QED
  BY <1>1 DEF WriteShare, StoreType

\* The passing of time keeps the types.
LEMMA TickType ==
  ASSUME TypeOK, Tick
  PROVE  TypeOK'
<1>1. /\ StoreType /\ timer \in Timers /\ StatsType /\ CacheType /\ account \in Accounts
      /\ listed' \subseteq Logins /\ faults' \in 0 .. MaxFaults
  BY TypeParts DEF Tick
<1>2. StoreType'
  BY <1>1, TickStore
<1>3. timer' \in Timers
  <2>1. CASE timer.at = "idle"
    BY <1>1, <2>1 DEF Tick
  <2>2. CASE timer.at # "idle"
    <3>1. timer' = [timer EXCEPT !.since = @ + 1] /\ timer.since < Slow
      BY <2>2 DEF Tick
    <3>2. QED
      BY <1>1, <2>2, <3>1, Numbers DEF Timers
  <2>3. QED
    BY <2>1, <2>2
<1>4. StatsType'
  <2>1. CASE stats.age + 1 < Small
    <3>1. stats' = [stats EXCEPT !.age = @ + 1]
      BY <2>1 DEF Tick
    <3>2. QED
      BY <1>1, <2>1, <3>1, Numbers DEF StatsType
  <2>2. CASE ~ (stats.age + 1 < Small)
    BY <2>2, Numbers DEF Tick, NoStats, StatsType
  <2>3. QED
    BY <2>1, <2>2
<1>5. CacheType'
  <2>1. cache' = [l \in {m \in DOMAIN cache : cache[m].age < Interval} |->
                    [age |-> cache[l].age + 1, shown |-> Within(cache[l].shown)]]
    BY DEF Tick
  <2>2. ASSUME NEW l \in DOMAIN cache, cache[l].age < Interval
        PROVE  [age |-> cache[l].age + 1, shown |-> Within(cache[l].shown)]
                 \in [age : 0 .. Interval, shown : Pages]
    <3>1. cache[l].age \in 0 .. Interval /\ cache[l].shown \in SUBSET Nat
      BY <1>1, Numbers DEF CacheType, Pages
    <3>2. Within(cache[l].shown) \in Pages
      BY <3>1, WithinIs, Numbers DEF Pages
    <3>3. QED
      BY <2>2, <3>1, <3>2, Numbers
  <2>3. QED
    BY <1>1, <2>1, <2>2 DEF CacheType
<1>6. account' \in Accounts
  <2>1. CASE account.at = "idle"
    BY <1>1, <2>1 DEF Tick
  <2>2. CASE account.at = "exists"
    <3>1. account' = [account EXCEPT !.age = @ + 1] /\ account.age < Slow
      BY <2>2 DEF Tick
    <3>2. account \in [at : {"exists"}, login : Asked, age : 0 .. Slow]
      BY <1>1, <2>2 DEF Accounts
    <3>3. QED
      BY <3>1, <3>2, Numbers DEF Accounts
  <2>3. CASE account.at = "workers"
    <3>1. account' = [account EXCEPT !.age = @ + 1, !.since = @ + 1] /\ account.age < Slow
      BY <2>3 DEF Tick
    <3>2. /\ account \in [at : {"workers"}, login : Asked, age : 0 .. Slow, since : 0 .. Slow]
          /\ account.since <= account.age
      BY <1>1, <2>3 DEF Accounts
    <3>3. account' = [at |-> "workers", login |-> account.login, age |-> account.age + 1,
                      since |-> account.since + 1]
      BY <3>1, <3>2
    <3>4. account.age + 1 \in 0 .. Slow /\ account.since + 1 \in 0 .. Slow
            /\ account.since + 1 <= account.age + 1
      BY <3>1, <3>2, Numbers
    <3>5. QED
      BY <3>2, <3>3, <3>4 DEF Accounts
  <2>4. CASE account.at = "reply"
    <3>1. account' = [account EXCEPT !.age = @ + 1, !.shown = Within(@)] /\ account.age < Slow
      BY <2>4 DEF Tick
    <3>2. account \in [at : {"reply"}, login : Asked, age : 0 .. Slow, shown : Pages]
      BY <1>1, <2>4 DEF Accounts
    <3>3. Within(account.shown) \in Pages
      BY <3>2, WithinIs, Numbers DEF Pages
    <3>4. account' = [at |-> "reply", login |-> account.login, age |-> account.age + 1,
                      shown |-> Within(account.shown)]
      BY <3>1, <3>2
    <3>5. account.age + 1 \in 0 .. Slow
      BY <3>1, <3>2, Numbers
    <3>6. QED
      BY <3>2, <3>3, <3>4, <3>5 DEF Accounts
  <2>5. QED
    BY <1>1, <2>1, <2>2, <2>3, <2>4 DEF Accounts
<1>7. QED
  BY <1>1, <1>2, <1>3, <1>4, <1>5, <1>6, TypePartsNext

\* The fields of the goroutine's state go with its label.
LEMMA TimerForms ==
  ASSUME timer \in Timers
  PROVE  /\ timer.at = "flush" => timer \in [at : {"flush"}, start : BOOLEAN, since : 0 .. Slow]
         /\ timer.at = "scan" =>
              timer \in [at : {"scan"}, start : BOOLEAN, since : 0 .. Slow,
                         left : SUBSET Logins, done : SUBSET Logins]
         /\ timer.at = "collect" => timer \in [at : {"collect"}, since : 0 .. Slow]
         /\ timer.at = "luck" =>
              timer \in [at : {"luck"}, since : 0 .. Slow, miners : SUBSET Logins]
         /\ timer.at \in {"idle", "flush", "scan", "collect", "luck"}
BY DEF Timers

\* The fields of the request's state go with its label.
LEMMA AccountForms ==
  ASSUME account \in Accounts
  PROVE  /\ account.at = "idle" => account = Idle
         /\ account.at = "exists" => account \in [at : {"exists"}, login : Asked, age : 0 .. Slow]
         /\ account.at = "workers" =>
              /\ account \in [at : {"workers"}, login : Asked, age : 0 .. Slow, since : 0 .. Slow]
              /\ account.since <= account.age
         /\ account.at = "reply" =>
              account \in [at : {"reply"}, login : Asked, age : 0 .. Slow, shown : Pages]
         /\ account.at \in {"idle", "exists", "workers", "reply"}
BY DEF Accounts, Idle

\* The places the timers' goroutine goes to.
LEMMA TimerPlaces ==
  /\ Idle \in Timers /\ Collecting \in Timers
  /\ \A b \in BOOLEAN : [at |-> "flush", start |-> b, since |-> 0] \in Timers
  /\ Idle \in Accounts
BY Numbers DEF Idle, Collecting, Timers, Accounts

\* Steps of the timers' goroutine.
LEMMA TimerType ==
  ASSUME TypeOK, TimerStep \/ PurgeTimer \/ StatsTimer \/ TimerFails
  PROVE  TypeOK'
<1>1. /\ StoreType /\ listed \subseteq Logins /\ timer \in Timers /\ StatsType /\ CacheType
      /\ account \in Accounts /\ faults \in 0 .. MaxFaults
  BY TypeParts
<1>2. UNCHANGED <<listed, cache, account>>
  BY DEF TimerStep, PurgeTimer, StatsTimer, TimerFails, FlushPool, FlushRow, FlushEnd,
    CollectStats, StoreStats
<1>3. Trims
  <2>1. CASE FlushPool \/ CollectStats
    BY <1>1, <2>1, Numbers, TimerForms, PoolTrims DEF FlushPool, CollectStats, At
  <2>2. CASE (\E l \in Logins : FlushRow(l))
    BY <1>1, <2>2, Numbers, TimerForms, RowTrims DEF FlushRow, At
  <2>3. CASE FlushEnd \/ StoreStats \/ PurgeTimer \/ StatsTimer
    BY <1>1, <2>3, NothingTrims DEF FlushEnd, StoreStats, PurgeTimer, StatsTimer
  <2>4. CASE TimerFails
    <3>1. timer.since \in Nat /\ UNCHANGED <<idle, written>>
      BY <1>1, <2>4, Numbers, TimerForms DEF TimerFails, At
    <3>2. CASE UNCHANGED <<hashrate, row>>
      BY <1>1, <3>1, <3>2, NothingTrims DEF store
    <3>3. CASE TrimPool /\ UNCHANGED row
      BY <1>1, <3>1, <3>3, PoolTrims
    <3>4. ASSUME NEW l \in listed \ timer.done, TrimRow(l, timer.since), UNCHANGED hashrate
          PROVE  Trims
      BY <1>1, <3>1, <3>4, RowTrims
    <3>5. QED
      BY <2>4, <3>2, <3>3, <3>4 DEF TimerFails
  <2>5. QED
    BY <2>1, <2>2, <2>3, <2>4 DEF TimerStep
<1>4. StoreType'
  BY <1>1, <1>3 DEF Trims, StoreType
<1>5. CacheType' /\ listed' \subseteq Logins /\ account' \in Accounts
  BY <1>1, <1>2 DEF CacheType
<1>6. faults' \in 0 .. MaxFaults
  <2>1. CASE TimerFails
    BY <1>1, <2>1, StatisticsAssumption DEF TimerFails, Fault
  <2>2. QED
    BY <1>1, <2>1 DEF TimerStep, PurgeTimer, StatsTimer, FlushPool, FlushRow, FlushEnd,
      CollectStats, StoreStats
<1>7. StatsType'
  <2>1. CASE StoreStats
    <3>1. stats' = [miners |-> timer.miners, age |-> timer.since]
      BY <2>1 DEF StoreStats
    <3>2. timer.miners \in SUBSET Logins /\ timer.since \in 0 .. Slow
      BY <1>1, <2>1, TimerForms DEF StoreStats, At
    <3>3. QED
      BY <3>1, <3>2 DEF StatsType
  <2>2. QED
    BY <1>1, <2>1 DEF TimerStep, PurgeTimer, StatsTimer, FlushPool, FlushRow, FlushEnd,
      CollectStats, TimerFails, StatsType
<1>8. timer' \in Timers
  <2>1. CASE FlushPool
    <3>1. /\ timer' = [at |-> "scan", start |-> timer.start, since |-> timer.since,
                       left |-> listed, done |-> {}]
          /\ timer.start \in BOOLEAN /\ timer.since \in 0 .. Slow
      BY <1>1, <2>1, TimerForms DEF FlushPool, At
    <3>2. QED
      BY <1>1, <3>1 DEF Timers
  <2>2. ASSUME NEW l \in Logins, FlushRow(l)
        PROVE  timer' \in Timers
    <3>1. /\ timer' = [timer EXCEPT !.done = @ \cup {l}]
          /\ timer \in [at : {"scan"}, start : BOOLEAN, since : 0 .. Slow,
                        left : SUBSET Logins, done : SUBSET Logins]
      BY <1>1, <2>2, TimerForms DEF FlushRow, At
    <3>2. QED
      BY <3>1 DEF Timers
  <2>3. CASE CollectStats
    <3>1. timer' = [at |-> "luck", since |-> 0, miners |-> {l \in Logins : hashrate'[l] # {}}]
      BY <2>3 DEF CollectStats
    <3>2. QED
      BY <3>1, Numbers DEF Timers
  <2>4. CASE FlushEnd \/ StoreStats \/ PurgeTimer \/ StatsTimer \/ TimerFails
    BY <2>4, TimerPlaces DEF FlushEnd, StoreStats, PurgeTimer, StatsTimer, TimerFails
  <2>5. QED
    BY <2>1, <2>2, <2>3, <2>4 DEF TimerStep
<1>9. QED
  BY <1>4, <1>5, <1>6, <1>7, <1>8, TypePartsNext

\* Steps of a request.
LEMMA AccountType ==
  ASSUME TypeOK,
         \/ \E l \in Asked : AccountIndex(l)
         \/ GetMinerStats \/ CollectWorkersStats \/ Reply \/ AccountFails
  PROVE  TypeOK'
<1>1. /\ StoreType /\ listed \subseteq Logins /\ timer \in Timers /\ StatsType /\ CacheType
      /\ account \in Accounts /\ faults \in 0 .. MaxFaults
  BY TypeParts
<1>2. UNCHANGED <<listed, timer, stats>>
  BY DEF AccountIndex, GetMinerStats, CollectWorkersStats, Reply, AccountFails
<1>3. listed' \subseteq Logins /\ timer' \in Timers /\ StatsType'
  BY <1>1, <1>2 DEF StatsType
<1>4. UNCHANGED cache => CacheType'
  BY <1>1 DEF CacheType
<1>5. UNCHANGED store => StoreType'
  BY <1>1 DEF StoreType, store
<1>6. ASSUME NEW l \in Asked, AccountIndex(l)
      PROVE  TypeOK'
  <2>1. UNCHANGED <<store, faults, cache>>
    BY <1>6 DEF AccountIndex, Cached
  <2>2. account' \in Accounts
    <3>1. CASE l \in DOMAIN cache
      <4>1. account' = [at |-> "reply", login |-> l, age |-> 0, shown |-> cache[l].shown]
        BY <1>6, <3>1 DEF AccountIndex
      <4>2. cache[l].shown \in Pages
        BY <1>1, <3>1 DEF CacheType
      <4>3. QED
        BY <4>1, <4>2, Numbers DEF Accounts
    <3>2. CASE l \notin DOMAIN cache
      <4>1. account' = [at |-> "exists", login |-> l, age |-> 0]
        BY <1>6, <3>2 DEF AccountIndex
      <4>2. QED
        BY <4>1, Numbers DEF Accounts
    <3>3. QED
      BY <3>1, <3>2
  <2>3. QED
    BY <1>1, <1>3, <1>4, <1>5, <2>1, <2>2, TypePartsNext
<1>7. CASE GetMinerStats
  <2>1. UNCHANGED <<store, faults, cache>>
    BY <1>7 DEF GetMinerStats
  <2>2. account.login \in Asked /\ account.age \in 0 .. Slow
    BY <1>1, <1>7, AccountForms DEF GetMinerStats
  <2>3. account' \in {Idle, [at |-> "workers", login |-> account.login,
                             age |-> account.age, since |-> 0]}
    BY <1>7 DEF GetMinerStats
  <2>4. [at |-> "workers", login |-> account.login, age |-> account.age, since |-> 0] \in Accounts
    BY <2>2, Numbers DEF Accounts
  <2>5. account' \in Accounts
    BY <2>3, <2>4, TimerPlaces
  <2>6. QED
    BY <1>1, <1>3, <1>4, <1>5, <2>1, <2>5, TypePartsNext
<1>8. CASE CollectWorkersStats
  <2> DEFINE l == account.login
  <2>1. /\ l \in Asked /\ account.age \in 0 .. Slow /\ account.since \in 0 .. Slow
    BY <1>1, <1>8, AccountForms DEF CollectWorkersStats
  <2>2. l \in Logins /\ TrimRow(l, account.since) /\ UNCHANGED <<hashrate, idle, written, faults>>
    BY <1>8, <2>1, StatisticsAssumption DEF CollectWorkersStats
  <2>3. Trims /\ \A a \in row'[l] : a <= Large + account.since
    BY <1>1, <2>1, <2>2, RowTrims, Numbers
  <2>4. StoreType'
    BY <1>1, <2>3 DEF Trims, StoreType
  <2>5. row'[l] \in Pages
    <3>1. row'[l] \in SUBSET Nat
      BY <2>2, <2>4, Numbers DEF StoreType
    <3>2. QED
      BY <2>1, <2>3, <3>1, Numbers DEF Pages
  <2>6. /\ account' = [at |-> "reply", login |-> l, age |-> account.age, shown |-> row'[l]]
        /\ cache' = IF account.age > Interval THEN cache
                    ELSE [m \in DOMAIN cache \cup {l} |->
                            IF m = l THEN [age |-> account.age, shown |-> row'[l]] ELSE cache[m]]
    BY <1>8 DEF CollectWorkersStats, Shown
  <2>7. account' \in Accounts
    BY <2>1, <2>5, <2>6 DEF Accounts
  <2>8. CacheType'
    <3>1. CASE account.age > Interval
      BY <1>4, <2>6, <3>1
    <3>2. CASE ~ (account.age > Interval)
      <4>1. [age |-> account.age, shown |-> row'[l]] \in [age : 0 .. Interval, shown : Pages]
        BY <2>1, <2>5, <3>2, Numbers
      <4>2. QED
        BY <1>1, <2>1, <2>6, <3>2, <4>1 DEF CacheType
    <3>3. QED
      BY <3>1, <3>2
  <2>9. QED
    BY <1>1, <1>3, <2>2, <2>4, <2>7, <2>8, TypePartsNext
<1>9. CASE Reply
  <2>1. UNCHANGED <<store, faults, cache>> /\ account' = Idle
    BY <1>9 DEF Reply
  <2>2. QED
    BY <1>1, <1>3, <1>4, <1>5, <2>1, TimerPlaces, TypePartsNext
<1>10. CASE AccountFails
  <2>1. /\ UNCHANGED <<cache, idle, written, hashrate>> /\ account' = Idle
        /\ faults' \in 0 .. MaxFaults
    BY <1>1, <1>10, StatisticsAssumption DEF AccountFails, Fault
  <2>2. account.login \in Logins /\ account.since \in Nat
    BY <1>1, <1>10, AccountForms, StatisticsAssumption, Numbers DEF AccountFails
  <2>3. Trims
    BY <1>1, <1>10, <2>1, <2>2, NothingTrims, RowTrims DEF AccountFails, store
  <2>4. StoreType'
    BY <1>1, <2>3 DEF Trims, StoreType
  <2>5. QED
    BY <1>1, <1>3, <1>4, <2>1, <2>4, TimerPlaces, TypePartsNext
<1>11. QED
  BY <1>6, <1>7, <1>8, <1>9, <1>10

\* Every step keeps the types.
LEMMA TypeStep ==
  ASSUME TypeOK, [Next]_vars
  PROVE  TypeOK'
<1>1. /\ StoreType /\ listed \subseteq Logins /\ timer \in Timers /\ StatsType /\ CacheType
      /\ account \in Accounts /\ faults \in 0 .. MaxFaults
  BY TypeParts
<1>2. ASSUME NEW l \in Logins, WriteShare(l)
      PROVE  TypeOK'
  <2>1. StoreType' /\ UNCHANGED <<listed, timer, stats, cache, account, faults>>
    BY <1>1, <1>2, ShareType
  <2>2. QED
    BY <1>1, <2>1, TypePartsNext DEF StatsType, CacheType
<1>3. CASE Replicate
  <2>1. /\ listed' = Rows /\ UNCHANGED <<store, stats, cache, account, faults>>
        /\ timer' = IF timer.at = "scan" THEN [timer EXCEPT !.left = @ \cap Rows] ELSE timer
    BY <1>3 DEF Replicate
  <2>2. timer' \in Timers
    <3>1. CASE timer.at = "scan"
      <4>1. timer \in [at : {"scan"}, start : BOOLEAN, since : 0 .. Slow,
                       left : SUBSET Logins, done : SUBSET Logins]
        BY <1>1, <3>1, TimerForms
      <4>2. QED
        BY <2>1, <3>1, <4>1 DEF Timers
    <3>2. QED
      BY <1>1, <2>1, <3>1
  <2>3. QED
    BY <1>1, <2>1, <2>2, TypePartsNext DEF StoreType, store, StatsType, CacheType, Rows
<1>4. CASE UNCHANGED vars
  BY <1>1, <1>4, TypePartsNext DEF vars, store, StoreType, StatsType, CacheType
<1>5. QED
  BY <1>2, <1>3, <1>4, TickType, TimerType, AccountType DEF Next, TimerStep

\* Every variable has its type, and each place of a goroutine its locals.
THEOREM TypeCorrect == Spec => []TypeOK
<1>1. Init => TypeOK
  <2> SUFFICES ASSUME Init PROVE TypeOK
    OBVIOUS
  <2>1. StoreType
    BY Numbers DEF Init, StoreType, NobodyYet
  <2>2. timer \in Timers /\ account \in Accounts
    BY TimerPlaces DEF Init, Starting
  <2>3. StatsType
    BY Numbers DEF Init, StatsType, NoStats
  <2>4. DOMAIN cache = {}
    BY DEF Init
  <2>5. CacheType
    BY <2>4 DEF CacheType, Init
  <2>6. listed \subseteq Logins /\ faults \in 0 .. MaxFaults
    BY StatisticsAssumption DEF Init
  <2>7. QED
    BY <2>1, <2>2, <2>3, <2>5, <2>6, TypeParts
<1>2. TypeOK /\ [Next]_vars => TypeOK'
  BY TypeStep
<1>3. QED
  BY <1>1, <1>2, PTL DEF Spec
-----------------------------------------------------------------------------
(* No row loses a share inside its window *)

\* Every step keeps the shares of the windows.
LEMMA RowStep ==
  ASSUME TypeOK, RowInv, [Next]_vars
  PROVE  RowInv'
<1>1. StoreType /\ WindowKept /\ Awake
  BY TypeParts DEF RowInv
<1>2. ASSUME NEW l \in Logins, WriteShare(l)
      PROVE  RowInv'
  <2>1. /\ hashrate' = [hashrate EXCEPT ![l] = @ \cup {0}] /\ row' = [row EXCEPT ![l] = @ \cup {0}]
        /\ written' = [written EXCEPT ![l] = @ \cup {0}] /\ idle' = [idle EXCEPT ![l] = 0]
    BY <1>1, <1>2, ShareType
  <2>2. WindowKept'
    BY <1>1, <2>1 DEF StoreType, WindowKept
  <2>3. Awake'
    <3>1. \A a \in written'[l] : idle'[l] <= a
      BY <1>1, <2>1, Numbers DEF StoreType
    <3>2. \A m \in Logins : m # l => \A a \in written'[m] : idle'[m] <= a
      BY <1>1, <2>1 DEF StoreType, Awake
    <3>3. QED
      BY <3>1, <3>2 DEF Awake
  <2>4. QED
    BY <2>2, <2>3 DEF RowInv
<1>3. CASE Tick
  <2> SUFFICES ASSUME NEW l \in Logins, NEW b \in written'[l]
               PROVE  /\ b \in row'[l] /\ (b <= Small => b \in hashrate'[l])
                      /\ idle'[l] <= b
    BY DEF RowInv, WindowKept, Awake
  <2>1. /\ written'[l] = Within(written[l]) /\ idle'[l] <= idle[l] + 1
        /\ \A a \in hashrate[l] : a <= Small => a + 1 \in hashrate'[l]
        /\ ~ Expired(l) => \A a \in row[l] : a <= Large => a + 1 \in row'[l]
        /\ StoreType'
    BY <1>1, <1>3, TickStore
  <2>2. written[l] \in SUBSET Nat
    BY <1>1, Numbers DEF StoreType
  <2> DEFINE a == b - 1
  <2>3. a \in written[l] /\ a < Large /\ a \in Nat /\ a + 1 = b
    BY <2>1, <2>2, WithinIs
  <2> HIDE DEF a
  <2>4. a \in 0 .. Large /\ a <= Large
    BY <2>3, Numbers
  <2>5. a \in row[l] /\ (a <= Small => a \in hashrate[l]) /\ idle[l] <= a
    BY <1>1, <2>3, <2>4 DEF WindowKept, Awake
  <2>6. idle[l] \in Nat /\ idle'[l] \in Nat
    BY <1>1, <2>1, Numbers DEF StoreType
  <2>7. ~ Expired(l)
    BY <2>3, <2>5, <2>6, Numbers DEF Expired
  <2>8. b \in row'[l]
    BY <2>1, <2>3, <2>4, <2>5, <2>7
  <2>9. b <= Small => b \in hashrate'[l]
    BY <2>1, <2>3, <2>5, Numbers
  <2>10. idle'[l] <= b
    BY <2>1, <2>3, <2>5, <2>6
  <2>11. QED
    BY <2>8, <2>9, <2>10
<1>4. CASE Trims
  BY <1>1, <1>4 DEF Trims, RowInv, WindowKept, Awake, StoreType
<1>5. QED
  BY <1>2, <1>3, <1>4, StoreSteps

\* The shares of the windows are kept.
LEMMA RowsKept == Spec => []RowInv
<1>1. Init => RowInv
  BY DEF Init, RowInv, WindowKept, Awake, NobodyYet
<1>2. TypeOK /\ RowInv /\ [Next]_vars => RowInv'
  BY RowStep
<1>3. QED
  BY <1>1, <1>2, TypeCorrect, PTL DEF Spec

\* No share is deleted from a row before its window is over (redis.go:636, 679,
\* 733), whoever trims it, by whatever time, and no row expires before
\* (redis.go:255-261).
THEOREM SharesStay == Spec => []WindowKept
<1>1. RowInv => WindowKept
  BY DEF RowInv
<1>2. QED
  BY <1>1, RowsKept, PTL

-----------------------------------------------------------------------------
(* No view is older than it may be *)

\* Nothing that is shown changes while the rows only lose shares.
LEMMA ViewsStay ==
  ASSUME ViewInv, UNCHANGED written,
         cache' = cache, stats' = stats,
         account'.at = "reply" => account' = account,
         timer'.at = "luck" => timer' = timer
  PROVE  ViewInv'
BY DEF ViewInv, CacheFresh, ReplyFresh, StatsFresh, LuckFresh

\* A share makes no view stale: all it may miss is younger than itself.
LEMMA ShareViews ==
  ASSUME TypeOK, ViewInv, NEW l \in Logins, WriteShare(l)
  PROVE  ViewInv'
<1>1. /\ StoreType /\ timer \in Timers /\ StatsType /\ CacheType /\ account \in Accounts
      /\ CacheFresh /\ ReplyFresh /\ StatsFresh /\ LuckFresh
  BY TypeParts DEF ViewInv
<1>2. /\ written' = [written EXCEPT ![l] = @ \cup {0}]
      /\ UNCHANGED <<timer, stats, cache, account>>
  BY <1>1, ShareType
<1>3. \A m \in Logins : \A a \in written'[m] : a \in written[m] \/ a = 0
  BY <1>1, <1>2 DEF StoreType
<1>4. CacheFresh'
  <2>1. \A m \in DOMAIN cache : m \in Logins /\ cache[m].age \in Nat
    BY <1>1, Numbers, StatisticsAssumption DEF CacheType
  <2>2. QED
    BY <1>1, <1>2, <1>3, <2>1 DEF CacheFresh
<1>5. ReplyFresh'
  <2>1. account.at = "reply" => account.login \in Logins /\ account.age + Interval \in Nat
    BY <1>1, AccountForms, Numbers, StatisticsAssumption
  <2>2. QED
    BY <1>1, <1>2, <1>3, <2>1 DEF ReplyFresh
<1>6. StatsFresh'
  <2>1. stats.age \in Nat
    BY <1>1, Numbers DEF StatsType
  <2>2. QED
    BY <1>1, <1>2, <1>3, <2>1 DEF StatsFresh
<1>7. LuckFresh'
  <2>1. timer.at = "luck" => timer.since \in Nat
    BY <1>1, TimerForms, Numbers
  <2>2. QED
    BY <1>1, <1>2, <1>3, <2>1 DEF LuckFresh
<1>8. QED
  BY <1>4, <1>5, <1>6, <1>7 DEF ViewInv

\* The passing of time makes no view stale before it is dropped.
LEMMA TickViews ==
  ASSUME TypeOK, ViewInv, Tick
  PROVE  ViewInv'
<1>1. /\ StoreType /\ timer \in Timers /\ StatsType /\ CacheType /\ account \in Accounts
      /\ CacheFresh /\ ReplyFresh /\ StatsFresh /\ LuckFresh
  BY TypeParts DEF ViewInv
<1>2. ASSUME NEW l \in Logins, NEW b \in written'[l]
      PROVE  \E a \in written[l] : a \in Nat /\ a + 1 = b /\ a < Large
  <2>1. written[l] \in SUBSET Nat /\ written'[l] = Within(written[l])
    BY <1>1, TickStore, Numbers DEF StoreType
  <2>2. b - 1 \in written[l] /\ b - 1 < Large /\ b - 1 \in Nat /\ (b - 1) + 1 = b
    BY <1>2, <2>1, WithinIs
  <2>3. QED
    BY <2>2
<1>3. CacheFresh'
  <2>1. cache' = [l \in {m \in DOMAIN cache : cache[m].age < Interval} |->
                    [age |-> cache[l].age + 1, shown |-> Within(cache[l].shown)]]
    BY DEF Tick
  <2> SUFFICES ASSUME NEW l \in DOMAIN cache', NEW b \in written'[l], b > cache'[l].age
               PROVE  b \in cache'[l].shown
    BY DEF CacheFresh
  <2>2. /\ l \in DOMAIN cache /\ l \in Logins
        /\ cache'[l].age = cache[l].age + 1 /\ cache'[l].shown = Within(cache[l].shown)
    BY <1>1, <2>1, StatisticsAssumption DEF CacheType
  <2>3. PICK a \in written[l] : a \in Nat /\ a + 1 = b /\ a < Large
    BY <1>2, <2>2
  <2>4. cache[l].age \in Nat /\ cache[l].shown \in SUBSET Nat
    BY <1>1, <2>2, Numbers DEF CacheType, Pages
  <2>5. a \in cache[l].shown
    BY <1>1, <2>2, <2>3, <2>4 DEF CacheFresh
  <2>6. QED
    BY <2>2, <2>3, <2>4, <2>5, WithinIs
<1>4. ReplyFresh'
  <2> SUFFICES ASSUME account'.at = "reply", NEW b \in written'[account'.login],
                      b > account'.age + Interval
               PROVE  b \in account'.shown
    BY DEF ReplyFresh
  <2>1. account.at = "reply"
    <3>1. CASE account.at = "exists"
      BY <1>1, <3>1, AccountForms DEF Tick
    <3>2. CASE account.at = "workers"
      BY <1>1, <3>2, AccountForms DEF Tick
    <3>3. CASE account.at = "idle"
      BY <3>3 DEF Tick
    <3>4. QED
      BY <1>1, <3>1, <3>2, <3>3, AccountForms
  <2>2. /\ account' = [account EXCEPT !.age = @ + 1, !.shown = Within(@)]
        /\ account \in [at : {"reply"}, login : Asked, age : 0 .. Slow, shown : Pages]
    BY <1>1, <2>1, AccountForms DEF Tick
  <2>3. /\ account'.login = account.login /\ account'.age = account.age + 1
        /\ account'.shown = Within(account.shown)
        /\ account.login \in Logins /\ account.age \in Nat /\ account.shown \in SUBSET Nat
    BY <2>2, StatisticsAssumption, Numbers DEF Pages
  <2>4. PICK a \in written[account.login] : a \in Nat /\ a + 1 = b /\ a < Large
    BY <1>2, <2>3
  <2>5. a \in account.shown
    BY <1>1, <2>1, <2>3, <2>4, Numbers DEF ReplyFresh
  <2>6. QED
    BY <2>3, <2>4, <2>5, WithinIs
<1>5. StatsFresh'
  <2> SUFFICES ASSUME NEW l \in Logins, NEW b \in written'[l], b > stats'.age, b <= Small
               PROVE  l \in stats'.miners
    BY DEF StatsFresh
  <2>1. PICK a \in written[l] : a \in Nat /\ a + 1 = b /\ a < Large
    BY <1>2
  <2>2. stats.age \in Nat
    BY <1>1, Numbers DEF StatsType
  <2>3. CASE stats.age + 1 < Small
    <3>1. stats'.age = stats.age + 1 /\ stats'.miners = stats.miners
      BY <1>1, <2>3 DEF Tick, StatsType
    <3>2. QED
      BY <1>1, <2>1, <2>2, <3>1, Numbers DEF StatsFresh
  <2>4. CASE ~ (stats.age + 1 < Small)
    <3>1. stats'.age = Small
      BY <2>4 DEF Tick, NoStats
    <3>2. QED
      BY <2>1, <3>1, Numbers
  <2>5. QED
    BY <2>3, <2>4
<1>6. LuckFresh'
  <2> SUFFICES ASSUME timer'.at = "luck", NEW l \in Logins, NEW b \in written'[l],
                      b > timer'.since, b <= Small
               PROVE  l \in timer'.miners
    BY DEF LuckFresh
  <2>1. timer.at # "idle" /\ timer' = [timer EXCEPT !.since = @ + 1]
    BY DEF Tick
  <2>2. timer.at = "luck"
    BY <1>1, <2>1, TimerForms
  <2>3. /\ timer'.since = timer.since + 1 /\ timer'.miners = timer.miners
        /\ timer.since \in Nat
    BY <1>1, <2>1, <2>2, TimerForms, Numbers
  <2>4. PICK a \in written[l] : a \in Nat /\ a + 1 = b /\ a < Large
    BY <1>2
  <2>5. QED
    BY <1>1, <2>2, <2>3, <2>4, Numbers DEF LuckFresh
<1>7. QED
  BY <1>3, <1>4, <1>5, <1>6 DEF ViewInv

\* The MULTIs read rows that hold every share they must.
LEMMA ReadViews ==
  ASSUME TypeOK, ViewInv, RowInv', CollectStats \/ CollectWorkersStats
  PROVE  ViewInv'
<1>1. /\ StoreType /\ timer \in Timers /\ account \in Accounts /\ CacheType
      /\ CacheFresh /\ ReplyFresh /\ StatsFresh /\ LuckFresh
  BY TypeParts DEF ViewInv
<1>2. written' = written
  BY DEF CollectStats, CollectWorkersStats
<1>3. \A l \in Logins : \A a \in written[l] : a \in row'[l] /\ (a <= Small => a \in hashrate'[l])
  BY <1>1, <1>2 DEF RowInv, WindowKept, StoreType
<1>4. CASE CollectStats
  <2>1. /\ timer' = [at |-> "luck", since |-> 0, miners |-> {l \in Logins : hashrate'[l] # {}}]
        /\ UNCHANGED <<stats, cache, account>>
    BY <1>4 DEF CollectStats
  <2>2. LuckFresh'
    BY <1>2, <1>3, <2>1 DEF LuckFresh
  <2>3. QED
    BY <1>1, <1>2, <2>1, <2>2 DEF ViewInv, CacheFresh, ReplyFresh, StatsFresh
<1>5. CASE CollectWorkersStats
  <2> DEFINE l == account.login
  <2>1. /\ account' = [at |-> "reply", login |-> l, age |-> account.age, shown |-> row'[l]]
        /\ cache' = IF account.age > Interval THEN cache
                    ELSE [m \in DOMAIN cache \cup {l} |->
                            IF m = l THEN [age |-> account.age, shown |-> row'[l]] ELSE cache[m]]
        /\ UNCHANGED <<timer, stats>> /\ l \in Logins
    BY <1>1, <1>5, AccountForms, StatisticsAssumption DEF CollectWorkersStats, Shown
  <2>2. ReplyFresh'
    BY <1>2, <1>3, <2>1 DEF ReplyFresh
  <2>3. CacheFresh'
    <3> SUFFICES ASSUME NEW m \in DOMAIN cache', NEW a \in written[m], a > cache'[m].age
                 PROVE  a \in cache'[m].shown
      BY <1>2 DEF CacheFresh
    <3>1. CASE account.age > Interval \/ m # l
      <4>1. m \in DOMAIN cache /\ cache'[m] = cache[m]
        BY <2>1, <3>1
      <4>2. QED
        BY <1>1, <4>1 DEF CacheFresh
    <3>2. CASE ~ (account.age > Interval) /\ m = l
      <4>1. cache'[m].shown = row'[l]
        BY <2>1, <3>2
      <4>2. QED
        BY <1>3, <2>1, <3>2, <4>1
    <3>3. QED
      BY <3>1, <3>2
  <2>4. QED
    BY <1>1, <1>2, <2>1, <2>2, <2>3 DEF ViewInv, StatsFresh, LuckFresh
<1>6. QED
  BY <1>4, <1>5

\* Every step keeps the views fresh.
LEMMA ViewStep ==
  ASSUME TypeOK, ViewInv, RowInv', [Next]_vars
  PROVE  ViewInv'
<1>1. /\ timer \in Timers /\ account \in Accounts /\ CacheType
      /\ CacheFresh /\ ReplyFresh /\ StatsFresh /\ LuckFresh
  BY TypeParts DEF ViewInv
<1>2. CASE UNCHANGED vars
  BY <1>2, ViewsStay DEF vars, store
<1>3. CASE Replicate
  <2>1. /\ UNCHANGED <<written, stats, cache, account>>
        /\ timer' = IF timer.at = "scan" THEN [timer EXCEPT !.left = @ \cap Rows] ELSE timer
    BY <1>3 DEF Replicate, store
  <2>2. timer'.at = "luck" => timer' = timer
    BY <1>1, <2>1, TimerForms
  <2>3. QED
    BY <2>1, <2>2, ViewsStay
<1>4. CASE PurgeTimer \/ FlushPool \/ FlushEnd \/ StatsTimer \/ TimerFails
  <2>1. UNCHANGED <<written, stats, cache, account>> /\ timer'.at # "luck"
    BY <1>4 DEF PurgeTimer, FlushPool, FlushEnd, StatsTimer, TimerFails, store, Idle, Collecting
  <2>2. QED
    BY <2>1, ViewsStay
<1>5. ASSUME NEW l \in Logins, FlushRow(l)
      PROVE  ViewInv'
  <2>1. UNCHANGED <<written, stats, cache, account>> /\ timer'.at # "luck"
    BY <1>1, <1>5, TimerForms DEF FlushRow, At
  <2>2. QED
    BY <2>1, ViewsStay
<1>6. CASE StoreStats
  <2>1. /\ timer.at = "luck" /\ stats' = [miners |-> timer.miners, age |-> timer.since]
        /\ timer' = Idle /\ UNCHANGED <<written, cache, account>>
    BY <1>6 DEF StoreStats, At, store
  <2>2. QED
    BY <1>1, <2>1 DEF ViewInv, CacheFresh, ReplyFresh, StatsFresh, LuckFresh, Idle
<1>7. ASSUME NEW l \in Asked, AccountIndex(l)
      PROVE  ViewInv'
  <2>1. UNCHANGED <<written, stats, cache, timer>>
    BY <1>7 DEF AccountIndex, Cached, store
  <2>2. ReplyFresh'
    <3>1. CASE l \in DOMAIN cache
      <4>1. account' = [at |-> "reply", login |-> l, age |-> 0, shown |-> cache[l].shown]
        BY <1>7, <3>1 DEF AccountIndex
      <4>2. cache[l].age \in 0 .. Interval /\ l \in Logins
        BY <1>1, <3>1, StatisticsAssumption DEF CacheType
      <4>3. \A a \in written[l] : a \in Nat
        BY <4>2, TypeParts, Numbers DEF StoreType
      <4>4. \A a \in written[l] : a > 0 + Interval => a > cache[l].age
        BY <4>2, <4>3, Numbers
      <4>5. QED
        BY <1>1, <2>1, <3>1, <4>1, <4>4 DEF ReplyFresh, CacheFresh
    <3>2. CASE l \notin DOMAIN cache
      BY <1>7, <3>2 DEF AccountIndex, ReplyFresh
    <3>3. QED
      BY <3>1, <3>2
  <2>3. QED
    BY <1>1, <2>1, <2>2 DEF ViewInv, CacheFresh, StatsFresh, LuckFresh
<1>8. CASE GetMinerStats \/ Reply \/ AccountFails
  <2>1. UNCHANGED <<written, stats, cache, timer>> /\ account'.at # "reply"
    BY <1>8 DEF GetMinerStats, Reply, AccountFails, store, Idle
  <2>2. QED
    BY <2>1, ViewsStay
<1>9. QED
  BY <1>2, <1>3, <1>4, <1>5, <1>6, <1>7, <1>8, ShareViews, TickViews, ReadViews DEF Next

\* An account's page misses no share made more than an interval before the
\* request, however long cache and store took (server.go:258-302), and a
\* snapshot no miner that was there before it was taken (server.go:137-153).
THEOREM ViewsKeepUp == Spec => []ViewsAreFresh
<1>1. Init => ViewInv
  BY DEF Init, ViewInv, CacheFresh, ReplyFresh, StatsFresh, LuckFresh, NobodyYet, Idle, Starting
<1>2. TypeOK /\ ViewInv /\ RowInv' /\ [Next]_vars => ViewInv'
  BY ViewStep
<1>3. ViewInv => ViewsAreFresh
  BY DEF ViewInv, ReplyFresh, StatsFresh, ViewsAreFresh
<1>4. QED
  BY <1>1, <1>2, <1>3, TypeCorrect, RowsKept, PTL DEF Spec

=============================================================================
