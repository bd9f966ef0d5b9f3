# A verification development of open-overline-pool

TLA+ models of the pool's core, TLC configurations that check them on small
instances, and TLAPS proofs, for every instance, of the safety properties those
runs check. Line numbers refer to the repository under `src/`.

## 1. The system

The pool is one Go program whose parts run as separate processes (any subset
per process, `main.go`), joined only by Redis and by the blockchain node. Writes
go to a Redis leader; most reads go to a follower that may be behind
(`storage/redis.go`, `_leadClient` and `_followClient`).

```
 miners --stratum/http--> proxy --ol_submitWork, ol_getWork--> node
                            | pow, shares:roundCurrent, shares:round<h>:<hash>,
                            | blocks:candidates
                            v
                          Redis leader ----replication----> follower
                            ^   ^ balance, pending, paid,       |
   blocks:*, credits:*,     |   | payments:*                    v (reads)
   immature, balance        |   |
                         unlocker   payouts ---sendTransaction---> node
```

### Inventory

| Component | State it keeps | Operations | Hard behaviour | Correct when |
|---|---|---|---|---|
| **Payouts** `payouts/payer.go` | the lock, pending payments, balances, log of payments (Redis); `halt`, `lastFail` (process) | `process`, `resolvePayouts`, `LockPayouts`, `UpdateBalance`, `WritePayment`, `RollbackBalance`, `UnlockPayouts` | every command or call may fail after it took effect; crash between two; reads from the follower; the unlocker credits meanwhile; a human restarts and resolves | money is conserved, nothing is sent twice or credited back after it was sent, one payment at a time, each balance is paid in the end |
| **Block unlocker** `payouts/unlocker.go` | lists of candidates, immature and matured blocks, rounds, promised and paid rewards (Redis); `halt` | `unlockPendingBlocks`, `unlockAndCreditMiners`, `WriteImmatureBlock`, `WriteMaturedBlock`, `WriteOrphan`, `WritePendingOrphans` | reorganizations between two questions to the node, dropped errors, crashes between rows, stale reads | a block is paid once, in full, and only if the chain has it; promises are taken back exactly; every block settles |
| **Reward arithmetic** `unlocker.go:445-515` | none | `calculateRewards`, `calculateRewardsForShares`, `chargeFee`, `weiToShannonInt64` | rounding per miner | rewards add up to the block's reward within a bound |
| **Share and block submission** `proxy/miner.go`, `redis.go:185-261` | current round, closed rounds, duplicate list, candidates (Redis) | `processShare`, `WriteShare`, `WriteBlock`, `checkPoWExist` | concurrent sessions, a block accepted while the template changes, retries, crash between the MULTI and the candidate | each share is in one round, each candidate has its round, no accepted block is lost, nothing is counted twice |
| **Block templates** `proxy/blocks.go` | the template, its backlog of jobs, the mark of a submitted block | `fetchBlockTemplate` from the timer and from sessions | overlapping calls whose results are stored in any order; panics on a failed call | the template catches up with the node; recent jobs stay valid |
| **Stratum sessions** `proxy/stratum.go`, `handlers.go` | set of sessions, accept channel, deadlines | login, submit, broadcast, removal | a slow client, broadcast against removal, the limit of connections | places are given back, no closed session stays registered |
| **Upstreams and health** `proxy.go:160-335`, `rpc.go` | current upstream, sick and success counters, `failsCount` | `checkUpstreams`, `markSick`, `markAlive` | counters updated by every call | the first healthy upstream is used; a recovered one returns |
| **Policy server** `policy/policy.go` | per IP: shares, malformed requests, limits, ban time; black and white lists | `ApplyLimitPolicy`, `ApplyLoginPolicy`, `ApplySharePolicy`, `ApplyMalformedPolicy`, resets | counters of one address under concurrent sessions, resets and refreshes | bans follow the configured ratios, expire, and spare whitelisted addresses |
| **Statistics and API** `api/server.go`, `redis.go:588-787` | rows of the hashrate windows (Redis); a snapshot and a cache of account pages (process) | `writeShare`, `FlushStaleStats`, `CollectStats`, `CollectWorkersStats`, `AccountIndex`, the views | three writers that trim the same rows by times of their own; a scan of the follower; a cache used while the store is slow | no share is dropped inside its window, every old one goes, no view is older than the interval |
| **Proof of work, utilities, configuration** | none | hashing, formatting, parsing | none | pure functions |

Interactions that matter: the proxy writes rounds and candidates that the
unlocker reads; the unlocker credits balances that payouts pay; both halves of
the unlocker and the payouts module read the follower and write the leader.

The hazards of this code are listed in `PROJECT.json` at the line where each
bites, with the properties that would catch it.

This commit does not compile as it stands (`proxy.go:66-67` use `v` and `i`
before they exist, `payer.go:58` and `proxy.go:70-71` pass `NewRPCClient` fewer
arguments than it takes, the unlocker's tests name constants that are gone).
The models follow the evident intent: upstreams are made in the loop, and the
clients get their URL.

## 2. Modules

| Module | Models | Lines |
|---|---|---|
| `PayoutContract` | what payouts promise a miner: earn, reserve, transfer, settle or refund | abstract |
| `Payouts` | sessions, maintenance runs, the store, the follower, the node | `payer.go`, `redis.go:361-470`, `rpc.go` |
| `RewardContract` | what the unlocker promises the miners of a round | abstract |
| `PoolLedger` | payouts and the unlocker, the latter as its contract, over one set of accounts | `main.go:35-43, 105-110`, `redis.go:489-531` |
| `Unlocker` | both halves of a pass, rows, rounds, promises, the chain | `unlocker.go:41-398`, `redis.go:303-333, 471-586` |
| `Shares` | templates, sessions, rounds, duplicates, candidates | `blocks.go`, `miner.go`, `redis.go:185-261` |
| `Stratum` | the accept loop, handlers, the registry of sessions, broadcasts | `stratum.go`, `handlers.go:20-55` |
| `Upstream` | health counters of the RPC clients, the choice of the upstream, the proxy's own health | `proxy.go:57-179, 313-327`, `rpc.go:363-474` |
| `Policy` | records, counters and bans of an IP, reset pass, refresh | `policy.go` |
| `Rewards` | the amounts of a block's rewards | `unlocker.go:445-501` |
| `Statistics` | hashrate rows, purge, snapshot, account pages and their cache | `api/server.go`, `redis.go:255-261, 588-744` |
| `MCPayouts`, `MCLedger`, `MCUnlocker`, `MCShares`, `MCStratum`, `MCUpstream`, `MCPolicy`, `MCRewards`, `MCStatistics` | small instances for TLC | |
| `PayoutsProofs`, `UnlockerProofs`, `SharesProofs`, `PolicyProofs`, `RewardsProofs`, `StatisticsProofs` | theorems about the module each is named for; `PayoutsProofs` also about `PoolLedger` | |
| `ProxyProofs` | theorems about `Stratum` and `Upstream`, both of which it extends | |
| `Sums` | theorems about sums over finite sets, used by four of the others | |

### Payouts

A label `pc` walks through `process` (readings of the follower, `funds`, `lock`,
`debit`, `send`, `resend`, `wait`, `record`) or through `resolvePayouts`
(`readPending`, `rollback`, `unlock`). One action is one Redis command, MULTI
block or node call with the branch the code takes on its result. `Failing(A)` is
a command that returns an error: A happened, or did not. The unlocker's credits
(`Credit`, the whole MULTI of a matured block), replication (`Replicate`), mining (`Mine`), the operator (`Stop`,
`StartNormal`, `StartResolve`) and `Crash` are the environment. `credited`,
`sent`, `astray` and `faults` are history, not program state.

Nothing in the code keeps it from paying twice in two places, and the model has
both. A call that comes back without a hash is sent again (`payer.go:189-199`),
whether or not the node took the first transaction. `resolvePayouts` (`payer.go:289`)
credits back whatever is pending, and `docs/PAYOUTS.md:39` allows that for a payment
"not logged and not confirmed", so also for one that is broadcast and not mined
yet; the model lets the operator run it at any time, even on one that is mined.
`astray[l]` counts what the books gave up on in either way: `GiveUp` at an empty hash
the node took, `CreditBack` at a payment that is out (`IsOut`). The properties about
the chain are exact with it: `SentIsAccounted` says that nothing else is ever sent
twice or credited back after it was sent.

The follower shows a sequence of past views of the leader. `~Lagging` means that
a session, or maintenance run, is started only after the follower has applied
what was written before: the interval between passes and the operator's look at
the logs are far longer than replication. Within a session no such thing is
assumed. What `CaughtUp` leaves out is that very race, a start on a stale lock or
list (`LockIsSeen` in section 4).

### PoolLedger

Payouts and the unlocker are processes of their own that never call each other
and meet in one command, the MULTI of `WriteMaturedBlock`: it moves the row of a
block, takes its promise back and adds to the balances that payouts pay out. In
`Payouts` this is the environment's `Credit` of any of the `Rewards`; in `Unlocker`
it is the write that pays `Share[b]`. `PoolLedger` makes it one step,
`WriteMaturedBlock(b) == Settlement!Pay(b) /\ Credit(Share[b])`; every other step is
one side's alone. The unlocker's side is `RewardContract`, whose variables `stage`,
`promised` and `kept` (blocks the chain will not give up any more) stand for its
lists, its promises and the chain; `earned` is what payouts call `credited`. That
the unlocker's program is such a side is `Implementation` in `UnlockerProofs`, where
`kept` is the set of blocks of the chain that lie `Depth` below its tip. The lag of
the follower is shared only in that credits join the stream of views payouts read;
the unlocker's own reads are inside its contract.

### Unlocker

`pass` tells the two halves apart, `pc` where a half is: asking for the latest
block, selecting rows, asking for each block by hash and by height, writing
orphans, reading a round's shares, writing a row. Rows are blocks, their
contents the constants `Height` and `Share`; the amounts `Share[b]` stand for
what `calculateRewards` returns (module `Rewards`). The chain may lose
or exchange a block less than `Depth` below its tip, between any two questions.
What the node answers for a hash off the chain is left open: a block, an empty
one, or a null, which panics in `getBlockBy` (`NullHash`, `rpc.go:233`). The errors the
code drops are dropped in the model: a failed `GetBlockByHash` reads as no block, a
failed `HGETALL` as no promise. Two history variables keep what that costs, `unheard`
(blocks the node was last asked for in vain) and `forgotten` (promises deleted
and not taken back), and the properties state the loss exactly.

A candidate is matched to the chain by the *previous hash* of the block after it,
so its true height is its row's: the renaming in `writeImmatureBlock` never
happens and is not modelled. Rounds of different blocks have different keys;
`Shares` shows why (`CandidateHasRound`). A pass starts when the follower has
applied the unlocker's own writes (`CaughtUp`; the interval is minutes), unless `Lagging`.

### Shares

Threads are the sessions and the refresh timer; each runs `fetchBlockTemplate` in
three steps (read the template, ask the node, store) that interleave with all
others. A session's request then submits to the node, fetches, asks the
duplicate list, runs the MULTI and adds the candidate, each a step of its own.
The template captured at the start (`seen`) gives the hash of the round and the
tail of the duplicate entry, as in `miner.go:66`; the height is the solution's.
A failed `GetWork` makes `reply[8]` panic (`blocks.go:73`): it ends the process,
or the handler of an HTTP request. Whether a solution meets the block's
difficulty is its property (`Winning`); `Resent` are solutions whose miner does not wait
for the first answer. The node takes one block per height and says so in its
reply. The total of a candidate (`total`) is what the
HGETALL at the end of the MULTI returned. The works of the node are totally
ordered: its own forks between works are left out.

### Stratum

`pc` is a session's place: taken by the accept loop (`accepted`), or in its handler
(`read`, `register` and `check` before the lock of the registry, `fail` before its
removal). `places` is the length of the accept channel. A write under
`Session.Lock` is one step: it works while the connection is `up`, and a
connection that does not take a write (`jammed`, as a deadline leaves it: the
encoder keeps its error) never takes another, although the peer may go on
sending. An error reply ends the handler whether it can be written or not.

`sessionsMu` appears as guards: `LockSessions` holds it for reading until `Unlock`,
a writer needs that no broadcast holds it, and a waiting writer keeps readers
from joining others. Each stored template starts a broadcast, which loads the
newest template, then takes the lock, then starts one goroutine per session
with at most `BcastCap` of them before their `<-bcast`. What the policy and the
share logic decide is left open. A flood ends a handler with a nil error, so
its session stays registered: `flooded` names those.

### Upstream

A client has `sick`, `sickRate` and `successRate`, changed by the failures of any
goroutine's call (`MarkSick`) and by good checks (`MarkAlive`). The loop of
`checkUpstreams` asks the clients one after the other, each `Check` in three steps
(`GetWork`, `markAlive`, `Sick`); fetches and submissions pick a client and call it
later. A node may be up, down, `odd` (its reply has no template, or does not decode:
either nothing is wrong to `Check`, or it sees an error that no counter notes) or
answer a JSON null, which panics in whoever decodes it (`rpc.go:188, 283`). A fetch whose `GetWork` fails or
gives less than nine strings panics and ends the process, as in `Shares`; whoever
starts it again finds new clients and the first upstream. `failsCount` is the proxy's
own health, which only a failed or good write of the node's state changes.

### Policy

Records (`heap`) are told from the map that names them (`stats`): a call holds a
pointer and may use a record that the reset pass has deleted meanwhile. The
counting under the record's lock is one step; `forceBan` is three (whitelist and
`BannedAt`, the swap of `Banned`, the send to the ban channel), and so is the reset
pass for a record (loading both times, `BannedAt = 0`, swap and deletion). Times
are ages in ticks. No tick falls into a ban or a pass: both take microseconds, a
tick stands for the minutes of `banning.timeout` and `resetInterval`. Only the calls of
Stratum sessions are modelled. `ipset` is not: a session of a banned IP that is
open stays open in the model and may offend again. `since`, `raced` and `quiet` are
history: when the last ban was made, whether a reset pass ran meanwhile, and how
long the IP has not called since. Of the malformed counter, which nothing resets,
only what is below the limit is kept. `banning.timeout` and `resetInterval` are independent, as
in the code.

### Rewards

`calculateRewards` adds amounts to one map: the shares in any order, the donation,
the pool's rest. Rational numbers are integers in a unit that makes all
quotients exact; `WeiToShannon` is the rounding of `Rat.FloatString(0)`. Fees are exact
percentages where the code goes through a float.

### Statistics

A row is the set of the ages of its shares, in ticks; `Trimmed` deletes what was out
of a window at the time the caller read before its command, which may be ticks
ago (`since`). Three actors trim: the purge (the row of the pool, then the miners'
rows one by one as a SCAN of the follower returns them), the collection of the
snapshot, and a request for an account, which holds `minersMu` from the look into
the cache to its reply. What is too old to be answered or shown is as good as
absent: entries of the cache older than the interval and snapshots older than
the small window are dropped from the state. Whether a miner's hash has reached
the follower, and what `GetMinerStats` reads there, is left open. The goroutine, a
request, or both may meet an error with or without its effect. Left out are the
arithmetic of hashrates and luck, the purge-only mode (a second process with the same
purge) and the views, which read the snapshot in one load.

## 3. Passing runs

| Run | Instance | Shows |
|---|---|---|
| `payouts_safety` | 2 miners, blocks that bring each up to 2 around a threshold of 1, up to 3 per miner, 3 faults, follower up to 2 writes behind, maintenance runs at any time (516 618 states) | types, conservation, finances, one locked and listed payment, the chain agrees with the books but for exactly what went astray, a true log, sends only under the lock, refinement of `PayoutContract` |
| `ledger` | 2 miners, 2 blocks that bring a miner 1 to 3 around a threshold of 1, 3 faults, follower up to 2 writes behind (255 696 states) | what is sent and still owed is covered by blocks the chain keeps, but for what went astray; every balance above the threshold is paid unless something fails, under `LedgerFairSpec` |
| `unlocker_safety` | 2 blocks competing for one height, 1 at the next, 2 accounts with unequal shares, depths 1 and 2, tip up to 4, 2 faults, dropped errors included (666 470 states) | one stage per block, credited once and in full, finances, promises match immature balances but for exactly those forgotten, paid only on the chain, no block of the chain written off but those the node was asked for in vain, refinement of `RewardContract` |
| `unlocker_fair` | 2 blocks of one height, tip up to 3, 3 faults, dropped errors included (37 940 states) | every candidate settles, under `FairSpec` |
| `shares` | 2 sessions and the timer, 3 works of consecutive heights, a block of the first and of the last that are shares under another template, 1 fault (321 475 states) | shares add up over rounds, each candidate has its round, one count per template, accepted blocks are recorded, the template catches up, under `FairSpec` |
| `stratum` | 2 connections, 2 places, 1 number in `bcast`, 2 templates (636 525 states) | a place for each handler, no session left behind but by a flood, places of lost connections come back, everyone registered hears of the newest job or is removed, under `FairSpec` |
| `upstream` | 2 nodes in any of 4 states and Redis, all coming and going, client thresholds of 2 (771 616 states) | clients are sick exactly when they have failed often enough, switches go to the first alive, the proxy comes back to its first node while no node answers null, under `UpstreamFairSpec` |
| `policy` | 2 sessions of one IP, a ban of 3 ticks and a reset interval of 2, checks of 2 shares, a malformed limit of 1, limits of 2 (379 463 states) | a ban lasts unless its call met a reset pass or its IP was quiet for the interval, only sinners are banned, every ban ends, under `FairSpec` |
| `rewards` | all rounds of up to 3 miners and 3 shares each, one miner the donation account, one the pool's address, rewards around the rounding (37 440 states) | each login is given what it is owed and nothing is created or lost, but for half a Shannon of each amount |
| `statistics` | 2 miners, 3 shares at a time, windows of 1 and 2 ticks, an interval of 1, commands of up to 1 tick, 1 error, accounts of one miner asked for (681 485 states) | no share leaves a row inside its window, no page or snapshot misses what it must show, out-of-window shares go, under `FairSpec` |

**Bounds.** Three faults in payouts let a failure be followed by a failing
maintenance run and a crash; a fourth repeats. Two miners are enough for a second
payee in a session and for the replica to be stale about another miner; rewards
of 1 and 2 reach, and miss, the threshold, and a block may bring both miners
something, as its MULTI does. In `ledger` each of two blocks brings one miner a
payment, and both together bring one to the other; either may be doubted, lost or
never found. Two faults in `unlocker_safety` are a failure
and one in what follows it, such as a lost promise and a block asked for in vain. Two blocks of one height is the least
in which a candidate must become an orphan, and a third makes the loop stop early
with work left. Two sessions and a timer give every pair of
overlapping fetches; three works of consecutive heights give a template change
under a session at work, a job of an older template, two rounds, and a share
whose sweep drops the entries of the first. Depths of 1 and 2 stand for the
configured ones: only the order of the thresholds matters. `PowBacklog` is 1 and
`maxBacklog` 2 instead of 8 and 3, which lets the sweep reach a job a miner may
still send.
Two connections are the least with a session that fails while another is
waited for; a `bcast` of one number makes the broadcast wait for every push,
and two templates give two broadcasts side by side. Two nodes have a first and
another; that one failed write makes the proxy sick, and not `maxFails`, changes only
how long it takes. A node goes from one kind of trouble to another by way of "ok",
two steps with nothing that must happen between them. Two sessions of one IP are what it takes to share a record, and one
reset pass under both the race that `BanLasts` excepts; a ban longer than the reset
interval lets a quiet IP lose it, the other exception; the records of two IPs
share nothing but the pass, which visits them one by one. A Shannon of 5 wei and
rewards of 2 to 50 put amounts below, at and above a half. In `Statistics` windows of
different length tell the rows apart, a tick within a command makes its time
stale, two shares keep a row alive beyond the window of the first, and a third
is another miner's, whose row the scan may meet first.

**Fairness.** Payouts and unlocker: the process takes its next step, the follower
applies what it was sent, the node mines what it was sent (payouts) or the chain
grows (unlocker), timers fire, and the operator ends a module that has come to
its end and starts it again. `StartNormal` has strong fairness because a
maintenance run may come between. No fairness for crashes, rewards, new
blocks or a running module's stop. Shares: the timer fires, threads run, calls
return because they have timeouts; nothing makes a miner submit. Stratum:
goroutines go on, which for one that waits for a mutex is what Go's locks grant,
and a read from a connection that is not up meets its deadline; nothing makes a
peer send or a template come. Upstream: timers fire, calls return, a dead proxy
is started again. Policy: goroutines go on, and time and the reset timer, which
sessions hold up again and again, are strongly fair: `select` takes a timer that
has fired in the end. Statistics: replication and the goroutine go
on, and the purge timer is strongly fair, again because of `select`; no share, request
or tick has to come. Deadlock is checked in `shares`, `upstream` and `statistics`,
where timers never rest; in the others the whole world may stop at its bounds (no
reward left, process off), hence `CHECK_DEADLOCK FALSE`.

## 4. Where the code and its own words disagree

Two are runs that TLC must find violated; `PROJECT.json` quotes the lines.

- `payouts_halt`, `HaltedSessionEnds`: an error in the resend loop breaks out of the inner
  loop only; the session polls for the receipt of no transaction for ever.
- `upstream_failover`, `FailsOver`: with the first node down the proxy panics in its first
  fetch, again and again, and never reaches the second (`blocks.go:73`), although
  `README.md:277` says "Pool will try to get work from first alive one".

Four more are part of the models and excepted, to the Shannon or to the block, by the
properties that would otherwise not hold.

- `Payouts`, `SentIsAccounted`: a miner is paid twice when the node took a transaction and
  answered with an empty hash (`payer.go:189-199` sends again until a hash comes), and when
  a maintenance run credits back a payment that was broadcast (`payer.go:289` looks at
  nothing but the list; `docs/PAYOUTS.md:39` asks only that it be not logged and not
  confirmed). `astray` counts both.
- `Unlocker`, `LostIsOffChain`: an error of `GetBlockByHash` is only logged (the return at
  `unlocker.go:128` is commented out) and the block judged an orphan, although the
  comment at `unlocker.go:163` says "Block is lost, we didn't find any valid block" and
  `README.md:366` that the unlocker halts on node errors. One such error at maturity
  writes a block of the chain off, and its miners get nothing (`unheard`).
- `Unlocker`, `ImmatureMatches`: one failed `HGETALL` (`redis.go:493`) deletes a promise without
  taking it back, and the miners' immature balance keeps it for good (`forgotten`).
- `Policy`, `BanLasts`: with `banning.timeout` longer than `resetInterval`, a reset pass deletes the
  idle record of a banned IP, ban and all (`policy.go:137-139`), where `README.md:227` says
  "Remove ban after this amount of time".

Two liveness properties assume that a node stops answering null.
`BlocksSettle` meets the null that panics in the unlocker (`rpc.go:233`) only as a fault: a
node that answers it for the same hash for ever never lets a block settle, and
`MaxFaults` bounds how often it does. `ComesBack` asks that no node go on answering null:
`checkUpstreams` asks every node, so one that does kills the proxy in every check
(`rpc.go:188`), whichever node is in use.

The others are properties in the modules that are known not to hold; TLC finds
a counterexample to each when it is put into the cfg of its module's passing run
(`MCUnlocker_safety.cfg` for `Unlocker`), with the constants named here changed.

- `Payouts`, `ResolvedMeansUnlocked`: a maintenance run that finds no pending payment logs
  "Payouts unlocked" (`payer.go:315`, `docs/PAYOUTS.md:60`) and leaves the lock.
- `Payouts`, `LockIsSeen`, with `Lagging = TRUE`: the lock is written to the leader and
  read from the follower; a start right after a failure does not see it.
- `Unlocker`, `CreditedOnce`, with `Lagging = TRUE`: a pass that starts before the follower
  has applied the last one's rows finds a matured row still listed as immature and
  credits it again, since nothing guards the HINCRBY (`redis.go:505-521`).
- `Shares`, `CountedOnce`: the same solution counts again after the template
  changed, because the duplicate entry ends with the template's hash (`miner.go:66`).
  For one template it counts once while the node is within `PowBacklog` heights of
  the solution (`CountedOncePerTemplate`); when a slow fetch stores an older template
  after the sweep of `redis.go:188`, it can count again for that one, too.
- `Shares`, `JobsKept`: a slow fetch puts an older template over a newer one
  (`blocks.go:138`), and shares for the newest job are stale until the next refresh.
- `Policy`, `BanLastsAlways`: a ban made while the reset pass is between its loads and its
  swap of the same record (`policy.go:127-131`) is dropped at once; so is that of a quiet
  IP, above.
- `Policy`, `PercentOfAll`: `policy.go:244` divides invalid by *valid* shares, where
  `README.md:229` says "Percent of invalid shares from all shares to ban miner".
- `Stratum`, `NewestComesLast`: nothing orders the pushes of two broadcasts, so a session may
  get the older job last and keep it until the next template.
- `Rewards`, `AddUpExactly`: the rewards need not add up to the block's reward, which
  `unlocker_test.go:33` asserts of one example.

Met while modelling `Shares` and kept out of `BlocksRecorded` by naming it: a miner
that sends a winning solution twice can have the copy counted as a share before
the first request reaches `WriteBlock`, which then takes the block for a
duplicate and never makes it a candidate. With that solution counted in, TLC finds
the block lost in eleven steps, without any fault.

## 5. What is proved

TLAPS checks the theorems below for every value of the constants: any number of
miners, sessions, blocks, works and upstreams, any amounts, thresholds, lags and
numbers of faults. Together they state every safety invariant and every action
property of the passing runs, and both refinements. Assumed are the named
assumptions on the constants in each module, which TLC evaluates in the runs, and
the premises of the third column.

| Module | Theorems | Premises |
|---|---|---|
| `Payouts` | `TypeCorrect`, `MoneyIsConserved`, `TheLogIsTrue` | |
| | `Invariance`, `OnePaymentAtATime`, `BooksMatchChain`, `NobodyIsOverpaid`, `SendsAreLocked`, `Implementation` (of `PayoutContract`) | `~Lagging` |
| `PoolLedger` | `ThePoolIsSolvent` | `~Lagging` |
| `Unlocker` | `TypeCorrect` | |
| | `Invariance`, `NoBlockIsLostOrDoubled`, `PaidBlocksStay`, `EveryRewardIsCreditedOnce`, `NoChainBlockIsWrittenOff`, `PromisesAreKept`, `Implementation` (of `RewardContract`) | `~Lagging` |
| `Shares` | `TypeCorrect`, `Invariance`, `SharesAreInOneRound`, `CandidatesHaveRounds`, `SharesCountOnce`, `BlocksAreRecorded` | |
| `Stratum` | `TypeCorrect`, `Invariance`, `NoSessionIsLeftBehind` | |
| `Upstream` | `UpstreamTypes`, `UpstreamInvariance`, `TheFirstAliveIsTaken` | |
| `Policy` | `TypeCorrect`, `Invariance`, `BansLast` | |
| | `BansAreJust` | `InvalidPercent # 0` |
| `Rewards` | `Invariance`, `EachIsGivenItsDue`, `RewardsAddUp` | |
| `Statistics` | `TypeCorrect`, `SharesStay`, `ViewsKeepUp` | |

The premises are not conveniences. Without `~Lagging` the lock and the lists of
rows are read from a follower that misses the last session's writes, and TLC has
counterexamples (section 4). With an
`InvalidPercent` of 0 the comparison of `policy.go:244` bans whoever reaches the
threshold with valid shares only.

None of the properties is inductive. What each proof adds:

- **Payouts.** Whether a step may debit an amount depends on what the process read,
  which depends on the follower. `ReplicaInv`: the newest view is the leader's state, and
  any view a session may still be shown has balances *at most* the leader's for
  miners it has not visited, since only its own payments lower a balance and it
  visits a miner once. `ProcessInv`: before the debit the amount is covered, from the
  debit to the record the lock and the only pending row are the payment in hand,
  and whether it is on the chain yet. `BooksInv` holds the books. `StepKinds` reduces
  `Next` to the writes of the store; `BooksStep`, `ReplicaStep` and `ProcessStep`
  preserve one part each from all of `IInv`, and `ContractStep` maps a step to the
  contract's. The log has an invariant of its own, `LogInv` with `Finances`, that needs no
  bound on the lag: a hash is forgotten with the payment it is of, so the one in
  hand is not logged yet, and it is mined before it is recorded.
- **PoolLedger.** The lemma `BothSides`: a step of the ledger is a step of `Payouts`, or
  none to it, and likewise of `RewardContract`; so `NobodyIsOverpaid` (what a miner received and still
  has is at most what was credited, plus what went astray) carries over, and only the other half is new.
  `SettledInv`: a paid block is kept, and a miner's credits are the sum of its shares
  of paid blocks. `ThePoolIsSolvent` adds them up: `credited` is a sum over paid
  blocks, which is at most the sum over kept ones (`SumSupport`, `SumBound`). No
  theorem mentions `Unlocker` and `Payouts` at once; the link is `Implementation` of
  `UnlockerProofs`, since TLAPS cannot cite theorems through an instance.
- **Unlocker.** `ViewsInv`: a candidate that a view shows is one still, or a later view shows
  it immature. `PassInv`: with a follower that had caught up when the pass
  began, its rows are rows of the leader, each worked on once, with the rewards
  of its round. `DepthInv`: in the second half they lie `Depth` deep, where the chain
  does not change, so a block that is paid is kept and kept blocks stay so
  (`KeptGrows`). From these a write of a row finds the row it moves
  (`OneStage`) and no promise or credit of it yet. The sums of balances follow
  per write from `SumChange`.
- **Shares.** `SessionsInv` ties a session's label to its solution and template;
  `WritersInv`: one session at a time writes the block of a height, and the height has no
  round and no candidate until it does; `ListInv`: a recent solution that was counted,
  or is about to be, is in the duplicate list; `WinnersInv`: a winning one is there
  only when its height has a block, so `WriteBlock` is not misled.
- **Stratum.** Only a broadcast that holds the lock has sessions to visit, and all of them
  are registered; the accept channel holds one number for each handler.
- **Upstream.** A client is sick exactly when its count is at the threshold, and the loop's
  candidate is the first of those that passed, all of them below its place.
- **Policy.** `Own`: a record, and each pointer to it, belongs to one IP; `Lasting` names the
  bans that must stay, and `Met`, `Fresh`, `Last` and `Loaded` say what a ban and a reset pass under way know of the record. `Just`
  adds that counted and banned offences are sinners'.
- **Rewards.** `Rounding`: rounding is off by half a Shannon at most. The invariant counts the
  amounts given so far to each login; the sum of what is owed is the reward (`SumTimes`
  and `SumPlus` over the shares), the sum of the errors at most one half per amount.
- **Statistics.** `Awake`: a row does not expire while one of its shares is in the large window.
  `CacheFresh`, `ReplyFresh`, `StatsFresh` and `LuckFresh` carry what a view must show
  through the places where it waits: the cache, a reply, a snapshot in the making.

`Sums` is about `SumFunctionOnSet` of the community modules, a recursive fold over a
set. That it has the equation of its recursion is proved from the finiteness of the
set by a smallest counterexample among its subsets, and so is each lemma: a sum
changes by what one value changes, is additive, scales, and is monotone.

**Only model-checked.** Every liveness property (fairness and ENABLED are out of the
prover's reach): `EveryBalancePaid`, `BlocksSettle`, `TemplateCatchesUp`,
`PlacesComeBack`, `EveryoneHears`, `ComesBack`, `BansEnd`, `OldSharesGo`. The two runs that find a
violation, and the counterexamples of section 4, are TLC's as well.

## 6. Plan, and what is left out

Of the plan, the models, the runs, the proofs of their safety and the composition
of the two modules that move money are done. What is left is liveness, which
only TLC checks, and a composition of `Shares` with `Unlocker`, whose rounds and
candidates the one writes and the other consumes: each is checked with the other
as its environment (`Find` in `Unlocker`, the rows of `WriteBlock` in `Shares`).

Not modelled, for good: the API's views and the arithmetic of hashrates, requests
over HTTP (the same handlers without a session), TLS, the proof of work (a pure
function of bytes), formatting and configuration. `BGSAVE` and log lines change
nothing that a property sees.
