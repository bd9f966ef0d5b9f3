------------------------------ MODULE Unlocker ------------------------------
(***************************************************************************)
(* The block unlocker (payouts/unlocker.go) together with the rows it      *)
(* moves through Redis (storage/redis.go) and the chain it asks.           *)
(*                                                                         *)
(* A block the pool found is a candidate; ImmatureDepth blocks later the   *)
(* first half of a pass makes it immature and promises its round's miners  *)
(* their rewards, Depth blocks later the second half matures it: it pays   *)
(* the promise, or takes it back when the chain has lost the block.  Rows  *)
(* are read from the follower and written to the leader.  The process may  *)
(* die between any two commands, a command may fail with or without effect *)
(* and a call to the node may fail; these are the faults.  The code drops  *)
(* two errors; history variables keep what that costs.                     *)
(*                                                                         *)
(* A block's true height is the one of its candidate row: a candidate is a *)
(* reward block only if the block after that height names it as previous.  *)
(* The renaming of rounds in writeImmatureBlock therefore never happens.   *)
(***************************************************************************)
EXTENDS Integers, Sequences, FiniteSets, Functions

CONSTANTS
  Logins,         \* accounts with a share in a round, the fee's among them
  Pool,           \* the hash "finances", which mirrors the sum of the accounts
  Blocks,         \* blocks the pool may find, each with a round of its own
  Height,         \* Height[b]: the height of b's row
  Share,          \* Share[b][l]: the Shannon of b's reward that are l's
  ImmatureDepth, Depth,    \* UnlockerConfig
  NoBlock,        \* no block is being judged
  MaxTip,         \* bound: height of the chain
  MaxFaults,      \* bound: failed commands, failed calls and crashes
  MaxLag,         \* bound: writes the follower may be behind
  Lagging         \* TRUE: passes may also start while the follower is behind

Rewards == [Logins -> Nat]

ASSUME LoginsAssumption == Pool \notin Logins /\ IsFiniteSet(Logins)
ASSUME BlocksAssumption ==
  /\ NoBlock \notin Blocks /\ IsFiniteSet(Blocks)
  /\ Height \in [Blocks -> Nat \ {0}] /\ Share \in [Blocks -> Rewards]
\* Ensured by NewBlockUnlocker.
ASSUME DepthAssumption == ImmatureDepth \in Nat \ {0} /\ Depth \in Nat \ {0}
ASSUME BoundsAssumption ==
  MaxTip \in Nat /\ MaxFaults \in Nat /\ MaxLag \in Nat \ {0}
ASSUME LaggingAssumption == Lagging \in BOOLEAN

Accounts == Logins \cup {Pool}
Kinds == {"block", "uncle", "orphan"}
Rows == [block : Blocks, kind : Kinds]

VARIABLES
  \* the leader: blocks:candidates, blocks:immature, blocks:matured
  candidates, immature, matured,
  rounds,             \* blocks whose shares:round<height>:<hash> exists
  immatureCredits,    \* credits:immature:<height>:<hash>, no row is NoReward
  credits,            \* credits:<height>:<hash>, no row is NoReward
  immatureBalance,    \* field immature of miners:<login> and finances
  balance,            \* field balance, as far as the unlocker changes it
  forgotten,          \* history: promises deleted but not taken back
  \* replication
  follower, stream,   \* the view the process reads, views on their way
  \* the process
  pc, halt,
  pass,               \* "pending" (unlockPendingBlocks), "credit" (...Miners)
  current,            \* height GetLatestBlock returned
  todo,               \* blocks the loop of unlockCandidates has not judged
  block,              \* block it is judging
  hashFound,
  orphaned, mature,   \* UnlockResult: blocks, rows
  reward,             \* rewards calculated for the first row of mature
  \* the chain, and the blocks the pool has found so far
  tip, main, found,
  unheard,    \* history: blocks the node was last asked for in vain
  faults

rows    == <<candidates, immature, matured, rounds>>
money   == <<immatureCredits, credits, immatureBalance, balance, forgotten>>
replica == <<follower, stream>>
result  == <<orphaned, mature, reward>>
process == <<pc, halt, pass, current, todo, block, hashFound, result>>
chain   == <<tip, main, found, unheard>>
vars    == <<rows, money, replica, process, chain, faults>>

-----------------------------------------------------------------------------
(* Helpers *)

NoReward == [l \in Logins |-> 0]

Total(r) == SumFunctionOnSet(r, Logins)

\* HINCRBY of one field of every miners:<login> by r, and of finances by the
\* total.
Incr(hash, r) ==
  [a \in Accounts |-> hash[a] + IF a = Pool THEN Total(r) ELSE r[a]]

Decr(hash, r) ==
  [a \in Accounts |-> hash[a] - IF a = Pool THEN Total(r) ELSE r[a]]

\* HSETNX of a row: a row that exists stays.
SetNX(hash, b, r) ==
  [hash EXCEPT ![b] = IF @ = NoReward THEN r ELSE @]

Del(hash, b) == [hash EXCEPT ![b] = NoReward]

\* What the unlocker reads of the store.
View(c, i, r) == [candidates |-> c, immature |-> i, rounds |-> r]

\* A leader write joins the replication stream.
Replicated ==
  /\ Len(stream) < MaxLag
  /\ stream' = Append(stream, View(candidates', immature', rounds'))
  /\ UNCHANGED follower

Fault == faults < MaxFaults /\ faults' = faults + 1

\* Views the follower shows now or later.
Known == {follower} \cup {stream[i] : i \in DOMAIN stream}

\* A pass starts at least an interval after the writes of the previous one,
\* and a restart takes longer: unless Lagging, the follower has applied them.
CaughtUp == Lagging \/ \A v \in Known : v.immature = immature

\* Lists are in the order of the rows' scores, the heights.
First(S) == {b \in S : \A c \in S : Height[b] <= Height[c]}

FirstRow(S) == {r \in S : \A s \in S : Height[r.block] <= Height[s.block]}

Init ==
  /\ candidates = {} /\ immature = {} /\ matured = {} /\ rounds = {}
  /\ immatureCredits = [b \in Blocks |-> NoReward]
  /\ credits = [b \in Blocks |-> NoReward]
  /\ immatureBalance = [a \in Accounts |-> 0]
  /\ balance = [a \in Accounts |-> 0]
  /\ forgotten = [b \in Blocks |-> NoReward]
  /\ follower = View({}, {}, {}) /\ stream = <<>>
  /\ pc = "off" /\ halt = FALSE /\ pass = "pending" /\ current = 0
  /\ todo = {} /\ block = NoBlock /\ hashFound = FALSE
  /\ orphaned = {} /\ mature = {} /\ reward = NoReward
  /\ tip = 0 /\ main = {} /\ found = {} /\ unheard = {}
  /\ faults = 0

-----------------------------------------------------------------------------
(* The store: MULTI blocks on the leader *)

\* Mutant of MakeImmature: the candidate's row stays.
MakeImmatureKeeping(S) ==
  /\ immature' = immature \cup S
  /\ UNCHANGED <<candidates, matured, rounds>>

\* writeImmatureBlock: the candidate row becomes an immature row.
MakeImmature(S) ==
  /\ candidates' = candidates \ S
  /\ immature' = immature \cup S
  /\ UNCHANGED <<matured, rounds>>

\* Mutant of MakeMatured: the immature row stays.
MakeMaturedKeeping(r) ==
  /\ matured' = matured \cup {r}
  /\ rounds' = rounds \ {r.block}
  /\ UNCHANGED <<candidates, immature>>

\* writeMaturedBlock: the row moves on and the round's shares are deleted.
MakeMatured(r) ==
  /\ immature' = immature \ {r.block}
  /\ matured' = matured \cup {r}
  /\ rounds' = rounds \ {r.block}
  /\ UNCHANGED candidates

WritePendingOrphans ==
  /\ MakeImmature(orphaned)
  /\ UNCHANGED money
  /\ Replicated

\* Mutant of WriteImmatureBlock: the reward goes to balance.
WriteImmatureAsBalance(b) ==
  /\ MakeImmature({b})
  /\ balance' = Incr(balance, reward)
  /\ immatureCredits' = SetNX(immatureCredits, b, reward)
  /\ UNCHANGED <<credits, immatureBalance, forgotten>>
  /\ Replicated

WriteImmatureBlock(b) ==
  /\ MakeImmature({b})
  /\ immatureBalance' = Incr(immatureBalance, reward)
  /\ immatureCredits' = SetNX(immatureCredits, b, reward)
  /\ UNCHANGED <<credits, balance, forgotten>>
  /\ Replicated

\* The promise of b is deleted and only promised of it is taken back.
DropPromise(b, promised) ==
  /\ immatureCredits' = Del(immatureCredits, b)
  /\ forgotten' = IF promised = immatureCredits[b] THEN forgotten
                  ELSE [forgotten EXCEPT ![b] = immatureCredits[b]]

\* The promise to take back is the row read under WATCH.  Only the unlocker
\* writes the row, so EXEC is never refused.
WriteOrphan(b, promised) ==
  /\ MakeMatured([block |-> b, kind |-> "orphan"])
  /\ immatureBalance' = Decr(immatureBalance, promised)
  /\ DropPromise(b, promised)
  /\ UNCHANGED <<credits, balance>>
  /\ Replicated

\* Mutant of WriteMaturedBlock: takes back what it pays, not the promise.
WriteMaturedByReward(r, promised) ==
  /\ MakeMatured(r)
  /\ immatureBalance' = Decr(immatureBalance, reward)
  /\ balance' = Incr(balance, reward)
  /\ credits' = SetNX(credits, r.block, reward)
  /\ DropPromise(r.block, promised)
  /\ Replicated

WriteMaturedBlock(r, promised) ==
  /\ MakeMatured(r)
  /\ immatureBalance' = Decr(immatureBalance, promised)
  /\ balance' = Incr(balance, reward)
  /\ credits' = SetNX(credits, r.block, reward)
  /\ DropPromise(r.block, promised)
  /\ Replicated

\* What HGETALL of the row under WATCH gives: its error is dropped and reads
\* as no row.
Readings(b) == {immatureCredits[b], NoReward}

\* The reading is the row, or the command failed.
Promised(b, promised) ==
  \/ promised = immatureCredits[b] /\ UNCHANGED faults
  \/ promised = NoReward /\ Fault

\* A command that returns an error has had its effect or none.
Failing(Command) ==
  /\ Fault
  /\ Command \/ UNCHANGED <<rows, money, replica>>

-----------------------------------------------------------------------------
(* The process *)

Goto(label) ==
  /\ pc' = label
  /\ UNCHANGED <<halt, pass, current, todo, block, hashFound, result>>

\* The locals of a pass go with it.
Forget ==
  /\ todo' = {} /\ block' = NoBlock /\ hashFound' = FALSE
  /\ orphaned' = {} /\ mature' = {} /\ reward' = NoReward
  /\ current' = 0

\* u.halt = true and return; unlockAndCreditMiners then only logs that it is
\* suspended, and so does every later tick.
HaltPass == pc' = "idle" /\ halt' = TRUE /\ pass' = "pending" /\ Forget

\* Mutant of EndPass: unlockAndCreditMiners is not called.
EndPassEarly ==
  /\ pc' = "idle" /\ pass' = "pending"
  /\ UNCHANGED halt
  /\ Forget

\* After unlockPendingBlocks comes unlockAndCreditMiners, and then the timer.
EndPass ==
  /\ pc' = IF pass = "pending" THEN "latest" ELSE "idle"
  /\ pass' = IF pass = "pending" THEN "credit" ELSE "pending"
  /\ UNCHANGED halt
  /\ Forget

Start ==
  /\ pc = "off" /\ CaughtUp
  /\ Goto("latest")
  /\ UNCHANGED <<rows, money, replica, chain, faults>>

Tick ==
  /\ pc = "idle" /\ ~halt /\ CaughtUp
  /\ Goto("latest")
  /\ UNCHANGED <<rows, money, replica, chain, faults>>

\* An error of GetLatestBlock ends the half pass without halting.
GetLatestBlock ==
  /\ pc = "latest"
  /\ \/ /\ pc' = "select" /\ current' = tip
        /\ UNCHANGED <<halt, pass, todo, block, hashFound, result, faults>>
     \/ Fault /\ EndPass
  /\ UNCHANGED <<rows, money, replica, chain>>

\* Mutant of Selected: immature blocks are taken at ImmatureDepth already.
SelectedShallow ==
  {b \in IF pass = "pending" THEN follower.candidates ELSE follower.immature :
     Height[b] <= current - ImmatureDepth}

\* GetCandidates and GetImmatureBlocks.
Selected ==
  IF pass = "pending"
  THEN {b \in follower.candidates : Height[b] <= current - ImmatureDepth}
  ELSE {b \in follower.immature : Height[b] <= current - Depth}

\* Mutant of Select: no return when there are no rows.
SelectEmpty ==
  /\ pc = "select"
  /\ pc' = "byHash" /\ todo' = Selected
  /\ UNCHANGED <<halt, pass, current, block, hashFound, result, faults>>
  /\ UNCHANGED <<rows, money, replica, chain>>

Select ==
  /\ pc = "select"
  /\ \/ /\ Selected # {}
        /\ pc' = "byHash" /\ todo' = Selected
        /\ UNCHANGED <<halt, pass, current, block, hashFound, result, faults>>
     \/ Selected = {} /\ EndPass /\ UNCHANGED faults
     \/ Fault /\ HaltPass
  /\ UNCHANGED <<rows, money, replica, chain>>

\* The node knows the blocks of its chain and may know others, and answers for
\* a hash it does not know with an empty block.
Answers(b) == IF b \in main THEN {TRUE} ELSE BOOLEAN

\* An error of GetBlockByHash is logged and reads as no block.
GetBlockByHash ==
  /\ pc = "byHash"
  /\ \E b \in First(todo) :
       /\ block' = b
       /\ \/ hashFound' \in Answers(b) /\ unheard' = unheard \ {b} /\ UNCHANGED faults
          \/ hashFound' = FALSE /\ unheard' = unheard \cup {b} /\ Fault
  /\ pc' = "byHeight"
  /\ UNCHANGED <<halt, pass, current, todo, result>>
  /\ UNCHANGED <<rows, money, replica, tip, main, found>>

\* Mutant of Judgement: the next block is not asked.
JudgementByHash == IF hashFound THEN "block" ELSE "orphan"

\* The next block names this one as its previous one, or another.
Judgement ==
  IF hashFound /\ block \in main THEN "block"
  ELSE IF hashFound THEN "uncle" ELSE "orphan"

\* The loop goes on to the next block, except after a reward block.
Judge(kind) ==
  /\ todo' = IF kind = "block" THEN {} ELSE todo \ {block}
  /\ orphaned' = orphaned \cup IF kind = "orphan" THEN {block} ELSE {}
  /\ mature' = mature \cup
       IF kind = "orphan" THEN {} ELSE {[block |-> block, kind |-> kind]}
  /\ block' = NoBlock /\ hashFound' = FALSE
  /\ pc' = IF todo' = {} THEN "orphans" ELSE "byHash"
  /\ UNCHANGED <<halt, pass, current, reward>>

GetBlockByHeight ==
  /\ pc = "byHeight"
  /\ \/ Judge(Judgement) /\ UNCHANGED faults
     \/ Fault /\ HaltPass
  /\ UNCHANGED <<rows, money, replica, chain>>

\* Control after the orphans were written.
AfterOrphans ==
  IF mature = {} THEN EndPass
  ELSE /\ pc' = "shares" /\ orphaned' = {}
       /\ UNCHANGED <<halt, pass, current, todo, block, hashFound, mature, reward>>

\* The orphans of unlockPendingBlocks go in one MULTI, those of
\* unlockAndCreditMiners one by one.
WriteOrphans ==
  /\ pc = "orphans"
  /\ \/ /\ orphaned = {} /\ AfterOrphans
        /\ UNCHANGED <<rows, money, replica, faults>>
     \/ /\ orphaned # {} /\ pass = "pending"
        /\ \/ WritePendingOrphans /\ AfterOrphans /\ UNCHANGED faults
           \/ Failing(WritePendingOrphans) /\ HaltPass
     \/ /\ pass = "credit"
        /\ \E b \in First(orphaned) :
             \/ /\ \E promised \in Readings(b) :
                     Promised(b, promised) /\ WriteOrphan(b, promised)
                /\ orphaned' = orphaned \ {b}
                /\ UNCHANGED <<pc, halt, pass, current, todo, block, hashFound,
                               mature, reward>>
             \/ /\ \E promised \in Readings(b) :
                     Failing(WriteOrphan(b, promised))
                /\ HaltPass
  /\ UNCHANGED chain

\* calculateRewards of the next row; the round's shares come from the
\* follower, and an uncle's reward is 0.
Calculated(r) ==
  IF r.kind = "block" /\ r.block \in follower.rounds THEN Share[r.block]
  ELSE NoReward

CalculateRewards ==
  /\ pc = "shares"
  /\ \/ /\ \E r \in FirstRow(mature) :
             block' = r.block /\ reward' = Calculated(r)
        /\ pc' = "write"
        /\ UNCHANGED <<halt, pass, current, todo, hashFound, orphaned, mature,
                       faults>>
     \/ Fault /\ HaltPass
  /\ UNCHANGED <<rows, money, replica, chain>>

\* Control after a row was written.
AfterRow(r) ==
  IF mature = {r} THEN EndPass
  ELSE /\ pc' = "shares" /\ mature' = mature \ {r}
       /\ block' = NoBlock /\ reward' = NoReward
       /\ UNCHANGED <<halt, pass, current, todo, hashFound, orphaned>>

WriteImmature(r) ==
  /\ pass = "pending"
  /\ \/ WriteImmatureBlock(r.block) /\ AfterRow(r) /\ UNCHANGED faults
     \/ Failing(WriteImmatureBlock(r.block)) /\ HaltPass

WriteMatured(r) ==
  /\ pass = "credit"
  /\ \/ /\ \E promised \in Readings(r.block) :
             Promised(r.block, promised) /\ WriteMaturedBlock(r, promised)
        /\ AfterRow(r)
     \/ /\ \E promised \in Readings(r.block) :
             Failing(WriteMaturedBlock(r, promised))
        /\ HaltPass

WriteRewards ==
  /\ pc = "write"
  /\ \E r \in mature : r.block = block /\ (WriteImmature(r) \/ WriteMatured(r))
  /\ UNCHANGED chain

-----------------------------------------------------------------------------
(* The environment *)

\* The process is gone, by a crash or by its operator.
Exit ==
  /\ pc' = "off" /\ halt' = FALSE /\ pass' = "pending" /\ Forget
  /\ UNCHANGED <<rows, money, replica, chain>>

Crash == pc # "off" /\ Fault /\ Exit

\* getBlockBy dereferences the result of the reply: a null for an unknown hash
\* is a panic, which nobody recovers from.
NullHash ==
  /\ pc = "byHash" /\ \E b \in First(todo) : b \notin main
  /\ Fault /\ Exit

Stop == pc = "idle" /\ Exit /\ UNCHANGED faults

\* The proxy's WriteBlock.  The block extends the chain, or loses the race for
\* its height.
Find(b) ==
  /\ b \notin found /\ Height[b] \in {tip, tip + 1} /\ Height[b] <= MaxTip
  /\ found' = found \cup {b}
  /\ candidates' = candidates \cup {b} /\ rounds' = rounds \cup {b}
  /\ \/ tip' = Height[b] /\ tip' = tip + 1 /\ main' = main \cup {b}
     \/ UNCHANGED <<tip, main>>
  /\ UNCHANGED <<immature, matured>>
  /\ Replicated
  /\ UNCHANGED <<money, process, unheard, faults>>

\* Another miner's block.
Extend ==
  /\ tip < MaxTip /\ tip' = tip + 1
  /\ UNCHANGED <<main, found, unheard, rows, money, replica, process, faults>>

\* The chain changes its mind about one height less than Depth below its tip.
Reorganize(b) ==
  /\ b \in found /\ Height[b] <= tip /\ tip < Height[b] + Depth
  /\ main' = IF b \in main THEN main \ {b}
             ELSE {c \in main : Height[c] # Height[b]} \cup {b}
  /\ UNCHANGED <<tip, found, unheard, rows, money, replica, process, faults>>

Replicate ==
  /\ stream # <<>>
  /\ follower' = Head(stream) /\ stream' = Tail(stream)
  /\ UNCHANGED <<rows, money, process, chain, faults>>

HalfPass ==
  \/ GetLatestBlock \/ Select \/ GetBlockByHash \/ NullHash \/ GetBlockByHeight
  \/ WriteOrphans \/ CalculateRewards \/ WriteRewards

Next ==
  \/ Start \/ Tick \/ HalfPass \/ Stop \/ Crash \/ Extend \/ Replicate
  \/ \E b \in Blocks : Find(b) \/ Reorganize(b)

Spec == Init /\ [][Next]_vars

\* The process and the follower keep running, the chain grows, and the
\* operator restarts a module that is suspended or gone.
Fairness ==
  /\ WF_vars(Start) /\ WF_vars(Tick) /\ WF_vars(HalfPass)
  /\ WF_vars(Stop /\ halt) /\ WF_vars(Replicate) /\ WF_vars(Extend)

FairSpec == Spec /\ Fairness

-----------------------------------------------------------------------------
(* Properties *)

Labels == {"off", "idle", "latest", "select", "byHash", "byHeight", "orphans",
           "shares", "write"}

Views == [candidates : SUBSET Blocks, immature : SUBSET Blocks,
          rounds : SUBSET Blocks]

\* Every variable has its type, and each label has the locals it works on.
TypeOK ==
  /\ candidates \subseteq Blocks /\ immature \subseteq Blocks
  /\ matured \subseteq Rows /\ rounds \subseteq Blocks
  /\ immatureCredits \in [Blocks -> Rewards] /\ credits \in [Blocks -> Rewards]
  /\ immatureBalance \in [Accounts -> Int] /\ balance \in [Accounts -> Int]
  /\ forgotten \in [Blocks -> Rewards] /\ unheard \subseteq Blocks
  /\ follower \in Views /\ stream \in Seq(Views)
  /\ pc \in Labels /\ halt \in BOOLEAN /\ pass \in {"pending", "credit"}
  /\ current \in Nat /\ todo \subseteq Blocks /\ block \in Blocks \cup {NoBlock}
  /\ hashFound \in BOOLEAN /\ orphaned \subseteq Blocks /\ mature \subseteq Rows
  /\ reward \in Rewards
  /\ pc \in {"byHash", "byHeight"} => todo # {}
  /\ pc = "byHeight" => block \in todo
  /\ pc = "shares" => mature # {}
  /\ pc = "write" => \E r \in mature : r.block = block
  /\ tip \in Nat /\ main \subseteq Blocks /\ found \subseteq Blocks
  /\ faults \in Nat

MaturedAs(kinds) == {r.block : r \in {s \in matured : s.kind \in kinds}}

\* Every block the pool found is in exactly one of the three lists, once matured
\* it has one row, and it has a row of credits, its round's, exactly if it
\* matured as a reward block: no failure loses a block or doubles it.
OneStage ==
  /\ found = candidates \cup immature \cup MaturedAs(Kinds)
  /\ candidates \cap immature = {}
  /\ MaturedAs(Kinds) \cap (candidates \cup immature) = {}
  /\ \A r, s \in matured : r.block = s.block => r = s
  /\ \A b \in Blocks :
       credits[b] = IF b \in MaturedAs({"block"}) THEN Share[b] ELSE NoReward

SumOf(rewards, l) == SumFunctionOnSet([b \in Blocks |-> rewards[b][l]], Blocks)

\* A miner's balance is the sum of its rows of credits, each added once and in
\* full (HSETNX guards the row, nothing guards the HINCRBY beside it), and the
\* hash finances is the sum of the miners' hashes.
CreditedOnce ==
  /\ \A l \in Logins : balance[l] = SumOf(credits, l)
  /\ \A hash \in {immatureBalance, balance} : hash[Pool] = Total(hash)

\* Each promise belongs to one immature block, and a miner's immature balance
\* is the sum of the promises plus, to the Shannon, those of blocks settled
\* while the read of their row failed: what any other block takes back is what
\* it had promised, and no promise is forgotten twice.
ImmatureMatches ==
  /\ \A b \in Blocks : immatureCredits[b] # NoReward => b \in immature
  /\ \A b \in Blocks : forgotten[b] # NoReward => b \in MaturedAs(Kinds)
  /\ \A l \in Logins :
       immatureBalance[l] = SumOf(immatureCredits, l) + SumOf(forgotten, l)

\* Miners are paid only for blocks the chain will not give up any more.
PaidOnChain ==
  \A b \in MaturedAs({"block"}) : b \in main /\ Height[b] + Depth <= tip

\* The only blocks of the chain that are written off, as an orphan or as an
\* uncle without a reward, are those whose GetBlockByHash failed in the very
\* pass that settled them: nothing the pass before read, and no reorganization
\* between two answers, loses one.
LostIsOffChain == MaturedAs({"orphan", "uncle"}) \cap main \subseteq unheard

\* The stage of a block, as the contract sees it.
Stage ==
  [b \in Blocks |->
    CASE b \in MaturedAs({"block"}) -> "paid"
      [] b \in MaturedAs({"uncle", "orphan"}) -> "lost"
      [] b \in immature -> "immature"
      [] b \in candidates -> "found"
      [] OTHER -> "none"]

Earned == [l \in Logins |-> balance[l]]

Kept == {b \in found : b \in main /\ Height[b] + Depth <= tip}

Contract == INSTANCE RewardContract WITH
  stage <- Stage, promised <- immatureCredits, earned <- Earned, kept <- Kept

\* The unlocker keeps the promise of RewardContract: every step finds, doubts,
\* promises, pays or loses blocks as it says, or does none of it.
ImplementsContract == Contract!Spec

\* Whatever fails, every candidate is matured in the end, although a half pass
\* stops at the first reward block and a halted module waits for its operator.
BlocksSettle ==
  \A b \in Blocks : b \in candidates ~> b \in MaturedAs(Kinds)
=============================================================================
