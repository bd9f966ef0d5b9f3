--------------------------- MODULE UnlockerProofs ---------------------------
(***************************************************************************)
(* Theorems about the block unlocker: its types, the inductive invariant   *)
(* behind its books, and what follows from it.                             *)
(***************************************************************************)
EXTENDS Unlocker, Sums

-----------------------------------------------------------------------------
(* The inductive invariant *)

\* The views the process may read, the oldest first; the last is the leader's.
Last == Len(stream)
At(i) == IF i = 0 THEN follower ELSE stream[i]

\* The round of a block is kept until the block is matured, and only an immature
\* block has a promise, which is its round's or empty.
RowsInv ==
  /\ candidates \cup immature \subseteq rounds /\ rounds \subseteq found
  /\ \A b \in Blocks :
       /\ immatureCredits[b] # NoReward => b \in immature
       /\ immatureCredits[b] \in {NoReward, Share[b]}

\* A view is a state the leader was in; a candidate it shows is one still or is
\* shown immature by a later view, and a round that was deleted stays so.
ViewsInv ==
  /\ \A v \in Known :
       /\ v.candidates \cap v.immature = {}
       /\ v.candidates \cup v.immature \subseteq v.rounds
       /\ v.rounds \subseteq found
  /\ \A i \in 0..Last : \A b \in At(i).candidates :
       b \in candidates \/ \E j \in i..Last : b \in At(j).immature
  /\ \A i \in 0..Last : \A j \in i..Last : \A b \in At(i).rounds :
       b \in At(j).rounds \/ b \notin rounds

Matures == {r.block : r \in mature}

\* What a half pass has selected and not written yet.
Working == todo \cup orphaned \cup Matures

\* A half pass works on rows the leader still has, each once, with the rewards
\* of their rounds.
PassInv ==
  /\ pc \in {"off", "idle"} => pass = "pending"
  /\ pc \in {"off", "idle", "latest", "select"} => Working = {}
  /\ pc \in {"latest", "select"} /\ pass = "pending" =>
       \A v \in Known : v.candidates \subseteq candidates
  /\ pc \notin {"off", "idle"} /\ (pass = "pending" \/ pc \in {"latest", "select"}) =>
       \A v \in Known : v.immature \subseteq immature
  /\ Working \subseteq IF pass = "pending" THEN candidates ELSE immature
  /\ todo \cap (orphaned \cup Matures) = {} /\ orphaned \cap Matures = {}
  /\ \A r, s \in mature : r.block = s.block => r = s
  /\ \A v \in Known : Working \subseteq v.rounds
  /\ pc = "write" => \A r \in mature : r.block = block =>
       reward = IF r.kind = "block" THEN Share[r.block] ELSE NoReward

\* What the second half of a pass works on and what is matured lies so deep that
\* the chain does not change its mind about it.
DepthInv ==
  /\ current <= tip
  /\ pass = "credit" => \A b \in Working : Height[b] + Depth <= tip
  /\ pass = "credit" => \A r \in mature : r.kind = "block" => r.block \in main
  /\ \A r \in matured : Height[r.block] + Depth <= tip

\* The inductive invariant.
IInv == OneStage /\ RowsInv /\ ViewsInv /\ PassInv /\ DepthInv /\ PaidOnChain

\* A block that may be written off: the chain has lost it, or the node's last
\* answer about it was an error.
Excused(b) == b \notin main \/ b \in unheard

\* The second half of a pass judges as lost, and settles so, only such blocks.
LostInv ==
  /\ pass = "credit" =>
       /\ pc = "byHeight" /\ ~hashFound => Excused(block)
       /\ \A b \in orphaned : Excused(b)
       /\ \A r \in mature : r.kind # "block" => Excused(r.block)
  /\ \A r \in matured : r.kind # "block" => Excused(r.block)

-----------------------------------------------------------------------------
(* Types *)

\* A reward of every account adds up to an integer.
LEMMA TotalType ==
  ASSUME NEW r \in [Logins -> Int]
  PROVE  Total(r) \in Int
BY SumType, LoginsAssumption DEF Total

\* Adding a reward to a hash, or taking it back, gives a hash.
LEMMA IncrType ==
  ASSUME NEW hash \in [Accounts -> Int], NEW r \in Rewards
  PROVE  Incr(hash, r) \in [Accounts -> Int] /\ Decr(hash, r) \in [Accounts -> Int]
<1>1. r \in [Logins -> Int]
  BY DEF Rewards
<1>2. \A a \in Accounts : (IF a = Pool THEN Total(r) ELSE r[a]) \in Int
  BY <1>1, TotalType, LoginsAssumption DEF Accounts
<1>3. QED
  BY <1>2 DEF Incr, Decr

\* No reward is a reward, and so is what is calculated for a row.
LEMMA RewardType ==
  /\ NoReward \in Rewards
  /\ \A b \in Blocks : Share[b] \in Rewards
  /\ \A r \in Rows : Calculated(r) \in Rewards
BY BlocksAssumption DEF NoReward, Rewards, Calculated, Rows

\* The rows of rewards keep their type.
LEMMA HashType ==
  ASSUME NEW hash \in [Blocks -> Rewards], NEW b \in Blocks, NEW r \in Rewards
  PROVE  SetNX(hash, b, r) \in [Blocks -> Rewards] /\ Del(hash, b) \in [Blocks -> Rewards]
BY RewardType DEF SetNX, Del

\* The stores' part of the types.
StoreOK ==
  /\ candidates \subseteq Blocks /\ immature \subseteq Blocks
  /\ matured \subseteq Rows /\ rounds \subseteq Blocks
  /\ immatureCredits \in [Blocks -> Rewards] /\ credits \in [Blocks -> Rewards]
  /\ immatureBalance \in [Accounts -> Int] /\ balance \in [Accounts -> Int]
  /\ forgotten \in [Blocks -> Rewards]
  /\ follower \in Views /\ stream \in Seq(Views)

\* Dropping a promise keeps the types of the rows it is moved between.
LEMMA DropType ==
  ASSUME StoreOK, NEW b \in Blocks, NEW p, DropPromise(b, p)
  PROVE  immatureCredits' \in [Blocks -> Rewards] /\ forgotten' \in [Blocks -> Rewards]
<1>1. immatureCredits' \in [Blocks -> Rewards]
  BY HashType, RewardType DEF DropPromise, StoreOK
<1>2. immatureCredits[b] \in Rewards
  BY DEF StoreOK
<1>3. forgotten' \in [Blocks -> Rewards]
  BY <1>2 DEF DropPromise, StoreOK
<1>4. QED
  BY <1>1, <1>3

\* A write of the leader keeps the types of the stores and joins the stream.
LEMMA StreamType ==
  ASSUME StoreOK, Replicated, candidates' \subseteq Blocks,
         immature' \subseteq Blocks, rounds' \subseteq Blocks
  PROVE  follower' \in Views /\ stream' \in Seq(Views)
<1>1. View(candidates', immature', rounds') \in Views
  BY DEF View, Views
<1>2. QED
  BY <1>1 DEF Replicated, StoreOK

\* Each write of the store keeps its types.
LEMMA WritesType ==
  ASSUME StoreOK, reward \in Rewards
  PROVE  /\ orphaned \subseteq Blocks /\ WritePendingOrphans => StoreOK'
         /\ \A b \in Blocks : WriteImmatureBlock(b) => StoreOK'
         /\ \A b \in Blocks : \A p \in Rewards : WriteOrphan(b, p) => StoreOK'
         /\ \A r \in Rows : \A p \in Rewards : WriteMaturedBlock(r, p) => StoreOK'
<1>1. ASSUME orphaned \subseteq Blocks, WritePendingOrphans
      PROVE  StoreOK'
  BY <1>1, StreamType DEF StoreOK, WritePendingOrphans, MakeImmature, money
<1>2. ASSUME NEW b \in Blocks, WriteImmatureBlock(b)
      PROVE  StoreOK'
  BY <1>2, StreamType, IncrType, HashType
  DEF StoreOK, WriteImmatureBlock, MakeImmature
<1>3. ASSUME NEW b \in Blocks, NEW p \in Rewards, WriteOrphan(b, p)
      PROVE  StoreOK'
  <2>1. [block |-> b, kind |-> "orphan"] \in Rows
    BY DEF Rows, Kinds
  <2>2. QED
    BY <1>3, <2>1, StreamType, IncrType, HashType, DropType
    DEF StoreOK, WriteOrphan, MakeMatured
<1>4. ASSUME NEW r \in Rows, NEW p \in Rewards, WriteMaturedBlock(r, p)
      PROVE  StoreOK'
  <2>1. r.block \in Blocks
    BY DEF Rows
  <2>2. QED
    BY <1>4, <2>1, StreamType, IncrType, HashType, DropType
    DEF StoreOK, WriteMaturedBlock, MakeMatured
<1>5. QED
  BY <1>1, <1>2, <1>3, <1>4

\* The process's and the chain's part of the types.
LocalsOK ==
  /\ pc \in Labels /\ halt \in BOOLEAN /\ pass \in {"pending", "credit"}
  /\ current \in Nat /\ todo \subseteq Blocks /\ block \in Blocks \cup {NoBlock}
  /\ hashFound \in BOOLEAN /\ orphaned \subseteq Blocks /\ mature \subseteq Rows
  /\ reward \in Rewards

LabelOK ==
  /\ pc \in {"byHash", "byHeight"} => todo # {}
  /\ pc = "byHeight" => block \in todo
  /\ pc = "shares" => mature # {}
  /\ pc = "write" => \E r \in mature : r.block = block

ChainOK ==
  /\ tip \in Nat /\ main \subseteq Blocks /\ found \subseteq Blocks
  /\ unheard \subseteq Blocks /\ faults \in Nat

\* The type invariant, part by part, before and after a step.
LEMMA TypeParts ==
  /\ TypeOK <=> StoreOK /\ LocalsOK /\ LabelOK /\ ChainOK
  /\ TypeOK' <=> StoreOK' /\ LocalsOK' /\ LabelOK' /\ ChainOK'
BY DEF TypeOK, StoreOK, LocalsOK, LabelOK, ChainOK

\* The ends of a half pass, and of the process, leave no locals behind.
LEMMA ForgetType ==
  ASSUME Forget, pc' \in {"off", "idle", "latest"}, halt' \in BOOLEAN,
         pass' \in {"pending", "credit"}
  PROVE  LocalsOK' /\ LabelOK'
<1>1. reward' \in Rewards
  BY RewardType DEF Forget
<1>2. /\ current' \in Nat /\ todo' \subseteq Blocks /\ block' \in Blocks \cup {NoBlock}
      /\ orphaned' \subseteq Blocks /\ mature' \subseteq Rows
  BY DEF Forget
<1>3. hashFound' \in BOOLEAN
  BY DEF Forget
<1>4. pc' \in Labels
  BY DEF Labels
<1>5. LabelOK'
  BY DEF LabelOK
<1>6. QED
  BY <1>1, <1>2, <1>3, <1>4, <1>5 DEF LocalsOK

\* The end of a pass, or its halt, keeps the types of the locals.
LEMMA EndsType ==
  ASSUME LocalsOK
  PROVE  /\ EndPass => LocalsOK' /\ LabelOK'
         /\ HaltPass => LocalsOK' /\ LabelOK'
<1>1. ASSUME EndPass
      PROVE  LocalsOK' /\ LabelOK'
  <2>1. pc' \in {"off", "idle", "latest"} /\ pass' \in {"pending", "credit"}
    BY <1>1 DEF EndPass
  <2>2. halt' \in BOOLEAN /\ Forget
    BY <1>1 DEF EndPass, LocalsOK
  <2>3. QED
    BY <2>1, <2>2, ForgetType
<1>2. ASSUME HaltPass
      PROVE  LocalsOK' /\ LabelOK'
  BY <1>2, ForgetType DEF HaltPass
<1>3. QED
  BY <1>1, <1>2

\* A fault keeps the types of the chain's part.
LEMMA FaultType ==
  ASSUME ChainOK, UNCHANGED chain, Fault \/ UNCHANGED faults
  PROVE  ChainOK'
BY DEF ChainOK, chain, Fault

\* Every step of a half pass.
LEMMA SelectType ==
  ASSUME TypeOK, GetLatestBlock \/ Select
  PROVE  TypeOK'
<1>1. StoreOK' /\ ChainOK'
  <2>1. UNCHANGED <<rows, money, replica, chain>> /\ (Fault \/ UNCHANGED faults)
    BY DEF GetLatestBlock, Select
  <2>2. QED
    BY <2>1, TypeParts, FaultType DEF StoreOK, rows, money, replica
<1>2. LocalsOK' /\ LabelOK'
  <2>1. ASSUME GetLatestBlock, ~ EndPass
        PROVE  LocalsOK' /\ LabelOK'
    BY <2>1 DEF TypeOK, LocalsOK, LabelOK, GetLatestBlock, result, Labels
  <2>2. ASSUME Select, ~ EndPass, ~ HaltPass
        PROVE  LocalsOK' /\ LabelOK'
    <3>1. Selected \subseteq Blocks
      BY DEF Selected, TypeOK, Views
    <3>2. QED
      BY <2>2, <3>1 DEF TypeOK, LocalsOK, LabelOK, Select, result, Labels
  <2>3. QED
    BY <2>1, <2>2, EndsType, TypeParts
<1>3. QED
  BY <1>1, <1>2, TypeParts

\* The questions to the node keep the types.
LEMMA JudgeType ==
  ASSUME TypeOK, GetBlockByHash \/ GetBlockByHeight
  PROVE  TypeOK'
<1>1. StoreOK'
  <2>1. UNCHANGED <<rows, money, replica>>
    BY DEF GetBlockByHash, GetBlockByHeight
  <2>2. QED
    BY <2>1, TypeParts DEF StoreOK, rows, money, replica
<1>2. CASE GetBlockByHash
  <2>1. First(todo) \subseteq todo /\ todo \subseteq Blocks
    BY DEF First, TypeOK
  <2>2. PICK b \in First(todo) :
          /\ block' = b /\ hashFound' \in BOOLEAN
          /\ unheard' \subseteq unheard \cup {b} /\ (Fault \/ UNCHANGED faults)
    BY <1>2 DEF GetBlockByHash, Answers
  <2>3. LocalsOK' /\ LabelOK'
    BY <1>2, <2>1, <2>2 DEF TypeOK, LocalsOK, LabelOK, GetBlockByHash, result, Labels
  <2>4. ChainOK'
    <3>1. UNCHANGED <<tip, main, found>>
      BY <1>2 DEF GetBlockByHash
    <3>2. faults' \in Nat
      BY <2>2 DEF TypeOK, Fault
    <3>3. QED
      BY <2>1, <2>2, <3>1, <3>2 DEF ChainOK, TypeOK
  <2>5. QED
    BY <1>1, <2>3, <2>4, TypeParts
<1>3. CASE GetBlockByHeight
  <2>1. ASSUME Judge(Judgement), pc = "byHeight"
        PROVE  LocalsOK' /\ LabelOK'
    <3>1. Judgement \in Kinds
      BY DEF Judgement, Kinds
    <3>2. [block |-> block, kind |-> Judgement] \in Rows
      BY <2>1, <3>1 DEF Rows, TypeOK
    <3> HIDE DEF Judgement
    <3>3. QED
      BY <2>1, <3>1, <3>2 DEF TypeOK, LocalsOK, LabelOK, Judge, Labels
  <2>2. ChainOK'
    <3>1. UNCHANGED chain /\ (Fault \/ UNCHANGED faults)
      BY <1>3 DEF GetBlockByHeight
    <3>2. QED
      BY <3>1, TypeParts, FaultType
  <2>3. QED
    BY <1>1, <1>3, <2>1, <2>2, EndsType, TypeParts DEF GetBlockByHeight
<1>4. QED
  BY <1>2, <1>3

\* The writes of orphans keep the types.
LEMMA OrphansType ==
  ASSUME TypeOK, WriteOrphans
  PROVE  TypeOK'
<1>1. AfterOrphans => LocalsOK' /\ LabelOK'
  <2>1. ASSUME AfterOrphans, mature # {}
        PROVE  LocalsOK' /\ LabelOK'
    BY <2>1 DEF AfterOrphans, TypeOK, LocalsOK, LabelOK, Labels
  <2>2. QED
    BY <2>1, EndsType, TypeParts DEF AfterOrphans
<1>2. ASSUME UNCHANGED <<rows, money, replica>>
      PROVE  StoreOK'
  BY <1>2, TypeParts DEF StoreOK, rows, money, replica
<1>3. ChainOK'
  <2>1. UNCHANGED chain /\ (Fault \/ UNCHANGED faults)
    BY DEF WriteOrphans, Failing, Promised
  <2>2. QED
    BY <2>1, TypeParts, FaultType
<1>4. CASE orphaned = {} /\ AfterOrphans /\ UNCHANGED <<rows, money, replica, faults>>
  BY <1>1, <1>2, <1>3, <1>4, TypeParts
<1>5. CASE \/ WritePendingOrphans /\ AfterOrphans
           \/ Failing(WritePendingOrphans) /\ HaltPass
  <2>1. StoreOK'
    BY <1>2, <1>5, TypeParts, WritesType DEF Failing, LocalsOK
  <2>2. QED
    BY <1>1, <1>3, <1>5, <2>1, TypeParts, EndsType
<1>6. ASSUME NEW b \in First(orphaned), NEW p \in Readings(b),
             WriteOrphan(b, p), orphaned' = orphaned \ {b},
             UNCHANGED <<pc, halt, pass, current, todo, block, hashFound, mature, reward>>
      PROVE  TypeOK'
  <2>1. b \in Blocks /\ p \in Rewards
    BY RewardType DEF First, TypeOK, Readings
  <2>2. StoreOK'
    BY <1>6, <2>1, TypeParts, WritesType DEF LocalsOK
  <2>3. LocalsOK' /\ LabelOK'
    BY <1>6, TypeParts DEF LocalsOK, LabelOK
  <2>4. QED
    BY <1>3, <2>2, <2>3, TypeParts
<1>7. ASSUME NEW b \in First(orphaned), NEW p \in Readings(b),
             Failing(WriteOrphan(b, p)), HaltPass
      PROVE  TypeOK'
  <2>1. b \in Blocks /\ p \in Rewards
    BY RewardType DEF First, TypeOK, Readings
  <2>2. StoreOK'
    BY <1>2, <1>7, <2>1, TypeParts, WritesType DEF Failing, LocalsOK
  <2>3. QED
    BY <1>3, <1>7, <2>2, TypeParts, EndsType
<1>8. QED
  BY <1>4, <1>5, <1>6, <1>7 DEF WriteOrphans

\* Calculating and writing rewards keep the types.
LEMMA RewardsType ==
  ASSUME TypeOK, CalculateRewards \/ WriteRewards
  PROVE  TypeOK'
<1>1. CASE CalculateRewards
  <2>1. StoreOK' /\ ChainOK'
    <3>1. UNCHANGED <<rows, money, replica, chain>> /\ (Fault \/ UNCHANGED faults)
      BY <1>1 DEF CalculateRewards
    <3>2. QED
      BY <3>1, TypeParts, FaultType DEF StoreOK, rows, money, replica
  <2>2. ASSUME NEW r \in FirstRow(mature), block' = r.block, reward' = Calculated(r),
               pc' = "write",
               UNCHANGED <<halt, pass, current, todo, hashFound, orphaned, mature, faults>>
        PROVE  LocalsOK' /\ LabelOK'
    <3>1. r \in mature /\ r \in Rows
      BY DEF FirstRow, TypeOK
    <3>2. r.block \in Blocks
      BY <3>1 DEF Rows
    <3>3. QED
      BY <2>2, <3>1, <3>2, RewardType DEF TypeOK, LocalsOK, LabelOK, Labels
  <2>3. QED
    BY <1>1, <2>1, <2>2, TypeParts, EndsType DEF CalculateRewards
<1>2. CASE WriteRewards
  <2>1. PICK r \in mature : r.block = block /\ (WriteImmature(r) \/ WriteMatured(r))
    BY <1>2 DEF WriteRewards
  <2>2. r \in Rows /\ r.block \in Blocks
    BY DEF TypeOK, Rows
  <2>3. AfterRow(r) => LocalsOK' /\ LabelOK'
    <3>1. ASSUME AfterRow(r), mature # {r}
          PROVE  LocalsOK' /\ LabelOK'
      BY <3>1, RewardType DEF AfterRow, TypeOK, LocalsOK, LabelOK, Labels
    <3>2. QED
      BY <3>1, EndsType, TypeParts DEF AfterRow
  <2>4. ASSUME UNCHANGED <<rows, money, replica>>
        PROVE  StoreOK'
    BY <2>4, TypeParts DEF StoreOK, rows, money, replica
  <2>5. ChainOK'
    <3>1. UNCHANGED chain /\ (Fault \/ UNCHANGED faults)
      BY <1>2, <2>1 DEF WriteRewards, WriteImmature, WriteMatured, Failing, Promised
    <3>2. QED
      BY <3>1, TypeParts, FaultType
  <2>6. CASE WriteImmature(r)
    <3>1. StoreOK'
      BY <2>2, <2>4, <2>6, TypeParts, WritesType DEF WriteImmature, Failing, LocalsOK
    <3>2. QED
      BY <2>3, <2>5, <2>6, <3>1, TypeParts, EndsType DEF WriteImmature
  <2>7. CASE WriteMatured(r)
    <3>1. \A p \in Readings(r.block) : p \in Rewards
      BY <2>2, RewardType DEF TypeOK, Readings
    <3>2. StoreOK'
      BY <2>2, <2>4, <2>7, <3>1, TypeParts, WritesType DEF WriteMatured, Failing, LocalsOK
    <3>3. QED
      BY <2>3, <2>5, <2>7, <3>2, TypeParts, EndsType DEF WriteMatured
  <2>8. QED
    BY <2>1, <2>6, <2>7
<1>3. QED
  BY <1>1, <1>2

\* A panic is a crash.
LEMMA PanicIsCrash == NullHash => Crash
BY DEF NullHash, Crash

\* The environment keeps the types.
LEMMA EnvironmentType ==
  ASSUME TypeOK,
         \/ Start \/ Tick \/ Stop \/ Crash \/ Extend \/ Replicate
         \/ \E b \in Blocks : Find(b) \/ Reorganize(b)
  PROVE  TypeOK'
<1>1. CASE Start \/ Tick
  BY <1>1 DEF TypeOK, Start, Tick, Goto, rows, money, replica, chain, result, Labels
<1>2. CASE Stop \/ Crash
  <2>1. Exit /\ (Fault \/ UNCHANGED faults)
    BY <1>2 DEF Stop, Crash
  <2>2. StoreOK' /\ ChainOK'
    BY <2>1, TypeParts, FaultType DEF Exit, StoreOK, rows, money, replica
  <2>3. LocalsOK' /\ LabelOK'
    BY <2>1, ForgetType DEF Exit
  <2>4. QED
    BY <2>2, <2>3, TypeParts
<1>3. CASE Extend
  BY <1>3 DEF TypeOK, Extend, rows, money, replica, process, result
<1>4. CASE Replicate
  <2>1. Head(stream) \in Views /\ Tail(stream) \in Seq(Views)
    BY <1>4 DEF Replicate, TypeOK
  <2>2. QED
    BY <1>4, <2>1 DEF TypeOK, Replicate, rows, money, process, chain, result
<1>5. ASSUME NEW b \in Blocks, Find(b)
      PROVE  TypeOK'
  <2>1. StoreOK'
    BY <1>5, TypeParts, StreamType DEF StoreOK, Find, money
  <2>2. LocalsOK' /\ LabelOK'
    BY <1>5, TypeParts DEF LocalsOK, LabelOK, Find, process, result
  <2>3. ChainOK'
    BY <1>5, TypeParts DEF ChainOK, Find
  <2>4. QED
    BY <2>1, <2>2, <2>3, TypeParts
<1>6. ASSUME NEW b \in Blocks, Reorganize(b)
      PROVE  TypeOK'
  BY <1>6 DEF TypeOK, Reorganize, rows, money, replica, process, result
<1>7. QED
  BY <1>1, <1>2, <1>3, <1>4, <1>5, <1>6

\* Every step keeps the types.
LEMMA TypeStep ==
  ASSUME TypeOK, [Next]_vars
  PROVE  TypeOK'
<1>1. CASE HalfPass
  BY <1>1, SelectType, JudgeType, OrphansType, RewardsType, EnvironmentType, PanicIsCrash
  DEF HalfPass
<1>2. CASE UNCHANGED vars
  BY <1>2 DEF TypeOK, vars, rows, money, replica, process, chain, result
<1>3. QED
  BY <1>1, <1>2, EnvironmentType DEF Next

\* Every variable has its type in every reachable state, and each label of the
\* process has the locals it works on.
THEOREM TypeCorrect == Spec => []TypeOK
<1>1. Init => TypeOK
  <2> SUFFICES ASSUME Init PROVE TypeOK
    OBVIOUS
  <2>1. /\ immatureCredits \in [Blocks -> Rewards] /\ credits \in [Blocks -> Rewards]
        /\ reward \in Rewards
    BY RewardType DEF Init
  <2>2. StoreOK
    BY <2>1 DEF Init, StoreOK, View, Views
  <2>3. LocalsOK /\ LabelOK /\ ChainOK
    BY <2>1 DEF Init, LocalsOK, LabelOK, ChainOK, Labels
  <2>4. QED
    BY <2>2, <2>3, TypeParts
<1>2. TypeOK /\ [Next]_vars => TypeOK'
  BY TypeStep
<1>3. QED
  BY <1>1, <1>2, PTL DEF Spec

-----------------------------------------------------------------------------
(* What a step does to the store *)

\* Every step leaves the store alone, or is one write of the unlocker made where
\* the code makes it, a new block, or the follower's.
LEMMA StepKinds ==
  ASSUME TypeOK, [Next]_vars
  PROVE  \/ UNCHANGED <<rows, money, replica>>
         \/ Replicate
         \/ \E b \in Blocks : Find(b)
         \/ pc = "orphans" /\ pass = "pending" /\ WritePendingOrphans /\ UNCHANGED chain
         \/ /\ pc = "orphans" /\ pass = "credit" /\ UNCHANGED chain
            /\ \E b \in orphaned : \E p \in Rewards : p \in Readings(b) /\ WriteOrphan(b, p)
         \/ /\ pc = "write" /\ pass = "pending" /\ UNCHANGED chain
            /\ \E r \in mature : r.block = block /\ WriteImmatureBlock(r.block)
         \/ /\ pc = "write" /\ pass = "credit" /\ UNCHANGED chain
            /\ \E r \in mature : \E p \in Rewards :
                 /\ r.block = block /\ p \in Readings(r.block)
                 /\ WriteMaturedBlock(r, p)
<1>1. CASE WriteOrphans
  <2>1. UNCHANGED chain /\ pc = "orphans"
    BY <1>1 DEF WriteOrphans
  <2>2. CASE pass = "pending"
    BY <1>1, <2>1, <2>2 DEF WriteOrphans, Failing
  <2>3. CASE pass = "credit" /\ orphaned = {} /\ UNCHANGED <<rows, money, replica>>
    BY <2>3
  <2>4. ASSUME NEW b \in First(orphaned), NEW p \in Readings(b),
               WriteOrphan(b, p), pass = "credit"
        PROVE  \E c \in orphaned : \E q \in Rewards : q \in Readings(c) /\ WriteOrphan(c, q)
    <3>1. b \in orphaned /\ p \in Rewards
      BY RewardType DEF First, TypeOK, Readings
    <3>2. QED
      BY <2>4, <3>1
  <2>5. ASSUME NEW b \in First(orphaned), NEW p \in Readings(b),
               Failing(WriteOrphan(b, p)), pass = "credit"
        PROVE  \/ UNCHANGED <<rows, money, replica>>
               \/ \E c \in orphaned : \E q \in Rewards : q \in Readings(c) /\ WriteOrphan(c, q)
    <3>1. b \in orphaned /\ p \in Rewards
      BY RewardType DEF First, TypeOK, Readings
    <3>2. QED
      BY <2>5, <3>1 DEF Failing
  <2>6. QED
    BY <1>1, <2>1, <2>2, <2>3, <2>4, <2>5 DEF WriteOrphans
<1>2. CASE WriteRewards
  <2>1. UNCHANGED chain /\ pc = "write"
    BY <1>2 DEF WriteRewards
  <2>2. PICK r \in mature : r.block = block /\ (WriteImmature(r) \/ WriteMatured(r))
    BY <1>2 DEF WriteRewards
  <2>3. r.block \in Blocks
    BY DEF TypeOK, Rows
  <2>4. CASE WriteImmature(r)
    BY <2>1, <2>2, <2>4 DEF WriteImmature, Failing
  <2>5. CASE WriteMatured(r)
    <3>1. \A p \in Readings(r.block) : p \in Rewards
      BY <2>3, RewardType DEF TypeOK, Readings
    <3>2. QED
      BY <2>1, <2>2, <2>5, <3>1 DEF WriteMatured, Failing
  <2>6. QED
    BY <2>2, <2>4, <2>5
<1>3. CASE GetLatestBlock \/ Select \/ GetBlockByHash \/ GetBlockByHeight \/ CalculateRewards
  BY <1>3 DEF GetLatestBlock, Select, GetBlockByHash, GetBlockByHeight, CalculateRewards
<1>4. CASE Start \/ Tick \/ Stop \/ Crash \/ Extend \/ \E b \in Blocks : Reorganize(b)
  BY <1>4 DEF Start, Tick, Stop, Crash, Exit, Extend, Reorganize
<1>5. CASE UNCHANGED vars
  BY <1>5 DEF vars
<1>6. QED
  BY <1>1, <1>2, <1>3, <1>4, <1>5, PanicIsCrash DEF Next, HalfPass

-----------------------------------------------------------------------------
(* The rows *)

\* A row that joins the matured ones.
LEMMA MaturedStep ==
  ASSUME TypeOK, NEW r \in Rows, matured' = matured \cup {r}
  PROVE  \A K \in SUBSET Kinds :
           MaturedAs(K)' = MaturedAs(K) \cup IF r.kind \in K THEN {r.block} ELSE {}
BY DEF MaturedAs

\* With no new row there is nothing new matured.
LEMMA MaturedSame ==
  ASSUME UNCHANGED matured
  PROVE  \A K : MaturedAs(K)' = MaturedAs(K)
BY DEF MaturedAs

\* What is found, made immature and matured, in the terms of OneStage.
LEMMA MaturedKinds ==
  ASSUME TypeOK
  PROVE  /\ MaturedAs(Kinds) = {r.block : r \in matured}
         /\ \A K \in SUBSET Kinds : MaturedAs(K) \subseteq MaturedAs(Kinds)
         /\ MaturedAs(Kinds) = MaturedAs({"block"}) \cup MaturedAs({"uncle", "orphan"})
         /\ MaturedAs(Kinds) \subseteq Blocks
BY DEF MaturedAs, TypeOK, Rows, Kinds

\* A new candidate keeps the rows consistent.
LEMMA FindRows ==
  ASSUME TypeOK, OneStage, RowsInv, NEW b \in Blocks, Find(b)
  PROVE  OneStage' /\ RowsInv'
<1>1. \A K : MaturedAs(K)' = MaturedAs(K)
  BY MaturedSame DEF Find
<1>2. OneStage'
  BY <1>1 DEF OneStage, Find, money
<1>3. RowsInv'
  BY DEF RowsInv, Find, money
<1>4. QED
  BY <1>2, <1>3

\* Moving orphans among the candidates keeps the rows consistent.
LEMMA PendingOrphansRows ==
  ASSUME TypeOK, OneStage, RowsInv, orphaned \subseteq candidates, WritePendingOrphans,
         UNCHANGED chain
  PROVE  OneStage' /\ RowsInv'
<1>1. \A K : MaturedAs(K)' = MaturedAs(K)
  BY MaturedSame DEF WritePendingOrphans, MakeImmature
<1>2. OneStage'
  BY <1>1 DEF OneStage, WritePendingOrphans, MakeImmature, money, chain
<1>3. RowsInv'
  BY DEF RowsInv, WritePendingOrphans, MakeImmature, money, chain
<1>4. QED
  BY <1>2, <1>3

\* WriteImmatureBlock of a candidate keeps the rows consistent, and promises anew.
LEMMA ImmatureRows ==
  ASSUME TypeOK, OneStage, RowsInv, NEW b \in candidates, reward \in {NoReward, Share[b]},
         WriteImmatureBlock(b), UNCHANGED chain
  PROVE  OneStage' /\ RowsInv' /\ immatureCredits[b] = NoReward
<1>1. \A K : MaturedAs(K)' = MaturedAs(K)
  BY MaturedSame DEF WriteImmatureBlock, MakeImmature
<1>2. OneStage'
  BY <1>1 DEF OneStage, WriteImmatureBlock, MakeImmature, chain
<1>3. immatureCredits[b] = NoReward
  BY DEF RowsInv, OneStage, TypeOK
<1>4. RowsInv'
  BY DEF RowsInv, WriteImmatureBlock, MakeImmature, chain, SetNX, TypeOK
<1>5. QED
  BY <1>2, <1>3, <1>4

\* WriteOrphan of an immature block keeps the rows consistent.
LEMMA OrphanRows ==
  ASSUME TypeOK, OneStage, RowsInv, NEW b \in immature, NEW p \in Rewards,
         WriteOrphan(b, p), UNCHANGED chain
  PROVE  OneStage' /\ RowsInv'
<1> DEFINE r == [block |-> b, kind |-> "orphan"]
<1>1. r \in Rows /\ r.block = b /\ r.kind = "orphan" /\ matured' = matured \cup {r}
  BY DEF TypeOK, Rows, Kinds, WriteOrphan, MakeMatured
<1> HIDE DEF r
<1>2. /\ MaturedAs(Kinds)' = MaturedAs(Kinds) \cup {b}
      /\ MaturedAs({"block"})' = MaturedAs({"block"})
  <2>1. {"block"} \in SUBSET Kinds /\ "orphan" \in Kinds /\ "orphan" \notin {"block"}
    BY DEF Kinds
  <2>2. /\ MaturedAs(Kinds)' = MaturedAs(Kinds) \cup IF r.kind \in Kinds THEN {r.block} ELSE {}
        /\ MaturedAs({"block"})' =
             MaturedAs({"block"}) \cup IF r.kind \in {"block"} THEN {r.block} ELSE {}
    BY <1>1, <2>1, MaturedStep
  <2>3. QED
    BY <1>1, <2>1, <2>2
<1>3. \A s \in matured : s.block # b
  BY MaturedKinds DEF OneStage
<1>4. OneStage'
  BY <1>1, <1>2, <1>3 DEF OneStage, WriteOrphan, MakeMatured, chain
<1>5. RowsInv'
  BY DEF RowsInv, OneStage, WriteOrphan, MakeMatured, chain,
    DropPromise, Del, TypeOK
<1>6. QED
  BY <1>4, <1>5

\* WriteMaturedBlock of an immature row keeps the rows consistent, and pays anew.
LEMMA MaturedRows ==
  ASSUME TypeOK, OneStage, RowsInv, NEW r \in Rows, NEW p \in Rewards,
         r.block \in immature,
         reward = IF r.kind = "block" THEN Share[r.block] ELSE NoReward,
         WriteMaturedBlock(r, p), UNCHANGED chain
  PROVE  OneStage' /\ RowsInv' /\ credits[r.block] = NoReward
<1>1. r.kind \in Kinds /\ matured' = matured \cup {r} /\ r.block \in Blocks
  BY DEF Rows, WriteMaturedBlock, MakeMatured
<1>2. /\ MaturedAs(Kinds)' = MaturedAs(Kinds) \cup {r.block}
      /\ MaturedAs({"block"})' =
           MaturedAs({"block"}) \cup IF r.kind = "block" THEN {r.block} ELSE {}
  BY <1>1, MaturedStep DEF Kinds
<1>3. \A s \in matured : s.block # r.block
  BY MaturedKinds DEF OneStage
<1>4. MaturedAs({"block"}) \subseteq MaturedAs(Kinds)
  BY MaturedKinds DEF Kinds
<1>5. credits[r.block] = NoReward
  BY <1>1, <1>4 DEF OneStage
<1>6. \A b \in Blocks : credits'[b] = IF b = r.block THEN reward ELSE credits[b]
  BY <1>1, <1>5 DEF WriteMaturedBlock, SetNX, TypeOK
<1>7. OneStage'
  <2>1. (/\ found = candidates \cup immature \cup MaturedAs(Kinds)
         /\ candidates \cap immature = {}
         /\ MaturedAs(Kinds) \cap (candidates \cup immature) = {})'
    BY <1>2 DEF OneStage, WriteMaturedBlock, MakeMatured, chain
  <2>2. (\A t, s \in matured : t.block = s.block => t = s)'
    BY <1>1, <1>3 DEF OneStage
  <2>3. ASSUME NEW b \in Blocks
        PROVE  (credits[b] = IF b \in MaturedAs({"block"}) THEN Share[b] ELSE NoReward)'
    BY <1>2, <1>4, <1>6 DEF OneStage
  <2>4. QED
    BY <2>1, <2>2, <2>3 DEF OneStage
<1>8. RowsInv'
  BY <1>1 DEF RowsInv, OneStage, WriteMaturedBlock, MakeMatured, chain,
    DropPromise, Del, TypeOK
<1>9. QED
  BY <1>5, <1>7, <1>8

-----------------------------------------------------------------------------
(* The views *)

\* The views in their order, when one is added and when the oldest is applied.
LEMMA AppendedView ==
  ASSUME TypeOK, Replicated
  PROVE  /\ Last \in Nat /\ Last' = Last + 1
         /\ \A i \in 0..Last : At(i)' = At(i)
         /\ \A j : j = Last' => At(j)' = View(candidates', immature', rounds')
         /\ Known' = Known \cup {View(candidates', immature', rounds')}
<1> DEFINE new == View(candidates', immature', rounds')
<1>1. stream \in Seq(Views) /\ stream' = Append(stream, new) /\ follower' = follower
  BY DEF TypeOK, Replicated
<1> HIDE DEF new
<1>2. /\ Len(stream) \in Nat /\ Len(stream') = Len(stream) + 1
      /\ \A i \in 1..Len(stream) : stream'[i] = stream[i]
      /\ stream'[Len(stream) + 1] = new
      /\ DOMAIN stream = 1..Len(stream) /\ DOMAIN stream' = 1..(Len(stream) + 1)
  BY <1>1
<1>3. Known' = Known \cup {new}
  BY <1>1, <1>2 DEF Known
<1>4. \A i \in 0..Last : At(i)' = At(i)
  BY <1>1, <1>2 DEF At, Last
<1>5. \A j : j = Last' => At(j)' = new
  BY <1>1, <1>2 DEF At, Last
<1>6. QED
  BY <1>2, <1>3, <1>4, <1>5 DEF Last, new

\* Replication moves the views on by one.
LEMMA AppliedView ==
  ASSUME TypeOK, Replicate
  PROVE  /\ Last \in Nat /\ Last' = Last - 1
         /\ \A i \in 0..Last' : At(i)' = At(i + 1)
         /\ Known' \subseteq Known
<1>1. /\ stream \in Seq(Views) /\ stream # <<>>
      /\ stream' = Tail(stream) /\ follower' = stream[1]
  BY DEF TypeOK, Replicate
<1>2. /\ Len(stream) \in Nat \ {0} /\ Len(stream') = Len(stream) - 1
      /\ \A i \in 1..Len(stream') : stream'[i] = stream[i + 1]
      /\ DOMAIN stream = 1..Len(stream) /\ DOMAIN stream' = 1..Len(stream')
  BY <1>1
<1>3. Known' \subseteq Known
  BY <1>1, <1>2 DEF Known
<1>4. \A i \in 0..Last' : At(i)' = At(i + 1)
  BY <1>1, <1>2 DEF At, Last
<1>5. QED
  BY <1>2, <1>3, <1>4 DEF Last

\* The views still to be seen are those from the follower's to the newest.
LEMMA KnownViews ==
  ASSUME TypeOK
  PROVE  /\ Last \in Nat
         /\ Known = {At(i) : i \in 0..Last}
         /\ Known \subseteq Views /\ follower \in Known
<1>1. Last \in Nat /\ DOMAIN stream = 1..Last
  BY DEF TypeOK, Last
<1>2. Known = {At(i) : i \in 0..Last}
  BY <1>1 DEF Known, At
<1>3. Known \subseteq Views /\ follower \in Known
  BY <1>1 DEF Known, TypeOK
<1>4. QED
  BY <1>1, <1>2, <1>3

\* A write of the leader adds its view; a candidate that leaves the list is
\* immature then, and a round that was deleted does not come back.
LEMMA ViewsAfterWrite ==
  ASSUME TypeOK, ViewsInv, Replicated, OneStage', RowsInv', found \subseteq found',
         candidates \subseteq candidates' \cup immature',
         \A b \in rounds' : b \in rounds \/ b \notin found
  PROVE  ViewsInv'
<1> DEFINE new == View(candidates', immature', rounds')
<1>1. /\ Last \in Nat /\ Last' = Last + 1
      /\ \A i \in 0..Last : At(i)' = At(i)
      /\ \A j : j = Last' => At(j)' = new
      /\ Known' = Known \cup {new}
  BY AppendedView
<1>2. new.candidates = candidates' /\ new.immature = immature' /\ new.rounds = rounds'
  BY DEF View
<1> HIDE DEF new
<1>3. ASSUME NEW v \in Known'
      PROVE  /\ v.candidates \cap v.immature = {}
             /\ v.candidates \cup v.immature \subseteq v.rounds
             /\ v.rounds \subseteq found'
  <2>1. CASE v \in Known
    BY <2>1 DEF ViewsInv
  <2>2. CASE v = new
    BY <1>2, <2>2 DEF OneStage, RowsInv
  <2>3. QED
    BY <1>1, <2>1, <2>2
<1>4. ASSUME NEW i \in 0..Last', NEW b \in At(i)'.candidates
      PROVE  b \in candidates' \/ \E j \in i..Last' : b \in At(j)'.immature
  <2>1. CASE i = Last'
    BY <1>1, <1>2, <1>4, <2>1
  <2>2. CASE i \in 0..Last
    <3>1. b \in At(i).candidates
      BY <1>1, <1>4, <2>2
    <3>2. CASE b \in candidates
      <4>1. PICK j \in i..Last' : j = Last'
        BY <1>1, <2>2
      <4>2. b \in candidates' \/ b \in At(j)'.immature
        BY <1>1, <1>2, <3>2, <4>1
      <4>3. QED
        BY <4>2
    <3>3. ASSUME NEW j \in i..Last, b \in At(j).immature
          PROVE  \E k \in i..Last' : b \in At(k)'.immature
      <4>1. j \in 0..Last /\ j \in i..Last'
        BY <1>1, <2>2
      <4>2. QED
        BY <1>1, <3>3, <4>1
    <3>4. QED
      BY <2>2, <3>1, <3>2, <3>3 DEF ViewsInv
  <2>3. QED
    BY <1>1, <2>1, <2>2
<1>5. ASSUME NEW i \in 0..Last', NEW j \in i..Last', NEW b \in At(i)'.rounds
      PROVE  b \in At(j)'.rounds \/ b \notin rounds'
  <2>1. CASE j = Last'
    BY <1>1, <1>2, <2>1
  <2>2. CASE j \in 0..Last
    <3>1. i \in 0..Last /\ j \in i..Last
      BY <1>1, <2>2
    <3>2. b \in At(i).rounds /\ At(j)' = At(j)
      BY <1>1, <2>2, <3>1, <1>5
    <3>3. b \in At(j).rounds \/ b \notin rounds
      BY <3>1, <3>2 DEF ViewsInv
    <3>4. b \in found
      <4>1. At(i) \in Known
        BY <3>1, KnownViews
      <4>2. QED
        BY <3>2, <4>1 DEF ViewsInv
    <3>5. QED
      BY <3>2, <3>3, <3>4
  <2>3. j \in 0..Last \/ j = Last'
    BY <1>1
  <2>4. QED
    BY <2>1, <2>2, <2>3
<1>6. QED
  BY <1>3, <1>4, <1>5 DEF ViewsInv

\* The follower applies a view.
LEMMA ViewsAfterReplicate ==
  ASSUME TypeOK, ViewsInv, Replicate
  PROVE  ViewsInv'
<1>1. /\ Last \in Nat /\ Last' = Last - 1
      /\ \A i \in 0..Last' : At(i)' = At(i + 1)
      /\ Known' \subseteq Known
  BY AppliedView
<1>2. candidates' = candidates /\ rounds' = rounds /\ found' = found
  BY DEF Replicate, rows, chain
<1>3. ASSUME NEW i \in 0..Last', NEW b \in At(i)'.candidates
      PROVE  b \in candidates' \/ \E j \in i..Last' : b \in At(j)'.immature
  <2>1. i + 1 \in 0..Last /\ b \in At(i + 1).candidates
    BY <1>1, <1>3
  <2>2. CASE b \in candidates
    BY <1>2, <2>2
  <2>3. ASSUME NEW j \in (i + 1)..Last, b \in At(j).immature
        PROVE  \E k \in i..Last' : b \in At(k)'.immature
    <3>1. j - 1 \in i..Last' /\ j - 1 \in 0..Last' /\ (j - 1) + 1 = j
      BY <1>1
    <3>2. At(j - 1)' = At(j)
      BY <1>1, <3>1
    <3>3. QED
      BY <2>3, <3>1, <3>2
  <2>4. QED
    BY <2>1, <2>2, <2>3 DEF ViewsInv
<1>4. ASSUME NEW i \in 0..Last', NEW j \in i..Last', NEW b \in At(i)'.rounds
      PROVE  b \in At(j)'.rounds \/ b \notin rounds'
  <2>1. /\ i + 1 \in 0..Last /\ j + 1 \in (i + 1)..Last /\ j \in 0..Last'
    BY <1>1
  <2>2. b \in At(i + 1).rounds /\ At(j)' = At(j + 1)
    BY <1>1, <1>4, <2>1
  <2>3. QED
    BY <1>2, <2>1, <2>2 DEF ViewsInv
<1>5. \A v \in Known' : /\ v.candidates \cap v.immature = {}
                        /\ v.candidates \cup v.immature \subseteq v.rounds
                        /\ v.rounds \subseteq found'
  BY <1>1, <1>2 DEF ViewsInv
<1>6. QED
  BY <1>3, <1>4, <1>5 DEF ViewsInv

-----------------------------------------------------------------------------
(* The locals of a half pass *)

\* A half pass ends, and so do the views it relied on, unless the second half
\* follows.
LEMMA PassEnds ==
  ASSUME TypeOK, PassInv, pc \notin {"off", "idle"}, EndPass,
         Known' \subseteq Known \cup {View(candidates', immature', rounds')},
         pass = "pending" => immature \subseteq immature'
  PROVE  PassInv'
<1>1. Working' = {} /\ Matures' = {} /\ mature' = {}
  BY DEF EndPass, Forget, Working, Matures
<1>2. CASE pass = "credit"
  <2>1. pc' = "idle" /\ pass' = "pending" /\ todo' = {} /\ orphaned' = {}
    BY <1>2 DEF EndPass, Forget
  <2>2. QED
    BY <1>1, <2>1 DEF PassInv
<1>3. CASE pass = "pending"
  <2>1. pc' = "latest" /\ pass' = "credit" /\ todo' = {} /\ orphaned' = {}
    BY <1>3 DEF EndPass, Forget
  <2>2. \A v \in Known' : v.immature \subseteq immature'
    BY <1>3 DEF PassInv, View
  <2>3. QED
    BY <1>1, <2>1, <2>2 DEF PassInv
<1>4. QED
  BY <1>2, <1>3 DEF TypeOK

\* A pass that has broken off knows nothing.
LEMMA PassBreaks ==
  ASSUME Forget, pc' \in {"off", "idle"}, pass' = "pending"
  PROVE  PassInv'
BY DEF Forget, PassInv, Working, Matures

\* A pass starts when all views agree with the leader on the immature rows.
LEMMA PassStarts ==
  ASSUME TypeOK, OneStage, ViewsInv, PassInv, ~ Lagging, Start \/ Tick
  PROVE  PassInv'
<1>1. /\ pc \in {"off", "idle"} /\ pc' = "latest" /\ pass' = pass /\ pass = "pending"
      /\ UNCHANGED <<todo, orphaned, mature, candidates, immature, rounds, follower, stream>>
      /\ \A v \in Known : v.immature = immature
  BY DEF Start, Tick, Goto, CaughtUp, PassInv, result, rows, replica
<1>2. Working' = {} /\ Matures' = Matures /\ Known' = Known
  BY <1>1 DEF PassInv, Working, Matures, Known
<1>3. ASSUME NEW v \in Known, NEW b \in v.candidates
      PROVE  b \in candidates
  <2>1. PICK i \in 0..Last : v = At(i)
    BY KnownViews
  <2>2. CASE b \in candidates
    BY <2>2
  <2>3. ASSUME NEW j \in i..Last, b \in At(j).immature
        PROVE  FALSE
    <3>1. At(j) \in Known
      BY KnownViews
    <3>2. b \in v.immature
      BY <1>1, <2>3, <3>1
    <3>3. QED
      BY <1>3, <3>2 DEF ViewsInv
  <2>4. QED
    BY <1>3, <2>1, <2>2, <2>3 DEF ViewsInv
<1>4. QED
  BY <1>1, <1>2, <1>3 DEF PassInv

\* What is selected is on the leader's list, too, and its round in every view.
LEMMA PassSelects ==
  ASSUME TypeOK, OneStage, RowsInv, ViewsInv, PassInv, pc = "select", Selected # {},
         pc' = "byHash", todo' = Selected, UNCHANGED <<pass, orphaned, mature>>,
         UNCHANGED <<rows, replica>>
  PROVE  PassInv'
<1>1. /\ UNCHANGED <<candidates, immature, rounds>> /\ Known' = Known
      /\ Matures' = {} /\ mature' = {} /\ orphaned' = {} /\ Working' = Selected
  BY DEF rows, replica, Known, PassInv, Working, Matures
<1>2. follower \in Known /\ follower = At(0)
  BY KnownViews DEF At
<1>3. Selected \subseteq IF pass = "pending" THEN candidates ELSE immature
  BY <1>2 DEF PassInv, Selected, TypeOK
<1>4. ASSUME NEW b \in Selected, NEW v \in Known
      PROVE  b \in v.rounds
  <2>1. b \in rounds
    BY <1>3 DEF RowsInv
  <2>2. b \in At(0).rounds
    BY <1>2 DEF Selected, ViewsInv
  <2>3. PICK i \in 0..Last : v = At(i)
    BY KnownViews
  <2>4. 0 \in 0..Last /\ i \in 0..Last
    BY KnownViews
  <2>5. QED
    BY <2>1, <2>2, <2>3, <2>4 DEF ViewsInv
<1>5. (\A v \in Known : v.immature \subseteq immature)' \/ pass' # "pending"
  BY <1>1 DEF PassInv
<1> HIDE DEF Selected
<1>6. QED
  BY <1>1, <1>3, <1>4, <1>5 DEF PassInv

\* A judged row is a row of the pass, judged at the depth the pass has seen.
LEMMA PassJudges ==
  ASSUME TypeOK, PassInv, pc = "byHeight", Judge(Judgement), UNCHANGED <<rows, replica>>
  PROVE  PassInv'
<1>1. UNCHANGED <<candidates, immature, rounds, pass>> /\ Known' = Known
  BY DEF rows, replica, Known, Judge
<1>2. block \in todo /\ Judgement \in {"block", "uncle", "orphan"}
  BY DEF TypeOK, Judgement
<1>3. /\ todo' \subseteq todo \ {block} /\ pc' \in {"byHash", "orphans"}
      /\ orphaned' = orphaned \cup IF Judgement = "orphan" THEN {block} ELSE {}
      /\ mature' = mature \cup IF Judgement = "orphan" THEN {}
                               ELSE {[block |-> block, kind |-> Judgement]}
  BY DEF Judge
<1> HIDE DEF Judgement
<1>4. Matures' = Matures \cup IF Judgement = "orphan" THEN {} ELSE {block}
  <2>1. CASE Judgement = "orphan"
    BY <1>3, <2>1 DEF Matures
  <2>2. CASE Judgement # "orphan"
    <3> DEFINE row == [block |-> block, kind |-> Judgement]
    <3>1. mature' = mature \cup {row} /\ row.block = block
      BY <1>3, <2>2
    <3> HIDE DEF row
    <3>2. QED
      BY <2>2, <3>1 DEF Matures
  <2>3. QED
    BY <2>1, <2>2
<1>5. Working' \subseteq Working
  BY <1>2, <1>3, <1>4 DEF Working
<1>6. (todo \cap (orphaned \cup Matures) = {} /\ orphaned \cap Matures = {})'
  BY <1>2, <1>3, <1>4 DEF PassInv
<1>7. (\A r, s \in mature : r.block = s.block => r = s)'
  <2>1. \A r \in mature : r.block # block
    BY <1>2 DEF PassInv, Matures
  <2>2. QED
    BY <1>3, <2>1 DEF PassInv
<1>8. QED
  BY <1>1, <1>3, <1>5, <1>6, <1>7 DEF PassInv

\* The writes of orphans keep what the pass knows.
LEMMA PassOrphans ==
  ASSUME TypeOK, OneStage, RowsInv, PassInv, WriteOrphans
  PROVE  PassInv'
<1>1. pc = "orphans"
  BY DEF WriteOrphans
<1>2. CASE orphaned = {} /\ AfterOrphans /\ UNCHANGED <<rows, money, replica, faults>>
  <2>1. UNCHANGED <<candidates, immature, rounds>> /\ Known' = Known
    BY <1>2 DEF rows, replica, Known
  <2>2. CASE mature = {}
    BY <1>1, <1>2, <2>1, <2>2, PassEnds DEF AfterOrphans
  <2>3. CASE mature # {}
    <3>1. /\ pc' = "shares" /\ orphaned' = orphaned
          /\ UNCHANGED <<pass, todo, mature>>
      BY <1>2, <2>3 DEF AfterOrphans
    <3>2. Working' = Working /\ Matures' = Matures
      BY <3>1 DEF Working, Matures
    <3>3. QED
      BY <1>1, <2>1, <3>1, <3>2 DEF PassInv
  <2>4. QED
    BY <2>2, <2>3
<1>3. CASE pass = "pending" /\ WritePendingOrphans /\ AfterOrphans
  <2>1. /\ candidates' = candidates \ orphaned /\ immature' = immature \cup orphaned
        /\ rounds' = rounds /\ Known' = Known \cup {View(candidates', immature', rounds')}
    BY <1>3, AppendedView DEF WritePendingOrphans, MakeImmature
  <2>2. CASE mature = {}
    BY <1>1, <1>3, <2>1, <2>2, PassEnds DEF AfterOrphans
  <2>3. CASE mature # {}
    <3>1. /\ pc' = "shares" /\ orphaned' = {}
          /\ UNCHANGED <<pass, todo, mature>>
      BY <1>3, <2>3 DEF AfterOrphans
    <3>2. Working' = todo \cup Matures /\ Matures' = Matures /\ Working' \subseteq Working
      BY <3>1 DEF Working, Matures
    <3>3. Working' \subseteq candidates'
      BY <1>3, <2>1, <3>2 DEF PassInv, Working
    <3>4. \A v \in Known' : v.immature \subseteq immature' /\ Working' \subseteq v.rounds
      <4>1. Working' \subseteq rounds
        BY <1>3, <3>2 DEF PassInv, RowsInv
      <4>2. QED
        BY <1>1, <1>3, <2>1, <3>2, <4>1 DEF PassInv, View
    <3>5. QED
      BY <1>3, <3>1, <3>2, <3>3, <3>4 DEF PassInv
  <2>4. QED
    BY <2>2, <2>3
<1>4. CASE HaltPass
  BY <1>4, PassBreaks DEF HaltPass
<1>5. ASSUME pass = "credit", NEW b \in First(orphaned),
             NEW p \in Readings(b), WriteOrphan(b, p),
             orphaned' = orphaned \ {b},
             UNCHANGED <<pc, halt, pass, current, todo, block, hashFound, mature, reward>>
      PROVE  PassInv'
  <2>1. b \in orphaned
    BY DEF First
  <2>2. /\ immature' = immature \ {b} /\ rounds' = rounds \ {b}
        /\ Known' = Known \cup {View(candidates', immature', rounds')}
    BY <1>5, AppendedView DEF WriteOrphan, MakeMatured
  <2>3. Matures' = Matures /\ Working' \subseteq Working /\ b \notin Working'
    BY <1>5, <2>1 DEF Working, Matures, PassInv
  <2>4. Working' \subseteq immature' /\ Working' \subseteq rounds'
    BY <1>5, <2>2, <2>3 DEF PassInv, RowsInv
  <2>5. \A v \in Known' : Working' \subseteq v.rounds
    BY <2>2, <2>3, <2>4 DEF PassInv, View
  <2>6. QED
    BY <1>1, <1>5, <2>3, <2>4, <2>5 DEF PassInv
<1>6. QED
  BY <1>2, <1>3, <1>4, <1>5 DEF WriteOrphans

\* The rewards in hand are those of the row in hand.
LEMMA PassCalculates ==
  ASSUME TypeOK, PassInv, CalculateRewards
  PROVE  PassInv'
<1>1. CASE HaltPass
  BY <1>1, PassBreaks DEF HaltPass
<1>2. ASSUME NEW r \in FirstRow(mature), block' = r.block, reward' = Calculated(r),
             pc' = "write",
             UNCHANGED <<halt, pass, current, todo, hashFound, orphaned, mature, faults>>
      PROVE  PassInv'
  <2>1. r \in mature /\ r.block \in follower.rounds
    <3>1. r \in mature /\ r.block \in Working
      BY DEF FirstRow, Working, Matures
    <3>2. QED
      BY <3>1, KnownViews DEF PassInv
  <2>2. reward' = IF r.kind = "block" THEN Share[r.block] ELSE NoReward
    BY <1>2, <2>1 DEF Calculated
  <2>3. \A s \in mature : s.block = block' => s = r
    BY <1>2, <2>1 DEF PassInv
  <2>4. UNCHANGED <<candidates, immature, rounds>> /\ Known' = Known /\ pc = "shares"
    BY DEF CalculateRewards, rows, replica, Known
  <2>5. Working' = Working /\ Matures' = Matures
    BY <1>2 DEF Working, Matures
  <2>6. QED
    BY <1>2, <2>2, <2>3, <2>4, <2>5 DEF PassInv
<1>3. QED
  BY <1>1, <1>2 DEF CalculateRewards

\* The write of a row keeps what the pass knows of the others.
LEMMA PassWrites ==
  ASSUME TypeOK, OneStage, RowsInv, PassInv, WriteRewards
  PROVE  PassInv'
<1>1. PICK r \in mature : r.block = block /\ (WriteImmature(r) \/ WriteMatured(r))
  BY DEF WriteRewards
<1>2. pc = "write" /\ r \in Rows
  BY DEF WriteRewards, TypeOK
<1>3. CASE HaltPass
  BY <1>3, PassBreaks DEF HaltPass
<1>4. ASSUME AfterRow(r), Known' = Known \cup {View(candidates', immature', rounds')},
             pass = "pending" => immature \subseteq immature' /\ rounds' = rounds
                                 /\ candidates' = candidates \ {r.block},
             pass = "credit" => immature' = immature \ {r.block}
                                /\ rounds' = rounds \ {r.block}
      PROVE  PassInv'
  <2>1. CASE mature = {r}
    BY <1>2, <1>4, <2>1, PassEnds DEF AfterRow
  <2>2. CASE mature # {r}
    <3>1. /\ pc' = "shares" /\ mature' = mature \ {r}
          /\ UNCHANGED <<pass, todo, orphaned>>
      BY <1>4, <2>2 DEF AfterRow
    <3>2. Matures' \subseteq Matures /\ r.block \notin Matures'
      BY <3>1 DEF Matures, PassInv
    <3>3. Working' \subseteq Working /\ r.block \notin Working'
      <4>1. r.block \in Matures
        BY DEF Matures
      <4>2. QED
        BY <3>1, <3>2, <4>1 DEF Working, PassInv
    <3>4. /\ Working' \subseteq (IF pass = "pending" THEN candidates ELSE immature)'
          /\ Working' \subseteq rounds'
      BY <1>4, <3>1, <3>3 DEF PassInv, RowsInv, TypeOK
    <3>5. \A v \in Known' : Working' \subseteq v.rounds
      BY <1>4, <3>3, <3>4 DEF PassInv, View
    <3>6. pass' = "pending" => \A v \in Known' : v.immature \subseteq immature'
      BY <1>2, <1>4, <3>1 DEF PassInv, View
    <3>7. (todo \cap (orphaned \cup Matures) = {} /\ orphaned \cap Matures = {})'
      BY <3>1, <3>2 DEF PassInv
    <3>8. QED
      BY <3>1, <3>4, <3>5, <3>6, <3>7 DEF PassInv
  <2>3. QED
    BY <2>1, <2>2
<1>5. CASE WriteImmature(r)
  <2>1. WriteImmatureBlock(r.block) =>
          /\ Known' = Known \cup {View(candidates', immature', rounds')}
          /\ immature \subseteq immature' /\ rounds' = rounds
          /\ candidates' = candidates \ {r.block}
    BY AppendedView DEF WriteImmatureBlock, MakeImmature
  <2>2. QED
    BY <1>3, <1>4, <1>5, <2>1 DEF WriteImmature
<1>6. CASE WriteMatured(r)
  <2>1. \A p : WriteMaturedBlock(r, p) =>
          /\ Known' = Known \cup {View(candidates', immature', rounds')}
          /\ immature' = immature \ {r.block} /\ rounds' = rounds \ {r.block}
    BY AppendedView DEF WriteMaturedBlock, MakeMatured
  <2>2. QED
    BY <1>3, <1>4, <1>6, <2>1 DEF WriteMatured
<1>7. QED
  BY <1>1, <1>5, <1>6

\* Steps of the others leave the process alone.
LEMMA PassIdle ==
  ASSUME TypeOK, RowsInv, PassInv, UNCHANGED process,
         candidates \subseteq candidates', immature' = immature, rounds \subseteq rounds',
         Known' \subseteq Known \cup {View(candidates', immature', rounds')}
  PROVE  PassInv'
<1>1. /\ UNCHANGED <<pc, pass, todo, block, orphaned, mature, reward>>
      /\ Working' = Working /\ Matures' = Matures
  BY DEF process, result, Working, Matures
<1>2. \A v \in Known' : v \in Known \/ /\ v.candidates = candidates'
                                       /\ v.immature = immature /\ v.rounds = rounds'
  BY DEF View
<1>3. Working \subseteq rounds'
  BY DEF PassInv, RowsInv
<1>4. Working' \subseteq (IF pass = "pending" THEN candidates ELSE immature)'
  BY <1>1 DEF PassInv
<1>5. \A v \in Known' : Working' \subseteq v.rounds
  BY <1>1, <1>2, <1>3 DEF PassInv
<1>6. (pc \in {"latest", "select"} /\ pass = "pending" =>
         \A v \in Known : v.candidates \subseteq candidates)'
  BY <1>1, <1>2 DEF PassInv
<1>7. (pc \notin {"off", "idle"} /\ (pass = "pending" \/ pc \in {"latest", "select"}) =>
         \A v \in Known : v.immature \subseteq immature)'
  BY <1>1, <1>2 DEF PassInv
<1>8. QED
  BY <1>1, <1>4, <1>5, <1>6, <1>7 DEF PassInv

\* Every step keeps what the pass knows.
LEMMA PassStep ==
  ASSUME TypeOK, OneStage, RowsInv, ViewsInv, PassInv, ~ Lagging, [Next]_vars
  PROVE  PassInv'
<1>1. CASE Start \/ Tick
  BY <1>1, PassStarts
<1>2. CASE Stop \/ Crash
  BY <1>2, PassBreaks DEF Stop, Crash, Exit
<1>3. ASSUME UNCHANGED <<rows, replica>>
      PROVE  /\ UNCHANGED <<candidates, immature, rounds>>
             /\ Known' = Known
  BY <1>3 DEF rows, replica, Known
<1>4. CASE GetLatestBlock
  <2>1. CASE EndPass
    BY <1>3, <1>4, <2>1, PassEnds DEF GetLatestBlock
  <2>2. CASE ~ EndPass
    <3>1. /\ UNCHANGED <<pass, todo, block, orphaned, mature, reward>>
          /\ pc = "latest" /\ pc' = "select"
      BY <1>4, <2>2 DEF GetLatestBlock, result
    <3>2. Working' = Working /\ Matures' = Matures
      BY <3>1 DEF Working, Matures
    <3>3. QED
      BY <1>3, <1>4, <3>1, <3>2 DEF PassInv, GetLatestBlock
  <2>3. QED
    BY <2>1, <2>2
<1>5. CASE Select
  <2>1. CASE EndPass
    BY <1>3, <1>5, <2>1, PassEnds DEF Select
  <2>2. CASE HaltPass
    BY <2>2, PassBreaks DEF HaltPass
  <2>3. QED
    BY <1>5, <2>1, <2>2, PassSelects DEF Select, result
<1>6. CASE GetBlockByHash
  <2>1. /\ UNCHANGED <<pass, todo, orphaned, mature, reward>>
        /\ pc = "byHash" /\ pc' = "byHeight"
    BY <1>6 DEF GetBlockByHash, result
  <2>2. Working' = Working /\ Matures' = Matures
    BY <2>1 DEF Working, Matures
  <2>3. QED
    BY <1>3, <1>6, <2>1, <2>2 DEF PassInv, GetBlockByHash
<1>7. CASE GetBlockByHeight
  <2>1. CASE HaltPass
    BY <2>1, PassBreaks DEF HaltPass
  <2>2. QED
    BY <1>7, <2>1, PassJudges DEF GetBlockByHeight
<1>8. CASE WriteOrphans \/ CalculateRewards \/ WriteRewards
  BY <1>8, PassOrphans, PassCalculates, PassWrites
<1>9. CASE Extend \/ (\E b \in Blocks : Reorganize(b)) \/ UNCHANGED vars
  <2>1. UNCHANGED process /\ UNCHANGED <<rows, replica>>
    BY <1>9 DEF Extend, Reorganize, vars
  <2>2. QED
    BY <1>3, <2>1, PassIdle
<1>10. CASE Replicate
  <2>1. UNCHANGED process /\ UNCHANGED <<candidates, immature, rounds>>
    BY <1>10 DEF Replicate, rows
  <2>2. QED
    BY <1>10, <2>1, AppliedView, PassIdle
<1>11. ASSUME NEW b \in Blocks, Find(b)
       PROVE  PassInv'
  <2>1. /\ UNCHANGED process /\ candidates \subseteq candidates'
        /\ immature' = immature /\ rounds \subseteq rounds'
    BY <1>11 DEF Find
  <2>2. QED
    BY <1>11, <2>1, AppendedView, PassIdle DEF Find
<1>12. QED
  BY <1>1, <1>2, <1>4, <1>5, <1>6, <1>7, <1>8, <1>9, <1>10, <1>11,
    PanicIsCrash
  DEF Next, HalfPass

-----------------------------------------------------------------------------
(* The invariant of the rows and the views *)

\* Every step keeps each block in one list, and the follower's views behind the leader.
LEMMA RowsStep ==
  ASSUME TypeOK, OneStage, RowsInv, ViewsInv, PassInv, [Next]_vars
  PROVE  OneStage' /\ RowsInv' /\ ViewsInv'
<1>1. CASE UNCHANGED <<rows, money, replica>> /\ UNCHANGED found
  <2>1. \A K : MaturedAs(K)' = MaturedAs(K)
    BY <1>1, MaturedSame DEF rows
  <2>2. OneStage' /\ RowsInv'
    BY <1>1, <2>1 DEF OneStage, RowsInv, rows, money
  <2>3. Known' = Known /\ Last' = Last /\ \A i : At(i)' = At(i)
    BY <1>1 DEF Known, Last, At, replica
  <2>4. ViewsInv'
    BY <1>1, <2>3 DEF ViewsInv, rows
  <2>5. QED
    BY <2>2, <2>4
<1>2. CASE Replicate
  <2>1. \A K : MaturedAs(K)' = MaturedAs(K)
    BY <1>2, MaturedSame DEF Replicate, rows
  <2>2. OneStage' /\ RowsInv'
    BY <1>2, <2>1 DEF OneStage, RowsInv, Replicate, rows, money, chain
  <2>3. QED
    BY <1>2, <2>2, ViewsAfterReplicate
<1>3. ASSUME NEW b \in Blocks, Find(b)
      PROVE  OneStage' /\ RowsInv' /\ ViewsInv'
  <2>1. OneStage' /\ RowsInv'
    BY <1>3, FindRows
  <2>2. /\ Replicated /\ found' = found \cup {b} /\ candidates' = candidates \cup {b}
        /\ rounds' = rounds \cup {b} /\ b \notin found
    BY <1>3 DEF Find
  <2>3. QED
    BY <2>1, <2>2, ViewsAfterWrite
<1>4. CASE pc = "orphans" /\ pass = "pending" /\ WritePendingOrphans /\ UNCHANGED chain
  <2>1. orphaned \subseteq candidates
    BY <1>4 DEF PassInv, Working
  <2>2. OneStage' /\ RowsInv'
    BY <1>4, <2>1, PendingOrphansRows
  <2>3. /\ Replicated /\ found' = found /\ candidates' = candidates \ orphaned
        /\ immature' = immature \cup orphaned /\ rounds' = rounds
    BY <1>4 DEF WritePendingOrphans, MakeImmature, chain
  <2>4. QED
    BY <2>2, <2>3, ViewsAfterWrite
<1>5. ASSUME pass = "credit", UNCHANGED chain,
             NEW b \in orphaned, NEW p \in Rewards, WriteOrphan(b, p)
      PROVE  OneStage' /\ RowsInv' /\ ViewsInv'
  <2>1. b \in immature
    BY <1>5 DEF PassInv, Working
  <2>2. OneStage' /\ RowsInv'
    BY <1>5, <2>1, OrphanRows
  <2>3. /\ Replicated /\ found' = found /\ candidates' = candidates
        /\ rounds' = rounds \ {b}
    BY <1>5 DEF WriteOrphan, MakeMatured, chain
  <2>4. QED
    BY <2>2, <2>3, ViewsAfterWrite
<1>6. ASSUME pc = "write", pass = "pending", UNCHANGED chain,
             NEW r \in mature, r.block = block, WriteImmatureBlock(r.block)
      PROVE  OneStage' /\ RowsInv' /\ ViewsInv'
  <2>1. r.block \in candidates
    BY <1>6 DEF PassInv, Working, Matures
  <2>2. reward \in {NoReward, Share[r.block]}
    BY <1>6 DEF PassInv
  <2>3. OneStage' /\ RowsInv'
    BY <1>6, <2>1, <2>2, ImmatureRows
  <2>4. /\ Replicated /\ found' = found /\ candidates' = candidates \ {r.block}
        /\ immature' = immature \cup {r.block} /\ rounds' = rounds
    BY <1>6 DEF WriteImmatureBlock, MakeImmature, chain
  <2>5. QED
    BY <2>3, <2>4, ViewsAfterWrite
<1>7. ASSUME pc = "write", pass = "credit", UNCHANGED chain,
             NEW r \in mature, NEW p \in Rewards, r.block = block, WriteMaturedBlock(r, p)
      PROVE  OneStage' /\ RowsInv' /\ ViewsInv'
  <2>1. r.block \in immature /\ r \in Rows
    BY <1>7 DEF PassInv, Working, Matures, TypeOK
  <2>2. reward = IF r.kind = "block" THEN Share[r.block] ELSE NoReward
    BY <1>7 DEF PassInv
  <2>3. OneStage' /\ RowsInv'
    BY <1>7, <2>1, <2>2, MaturedRows
  <2>4. /\ Replicated /\ found' = found /\ candidates' = candidates
        /\ rounds' = rounds \ {r.block}
    BY <1>7 DEF WriteMaturedBlock, MakeMatured, chain
  <2>5. QED
    BY <2>3, <2>4, ViewsAfterWrite
<1>8. UNCHANGED <<rows, money, replica>> => UNCHANGED found \/ \E b \in Blocks : Find(b)
  <2>1. CASE HalfPass /\ ~ Crash
    BY <2>1, PanicIsCrash DEF HalfPass, GetLatestBlock, Select, GetBlockByHash,
      GetBlockByHeight, CalculateRewards, WriteOrphans, WriteRewards, chain
  <2>2. CASE Start \/ Tick \/ Stop \/ Crash \/ Extend \/ Replicate
    BY <2>2 DEF Start, Tick, Stop, Crash, Exit, Extend, Replicate, chain
  <2>3. ASSUME NEW b \in Blocks, Reorganize(b)
        PROVE  UNCHANGED found
    BY <2>3 DEF Reorganize
  <2>4. QED
    BY <2>1, <2>2, <2>3 DEF Next, vars, chain
<1>9. QED
  BY <1>1, <1>2, <1>3, <1>4, <1>5, <1>6, <1>7, <1>8, StepKinds

-----------------------------------------------------------------------------
(* The depth of what is matured *)

\* What a step does to the locals: it forgets them, forgets some of them, selects
\* or judges.
LEMMA LocalSteps ==
  ASSUME TypeOK, [Next]_vars
  PROVE  \/ todo' = {} /\ orphaned' = {} /\ mature' = {} /\ pc' # "byHeight"
         \/ /\ pass' = pass /\ todo' \subseteq todo /\ orphaned' \subseteq orphaned
            /\ mature' \subseteq mature
            /\ pc' = "byHeight" =>
                 \/ UNCHANGED <<pc, block, hashFound>>
                 \/ block' \in todo /\ (hashFound' = TRUE \/ Excused(block)')
         \/ /\ pass' = pass /\ UNCHANGED <<orphaned, mature, chain>>
            /\ pc = "select" /\ pc' = "byHash" /\ todo' = Selected
         \/ pc = "byHeight" /\ Judge(Judgement) /\ UNCHANGED chain
<1> DEFINE Fewer == /\ pass' = pass /\ todo' \subseteq todo /\ orphaned' \subseteq orphaned
                    /\ mature' \subseteq mature
           None == todo' = {} /\ orphaned' = {} /\ mature' = {} /\ pc' # "byHeight"
<1>1. EndPass \/ HaltPass \/ Exit => None
  BY DEF EndPass, HaltPass, Exit, Forget
<1>2. CASE Stop \/ Crash
  BY <1>1, <1>2 DEF Stop, Crash
<1>3. CASE Start \/ Tick
  <2>1. Fewer /\ pc' # "byHeight"
    BY <1>3 DEF Start, Tick, Goto, result
  <2>2. QED
    BY <2>1
<1>4. CASE GetLatestBlock
  BY <1>1, <1>4 DEF GetLatestBlock, result
<1>5. CASE Select
  BY <1>1, <1>5 DEF Select, result
<1>6. CASE GetBlockByHash
  <2>1. PICK b \in First(todo) :
          /\ block' = b
          /\ \/ hashFound' \in Answers(b)
             \/ unheard' = unheard \cup {b}
    BY <1>6 DEF GetBlockByHash
  <2>2. b \in todo /\ block' \in todo
    BY <2>1 DEF First
  <2>3. main' = main
    BY <1>6 DEF GetBlockByHash
  <2>4. hashFound' = TRUE \/ Excused(block)'
    BY <2>1, <2>3 DEF Answers, Excused
  <2>5. Fewer
    BY <1>6 DEF GetBlockByHash, result
  <2>6. QED
    BY <2>2, <2>4, <2>5
<1>7. CASE GetBlockByHeight
  BY <1>1, <1>7 DEF GetBlockByHeight
<1>8. CASE WriteOrphans
  <2>1. AfterOrphans => None \/ (Fewer /\ pc' # "byHeight")
    <3>1. AfterOrphans /\ mature = {} => None
      BY <1>1 DEF AfterOrphans
    <3>2. AfterOrphans /\ mature # {} => Fewer /\ pc' # "byHeight"
      BY DEF AfterOrphans
    <3>3. QED
      BY <3>1, <3>2
  <2>2. ASSUME NEW b \in First(orphaned), orphaned' = orphaned \ {b},
               UNCHANGED <<pc, halt, pass, current, todo, block, hashFound, mature, reward>>
        PROVE  Fewer /\ pc' # "byHeight"
    BY <1>8, <2>2 DEF WriteOrphans
  <2>3. None \/ (Fewer /\ pc' # "byHeight")
    <3>1. \/ AfterOrphans \/ HaltPass
          \/ \E b \in First(orphaned) :
               /\ orphaned' = orphaned \ {b}
               /\ UNCHANGED <<pc, halt, pass, current, todo, block, hashFound, mature, reward>>
      BY <1>8 DEF WriteOrphans
    <3> HIDE DEF None, Fewer
    <3>2. QED
      BY <1>1, <2>1, <2>2, <3>1
  <2>4. QED
    BY <2>3
<1>9. CASE CalculateRewards
  BY <1>1, <1>9 DEF CalculateRewards
<1>10. CASE WriteRewards
  <2>1. \A r \in mature : AfterRow(r) => None \/ (Fewer /\ pc' # "byHeight")
    <3>1. \A r \in mature : AfterRow(r) /\ mature = {r} => None
      BY <1>1 DEF AfterRow
    <3>2. \A r \in mature : AfterRow(r) /\ mature # {r} => Fewer /\ pc' # "byHeight"
      BY DEF AfterRow
    <3>3. QED
      BY <3>1, <3>2
  <2>2. None \/ (Fewer /\ pc' # "byHeight")
    <3>1. HaltPass \/ \E r \in mature : AfterRow(r)
      BY <1>10 DEF WriteRewards, WriteImmature, WriteMatured
    <3> HIDE DEF None, Fewer
    <3>2. QED
      BY <1>1, <2>1, <3>1
  <2>3. QED
    BY <2>2
<1>11. CASE Extend \/ Replicate \/ (\E b \in Blocks : Find(b) \/ Reorganize(b)) \/ UNCHANGED vars
  <2>1. UNCHANGED process
    BY <1>11 DEF Extend, Replicate, Find, Reorganize, vars
  <2>2. QED
    BY <2>1 DEF process, result
<1>12. QED
  BY <1>2, <1>3, <1>4, <1>5, <1>6, <1>7, <1>8, <1>9, <1>10, <1>11, PanicIsCrash
  DEF Next, HalfPass

\* The chain grows, and does not change its mind about what lies Depth below its
\* tip.
LEMMA DeepStays ==
  ASSUME TypeOK, [Next]_vars
  PROVE  /\ tip <= tip' /\ found \subseteq found'
         /\ \A b \in found : Height[b] + Depth <= tip => (b \in main <=> b \in main')
<1> USE BlocksAssumption, DepthAssumption DEF TypeOK
<1>1. CASE Extend
  BY <1>1 DEF Extend
<1>2. ASSUME NEW b \in Blocks, Find(b)
      PROVE  /\ tip <= tip' /\ found \subseteq found'
             /\ \A c \in found : c \in main <=> c \in main'
  BY <1>2 DEF Find
<1>3. ASSUME NEW b \in Blocks, Reorganize(b)
      PROVE  /\ tip <= tip' /\ found \subseteq found'
             /\ \A c \in found : Height[c] + Depth <= tip => (c \in main <=> c \in main')
  <2>1. tip' = tip /\ found' = found /\ tip < Height[b] + Depth
    BY <1>3 DEF Reorganize
  <2>2. ASSUME NEW c \in found, Height[c] + Depth <= tip
        PROVE  c \in main <=> c \in main'
    <3>1. Height[b] \in Nat /\ Height[c] \in Nat
      OBVIOUS
    <3>2. Height[c] # Height[b] /\ c # b
      BY <2>1, <2>2, <3>1
    <3>3. QED
      BY <1>3, <3>2 DEF Reorganize
  <2>3. QED
    BY <2>1, <2>2
<1>4. CASE ~ Extend /\ ~ \E b \in Blocks : Find(b) \/ Reorganize(b)
  <2>1. UNCHANGED <<tip, main, found>>
    BY <1>4, PanicIsCrash DEF Next, vars, HalfPass, GetLatestBlock, Select,
      GetBlockByHash, GetBlockByHeight, CalculateRewards, WriteOrphans,
      WriteRewards, Start, Tick, Stop, Crash, Exit, Replicate, chain
  <2>2. QED
    BY <2>1
<1>5. QED
  BY <1>1, <1>2, <1>3, <1>4

\* The height the half pass goes by is one the chain has had.
LEMMA CurrentStep ==
  ASSUME TypeOK, [Next]_vars, current <= tip
  PROVE  current' <= tip'
<1>1. tip <= tip' /\ tip \in Nat /\ tip' \in Nat
  BY DeepStays, TypeStep DEF TypeOK
<1>2. current' \in {0, current} \/ current' = tip
  <2>1. EndPass \/ HaltPass \/ Exit => current' = 0
    BY DEF EndPass, HaltPass, Exit, Forget
  <2>2. CASE HalfPass /\ ~ NullHash
    <3>1. AfterOrphans => current' \in {0, current}
      BY <2>1 DEF AfterOrphans
    <3>2. \A r \in mature : AfterRow(r) => current' \in {0, current}
      BY <2>1 DEF AfterRow
    <3>3. Judge(Judgement) => current' = current
      BY DEF Judge
    <3> HIDE DEF Judgement
    <3>4. QED
      BY <2>1, <2>2, <3>1, <3>2, <3>3
      DEF HalfPass, GetLatestBlock, Select, GetBlockByHash, GetBlockByHeight,
        CalculateRewards, WriteOrphans, WriteRewards, WriteImmature, WriteMatured
  <2>3. CASE Start \/ Tick \/ Stop \/ Crash
    BY <2>1, <2>3 DEF Start, Tick, Stop, Crash, Goto
  <2>4. CASE Extend \/ Replicate \/ (\E b \in Blocks : Find(b) \/ Reorganize(b)) \/ UNCHANGED vars
    BY <2>4 DEF Extend, Replicate, Find, Reorganize, vars, process
  <2>5. QED
    BY <2>2, <2>3, <2>4, PanicIsCrash DEF Next
<1>3. QED
  BY <1>1, <1>2 DEF TypeOK

\* What the second half works on lies deep, and its reward blocks are on the chain.
LEMMA WorkStep ==
  ASSUME TypeOK, OneStage, PassInv, DepthInv, [Next]_vars, pass' = "credit"
  PROVE  /\ \A b \in Working' : Height[b] + Depth <= tip'
         /\ \A r \in mature' : r.kind = "block" => r.block \in main'
<1> USE BlocksAssumption, DepthAssumption
<1>1. tip <= tip' /\ tip \in Nat /\ tip' \in Nat /\ current \in Nat /\ current <= tip
  BY DeepStays, TypeStep DEF TypeOK, DepthInv
<1>2. ASSUME NEW b \in Blocks, Height[b] + Depth <= tip
      PROVE  Height[b] + Depth <= tip'
  BY <1>1, <1>2
<1>3. Working \subseteq found /\ Working \subseteq Blocks
  BY DEF PassInv, OneStage, TypeOK
<1>4. CASE todo' = {} /\ orphaned' = {} /\ mature' = {}
  BY <1>4 DEF Working, Matures
<1>5. ASSUME pass' = pass, todo' \subseteq todo, orphaned' \subseteq orphaned,
             mature' \subseteq mature
      PROVE  /\ \A b \in Working' : Height[b] + Depth <= tip'
             /\ \A r \in mature' : r.kind = "block" => r.block \in main'
  <2>1. Working' \subseteq Working
    BY <1>5 DEF Working, Matures
  <2>2. \A r \in mature' : r.block \in Working
    BY <1>5 DEF Working, Matures
  <2>3. QED
    BY <1>2, <1>3, <1>5, <2>1, <2>2, DeepStays DEF DepthInv
<1>6. ASSUME pass' = pass, UNCHANGED <<orphaned, mature, chain>>, pc = "select",
             todo' = Selected
      PROVE  /\ \A b \in Working' : Height[b] + Depth <= tip'
             /\ \A r \in mature' : r.kind = "block" => r.block \in main'
  <2>1. mature' = {} /\ Working' = Selected
    BY <1>6 DEF PassInv, Working, Matures
  <2>2. Selected = {b \in follower.immature : Height[b] <= current - Depth}
    BY <1>6 DEF Selected
  <2>3. follower.immature \subseteq Blocks
    BY DEF TypeOK, Views
  <2>4. \A b \in Selected : b \in Blocks /\ Height[b] \in Nat /\ Height[b] <= current - Depth
    BY <2>2, <2>3
  <2> HIDE DEF Selected
  <2>5. \A b \in Selected : Height[b] + Depth <= tip'
    BY <1>1, <2>4
  <2>6. QED
    BY <2>1, <2>5
<1>7. ASSUME pc = "byHeight", Judge(Judgement), UNCHANGED chain
      PROVE  /\ \A b \in Working' : Height[b] + Depth <= tip'
             /\ \A r \in mature' : r.kind = "block" => r.block \in main'
  <2>1. /\ pass = "credit" /\ block \in todo /\ main' = main /\ tip' = tip
        /\ todo' \subseteq todo /\ orphaned' \subseteq orphaned \cup {block}
        /\ Judgement = "block" => block \in main
    BY <1>7 DEF Judge, TypeOK, chain, Judgement
  <2>2. \A r \in mature' : r \in mature \/ (r.block = block /\ r.kind = Judgement)
    BY <1>7 DEF Judge
  <2> HIDE DEF Judgement
  <2>3. Working' \subseteq Working
    BY <2>1, <2>2 DEF Working, Matures
  <2>4. QED
    BY <2>1, <2>2, <2>3 DEF DepthInv
<1>8. QED
  BY <1>4, <1>5, <1>6, <1>7, LocalSteps

\* What a step matures is a row the second half works on.
LEMMA NewlyMatured ==
  ASSUME TypeOK, PassInv, [Next]_vars, NEW r \in matured', r \notin matured
  PROVE  /\ pass = "credit" /\ r.block \in Working /\ UNCHANGED chain
         /\ r \in mature \/ (r.kind = "orphan" /\ r.block \in orphaned)
<1>1. ASSUME pass = "credit", UNCHANGED chain,
             NEW b \in orphaned, NEW p \in Rewards, WriteOrphan(b, p)
      PROVE  /\ pass = "credit" /\ r.block \in Working /\ UNCHANGED chain
             /\ r \in mature \/ (r.kind = "orphan" /\ r.block \in orphaned)
  BY <1>1 DEF WriteOrphan, MakeMatured, Working
<1>2. ASSUME pass = "credit", UNCHANGED chain,
             NEW s \in mature, NEW p \in Rewards, WriteMaturedBlock(s, p)
      PROVE  /\ pass = "credit" /\ r.block \in Working /\ UNCHANGED chain
             /\ r \in mature \/ (r.kind = "orphan" /\ r.block \in orphaned)
  BY <1>2 DEF WriteMaturedBlock, MakeMatured, Working, Matures
<1>3. CASE UNCHANGED matured
  BY <1>3
<1>4. \/ UNCHANGED matured
      \/ /\ pass = "credit" /\ UNCHANGED chain
         /\ \E b \in orphaned : \E p \in Rewards : WriteOrphan(b, p)
      \/ /\ pass = "credit" /\ UNCHANGED chain
         /\ \E s \in mature : \E p \in Rewards : WriteMaturedBlock(s, p)
  BY StepKinds DEF rows, Replicate, Find, WritePendingOrphans, MakeImmature,
    WriteImmatureBlock
<1>5. QED
  BY <1>1, <1>2, <1>3, <1>4

\* Every step keeps paid blocks deep in the chain.
LEMMA DepthStep ==
  ASSUME TypeOK, OneStage, PassInv, DepthInv, PaidOnChain, [Next]_vars
  PROVE  DepthInv' /\ PaidOnChain'
<1> USE BlocksAssumption, DepthAssumption
<1>1. tip <= tip' /\ tip \in Nat /\ tip' \in Nat
  BY DeepStays, TypeStep DEF TypeOK
<1>2. ASSUME NEW b \in Blocks, Height[b] + Depth <= tip
      PROVE  Height[b] + Depth <= tip'
  BY <1>1, <1>2
<1>3. ASSUME NEW r \in matured'
      PROVE  /\ Height[r.block] + Depth <= tip'
             /\ r.kind = "block" => r.block \in main'
  <2>1. CASE r \in matured
    <3>1. r.block \in Blocks /\ r.block \in found
      BY <2>1, MaturedKinds DEF OneStage, TypeOK
    <3>2. r.kind = "block" => r.block \in main
      BY <2>1 DEF PaidOnChain, MaturedAs
    <3>3. QED
      BY <1>2, <2>1, <3>1, <3>2, DeepStays DEF DepthInv
  <2>2. CASE r \notin matured
    <3>1. /\ pass = "credit" /\ r.block \in Working /\ UNCHANGED chain
          /\ r \in mature \/ (r.kind = "orphan" /\ r.block \in orphaned)
      BY <2>2, NewlyMatured
    <3>2. QED
      BY <3>1 DEF DepthInv, chain
  <2>3. QED
    BY <2>1, <2>2
<1>4. DepthInv'
  <2>1. current' <= tip'
    BY CurrentStep DEF DepthInv
  <2>2. QED
    BY <1>3, <2>1, WorkStep DEF DepthInv
<1>5. PaidOnChain'
  BY <1>3 DEF PaidOnChain, MaturedAs
<1>6. QED
  BY <1>4, <1>5

-----------------------------------------------------------------------------
(* The theorems *)

\* The invariant holds at first.
LEMMA InitInv == Init => IInv
<1> SUFFICES ASSUME Init PROVE IInv
  OBVIOUS
<1>1. MaturedAs(Kinds) = {} /\ MaturedAs({"block"}) = {}
  BY DEF Init, MaturedAs
<1>2. Known = {View({}, {}, {})} /\ Last = 0 /\ \A i \in 0..Last : At(i) = View({}, {}, {})
  BY DEF Init, Known, Last, At
<1>3. OneStage
  BY <1>1 DEF Init, OneStage
<1>4. RowsInv
  BY DEF Init, RowsInv
<1>5. ViewsInv
  BY <1>2 DEF Init, ViewsInv, View
<1>6. PassInv
  BY DEF Init, PassInv, Working, Matures
<1>7. DepthInv /\ PaidOnChain
  BY <1>1 DEF Init, DepthInv, PaidOnChain
<1>8. QED
  BY <1>3, <1>4, <1>5, <1>6, <1>7 DEF IInv

\* Every step keeps the invariant.
LEMMA StepInv ==
  ASSUME ~ Lagging, TypeOK, IInv, [Next]_vars
  PROVE  IInv'
<1>1. OneStage' /\ RowsInv' /\ ViewsInv'
  BY RowsStep DEF IInv
<1>2. PassInv'
  BY PassStep DEF IInv
<1>3. DepthInv' /\ PaidOnChain'
  BY DepthStep DEF IInv
<1>4. QED
  BY <1>1, <1>2, <1>3 DEF IInv

\* When a pass starts only after the follower has caught up, the inductive
\* invariant holds in every reachable state.
THEOREM Invariance ==
  ASSUME ~ Lagging
  PROVE  Spec => []IInv
<1>1. TypeOK /\ IInv /\ [Next]_vars => IInv'
  BY StepInv
<1>2. QED
  BY InitInv, TypeCorrect, <1>1, PTL DEF Spec

\* A block the pool found is in one of the three lists, never in two, and has
\* its row of credits exactly when it matured as a reward block.
THEOREM NoBlockIsLostOrDoubled ==
  ASSUME ~ Lagging
  PROVE  Spec => []OneStage
<1>1. IInv => OneStage
  BY DEF IInv
<1>2. QED
  BY <1>1, Invariance, PTL

\* Miners are paid only for blocks of the chain that lie Depth below its tip.
THEOREM PaidBlocksStay ==
  ASSUME ~ Lagging
  PROVE  Spec => []PaidOnChain
<1>1. IInv => PaidOnChain
  BY DEF IInv
<1>2. QED
  BY <1>1, Invariance, PTL

\* The node is asked only for a block of the loop, and not while the next one's
\* answer is awaited.
LEMMA UnheardStep ==
  ASSUME [Next]_vars, NEW b, b \notin todo \/ pc = "byHeight"
  PROVE  b \in unheard <=> b \in unheard'
<1>1. CASE GetBlockByHash
  <2>1. PICK c \in First(todo) : unheard' \in {unheard \cup {c}, unheard \ {c}}
    BY <1>1 DEF GetBlockByHash
  <2>2. b # c
    BY <1>1 DEF GetBlockByHash, First
  <2>3. QED
    BY <2>1, <2>2
<1>2. CASE ~ GetBlockByHash
  <2>1. UNCHANGED unheard
    BY <1>2, PanicIsCrash DEF Next, vars, HalfPass, GetLatestBlock, Select,
      GetBlockByHeight, CalculateRewards, WriteOrphans, WriteRewards, Start, Tick,
      Stop, Crash, Exit, Extend, Find, Reorganize, Replicate, chain
  <2>2. QED
    BY <2>1
<1>3. QED
  BY <1>1, <1>2

\* A deep block stays excused as long as the node is not asked for it again.
LEMMA ExcusedStays ==
  ASSUME TypeOK, [Next]_vars, NEW b \in found, Height[b] + Depth <= tip,
         b \notin todo \/ pc = "byHeight", Excused(b)
  PROVE  Excused(b)'
<1>1. b \in main <=> b \in main'
  BY DeepStays
<1>2. b \in unheard <=> b \in unheard'
  BY UnheardStep
<1>3. QED
  BY <1>1, <1>2 DEF Excused

\* Every step judges and settles as lost only excused blocks.
LEMMA LostStep ==
  ASSUME TypeOK, IInv, LostInv, [Next]_vars
  PROVE  LostInv'
<1>1. \A b \in Working : b \in found
  BY DEF IInv, PassInv, OneStage
<1>2. ASSUME NEW r \in matured', r.kind # "block"
      PROVE  Excused(r.block)'
  <2>1. CASE r \in matured
    <3>1. r.block \in found /\ Height[r.block] + Depth <= tip
      BY <2>1, MaturedKinds DEF IInv, OneStage, DepthInv
    <3>2. r.block \notin todo
      BY <2>1, MaturedKinds DEF IInv, OneStage, PassInv, Working
    <3>3. Excused(r.block)
      BY <1>2, <2>1 DEF LostInv
    <3>4. QED
      BY <3>1, <3>2, <3>3, ExcusedStays
  <2>2. CASE r \notin matured
    <3>1. /\ pass = "credit" /\ UNCHANGED chain
          /\ r \in mature \/ (r.kind = "orphan" /\ r.block \in orphaned)
      BY <2>2, NewlyMatured DEF IInv
    <3>2. Excused(r.block)
      BY <1>2, <3>1 DEF LostInv
    <3>3. QED
      BY <3>1, <3>2 DEF Excused, chain
  <2>3. QED
    BY <2>1, <2>2
<1>3. ASSUME pass' = "credit"
      PROVE  /\ pc' = "byHeight" /\ ~hashFound' => Excused(block)'
             /\ \A b \in orphaned' : Excused(b)'
             /\ \A r \in mature' : r.kind # "block" => Excused(r.block)'
  <2>1. CASE todo' = {} /\ orphaned' = {} /\ mature' = {} /\ pc' # "byHeight"
    BY <2>1
  <2>2. ASSUME pass' = pass, todo' \subseteq todo, orphaned' \subseteq orphaned,
               mature' \subseteq mature,
               pc' = "byHeight" =>
                 \/ UNCHANGED <<pc, block, hashFound>>
                 \/ block' \in todo /\ (hashFound' = TRUE \/ Excused(block)')
        PROVE  /\ pc' = "byHeight" /\ ~hashFound' => Excused(block)'
               /\ \A b \in orphaned' : Excused(b)'
               /\ \A r \in mature' : r.kind # "block" => Excused(r.block)'
    <3>1. pass = "credit"
      BY <1>3, <2>2
    <3>2. \A b \in Working :
            Excused(b) /\ (b \notin todo \/ pc = "byHeight") => Excused(b)'
      <4>1. \A b \in Working : Height[b] + Depth <= tip
        BY <3>1 DEF IInv, DepthInv
      <4>2. QED
        BY <1>1, <4>1, ExcusedStays
    <3>3. \A b \in orphaned : b \in Working /\ b \notin todo /\ Excused(b)
      BY <3>1 DEF LostInv, IInv, PassInv, Working
    <3>4. \A r \in mature : /\ r.block \in Working /\ r.block \notin todo
                            /\ r.kind # "block" => Excused(r.block)
      BY <3>1 DEF LostInv, IInv, PassInv, Working, Matures
    <3>5. ASSUME pc' = "byHeight", ~hashFound'
          PROVE  Excused(block)'
      <4>1. CASE UNCHANGED <<pc, block, hashFound>>
        <5>1. block \in Working /\ pc = "byHeight"
          BY <3>5, <4>1 DEF TypeOK, Working
        <5>2. Excused(block)
          BY <3>1, <3>5, <4>1 DEF LostInv
        <5>3. Excused(block)' <=> block \notin main' \/ block \in unheard'
          BY <4>1 DEF Excused
        <5>4. \A b \in Working : Excused(b) => b \notin main' \/ b \in unheard'
          BY <3>2, <5>1 DEF Excused
        <5>5. QED
          BY <5>1, <5>2, <5>3, <5>4
      <4>2. CASE block' \in todo /\ (hashFound' = TRUE \/ Excused(block)')
        BY <3>5, <4>2
      <4>3. QED
        BY <2>2, <3>5, <4>1, <4>2
    <3>6. QED
      BY <2>2, <3>2, <3>3, <3>4, <3>5
  <2>3. CASE /\ pass' = pass /\ UNCHANGED <<orphaned, mature, chain>>
             /\ pc = "select" /\ pc' = "byHash" /\ todo' = Selected
    BY <1>3, <2>3 DEF LostInv, Excused, chain
  <2>4. CASE pc = "byHeight" /\ Judge(Judgement) /\ UNCHANGED chain
    <3>1. /\ pass = "credit" /\ pc' # "byHeight" /\ main' = main /\ unheard' = unheard
          /\ orphaned' = orphaned \cup IF Judgement = "orphan" THEN {block} ELSE {}
          /\ mature' = mature \cup IF Judgement = "orphan" THEN {}
                                   ELSE {[block |-> block, kind |-> Judgement]}
      BY <1>3, <2>4 DEF Judge, chain
    <3>2. Judgement # "block" => Excused(block)
      BY <2>4, <3>1 DEF Judgement, LostInv, Excused
    <3>3. \A b : Excused(b)' <=> Excused(b)
      BY <3>1 DEF Excused
    <3> HIDE DEF Judgement
    <3>4. QED
      BY <3>1, <3>2, <3>3 DEF LostInv, Excused
  <2>5. QED
    BY <2>1, <2>2, <2>3, <2>4, LocalSteps
<1>4. QED
  BY <1>2, <1>3 DEF LostInv, Excused

\* The only blocks of the chain that are written off are those whose
\* GetBlockByHash failed in the pass that settled them, in whatever order the
\* answers, reorganizations, failures and crashes come.
THEOREM NoChainBlockIsWrittenOff ==
  ASSUME ~ Lagging
  PROVE  Spec => []LostIsOffChain
<1>1. Init => LostInv
  BY DEF Init, LostInv
<1>2. TypeOK /\ IInv /\ LostInv /\ [Next]_vars => LostInv'
  BY LostStep
<1>3. LostInv => LostIsOffChain
  BY DEF LostInv, LostIsOffChain, MaturedAs, Excused
<1>4. QED
  BY <1>1, <1>2, <1>3, TypeCorrect, Invariance, PTL DEF Spec

-----------------------------------------------------------------------------
(* The sums *)

\* Adding a reward to every account adds its total to their sum.
LEMMA TotalIncr ==
  ASSUME NEW hash \in [Accounts -> Int], NEW r \in Rewards
  PROVE  /\ Total(Incr(hash, r)) = Total(hash) + Total(r)
         /\ Total(Decr(hash, r)) = Total(hash) - Total(r)
         /\ Total(hash) \in Int /\ Total(r) \in Int
         /\ Incr(hash, r)[Pool] = hash[Pool] + Total(r)
         /\ Decr(hash, r)[Pool] = hash[Pool] - Total(r)
         /\ \A l \in Logins : /\ Incr(hash, r)[l] = hash[l] + r[l]
                              /\ Decr(hash, r)[l] = hash[l] - r[l]
                              /\ hash[l] \in Int /\ r[l] \in Int
<1> DEFINE more == Incr(hash, r)
           less == Decr(hash, r)
<1>1. \A l \in Logins : /\ hash[l] \in Int /\ r[l] \in Int
                        /\ more[l] = hash[l] + r[l] /\ less[l] = hash[l] - r[l]
  BY LoginsAssumption DEF Accounts, Incr, Decr, Rewards
<1>2. more[Pool] = hash[Pool] + Total(r) /\ less[Pool] = hash[Pool] - Total(r)
  BY DEF Accounts, Incr, Decr
<1> HIDE DEF more, less
<1>3. Total(hash) \in Int /\ Total(r) \in Int /\ Total(less) \in Int
  <2>1. \A l \in Logins : less[l] \in Int
    BY <1>1
  <2>2. QED
    BY <1>1, <2>1, SumType, LoginsAssumption DEF Total
<1>4. Total(more) = Total(hash) + Total(r)
  BY <1>1, SumPlus, LoginsAssumption DEF Total
<1>5. Total(hash) = Total(less) + Total(r)
  <2>1. \A l \in Logins : /\ less[l] \in Int /\ r[l] \in Int
                          /\ hash[l] = less[l] + r[l]
    BY <1>1
  <2>2. QED
    BY <2>1, SumPlus, LoginsAssumption DEF Total
<1>6. QED
  BY <1>1, <1>2, <1>3, <1>4, <1>5 DEF more, less

\* One row of rewards that changes changes every login's sum by the difference.
LEMMA SumOfStep ==
  ASSUME NEW hash \in [Blocks -> Rewards], NEW new \in [Blocks -> Rewards],
         NEW b \in Blocks, \A c \in Blocks \ {b} : new[c] = hash[c], NEW l \in Logins
  PROVE  /\ SumOf(hash, l) \in Int
         /\ SumOf(new, l) = SumOf(hash, l) + new[b][l] - hash[b][l]
<1> DEFINE f == [c \in Blocks |-> hash[c][l]]
           g == [c \in Blocks |-> new[c][l]]
<1>1. \A c \in Blocks : f[c] \in Int /\ g[c] \in Int
  BY DEF Rewards
<1>2. \A c \in Blocks \ {b} : g[c] = f[c]
  OBVIOUS
<1>3. f[b] = hash[b][l] /\ g[b] = new[b][l]
  OBVIOUS
<1>4. SumOf(hash, l) = SumFunctionOnSet(f, Blocks) /\ SumOf(new, l) = SumFunctionOnSet(g, Blocks)
  BY DEF SumOf
<1> HIDE DEF f, g
<1>5. SumFunctionOnSet(f, Blocks) \in Int
  BY <1>1, SumType, BlocksAssumption
<1>6. SumFunctionOnSet(g, Blocks) = SumFunctionOnSet(f, Blocks) + g[b] - f[b]
  BY <1>1, <1>2, SumChange, BlocksAssumption
<1>7. QED
  BY <1>3, <1>4, <1>5, <1>6

\* The changed sum of a table of rewards in which one row is another.
LEMMA SumOfExcept ==
  ASSUME NEW hash \in [Blocks -> Rewards], NEW b \in Blocks, NEW new \in Rewards,
         NEW l \in Logins
  PROVE  /\ SumOf([hash EXCEPT ![b] = new], l) = SumOf(hash, l) + new[l] - hash[b][l]
         /\ SumOf(hash, l) \in Int /\ new[l] \in Int /\ hash[b][l] \in Int
<1> DEFINE changed == [hash EXCEPT ![b] = new]
<1>1. /\ changed \in [Blocks -> Rewards] /\ changed[b] = new
      /\ \A c \in Blocks \ {b} : changed[c] = hash[c]
  OBVIOUS
<1>2. new[l] \in Int /\ hash[b][l] \in Int
  BY DEF Rewards
<1> HIDE DEF changed
<1>3. /\ SumOf(hash, l) \in Int
      /\ SumOf(changed, l) = SumOf(hash, l) + new[l] - hash[b][l]
  BY <1>1, SumOfStep
<1>4. QED
  BY <1>2, <1>3 DEF changed

\* The promise of an immature block ends: p of it is taken back, what is not is
\* forgotten, and the block is matured.
PromiseEnds(b, p) ==
  /\ b \in immature /\ p \in Readings(b)
  /\ DropPromise(b, p)
  /\ immatureBalance' = Decr(immatureBalance, p)
  /\ \E r \in matured' : r.block = b

\* What a step does to the money: nothing, a promise, or the end of one, which
\* may be paid.
LEMMA MoneySteps ==
  ASSUME TypeOK, IInv, [Next]_vars
  PROVE  \/ UNCHANGED money
         \/ \E b \in Blocks :
              /\ UNCHANGED <<credits, balance, forgotten>> /\ immatureCredits[b] = NoReward
              /\ reward \in Rewards
              /\ immatureCredits' = [immatureCredits EXCEPT ![b] = reward]
              /\ immatureBalance' = Incr(immatureBalance, reward)
         \/ \E b \in Blocks : \E p \in Rewards :
              /\ PromiseEnds(b, p)
              /\ \/ UNCHANGED <<credits, balance>>
                 \/ /\ reward \in Rewards /\ credits[b] = NoReward
                    /\ credits' = [credits EXCEPT ![b] = reward]
                    /\ balance' = Incr(balance, reward)
<1>1. CASE UNCHANGED money
  BY <1>1
<1>2. ASSUME pass = "credit", NEW b \in orphaned, NEW p \in Rewards, p \in Readings(b),
             WriteOrphan(b, p)
      PROVE  \E c \in Blocks : \E q \in Rewards :
               PromiseEnds(c, q) /\ UNCHANGED <<credits, balance>>
  <2>1. b \in Blocks /\ b \in immature
    BY <1>2 DEF TypeOK, IInv, PassInv, Working
  <2>2. \E r \in matured' : r.block = b
    <3>1. [block |-> b, kind |-> "orphan"] \in matured'
      BY <1>2 DEF WriteOrphan, MakeMatured
    <3>2. QED
      BY <3>1
  <2>3. PromiseEnds(b, p) /\ UNCHANGED <<credits, balance>>
    BY <1>2, <2>1, <2>2 DEF WriteOrphan, PromiseEnds
  <2>4. QED
    BY <2>1, <2>3
<1>3. ASSUME pc = "write", pass = "pending", UNCHANGED chain,
             NEW r \in mature, r.block = block, WriteImmatureBlock(r.block)
      PROVE  \E b \in Blocks :
               /\ UNCHANGED <<credits, balance, forgotten>> /\ immatureCredits[b] = NoReward
               /\ reward \in Rewards
               /\ immatureCredits' = [immatureCredits EXCEPT ![b] = reward]
               /\ immatureBalance' = Incr(immatureBalance, reward)
  <2>1. r.block \in candidates /\ r.block \in Blocks
    BY <1>3 DEF IInv, PassInv, Working, Matures, TypeOK, Rows
  <2>2. reward \in {NoReward, Share[r.block]} /\ reward \in Rewards
    BY <1>3 DEF IInv, PassInv, TypeOK
  <2>3. immatureCredits[r.block] = NoReward
    BY <1>3, <2>1, <2>2, ImmatureRows DEF IInv
  <2>4. QED
    BY <1>3, <2>1, <2>2, <2>3 DEF WriteImmatureBlock, SetNX, TypeOK
<1>4. ASSUME pc = "write", pass = "credit", UNCHANGED chain,
             NEW r \in mature, NEW p \in Rewards, r.block = block, p \in Readings(r.block),
             WriteMaturedBlock(r, p)
      PROVE  \E b \in Blocks : \E q \in Rewards :
               /\ PromiseEnds(b, q)
               /\ reward \in Rewards /\ credits[b] = NoReward
               /\ credits' = [credits EXCEPT ![b] = reward]
               /\ balance' = Incr(balance, reward)
  <2>1. r.block \in immature /\ r \in Rows /\ r.block \in Blocks
    BY <1>4 DEF IInv, PassInv, Working, Matures, TypeOK, Rows
  <2>2. reward = (IF r.kind = "block" THEN Share[r.block] ELSE NoReward) /\ reward \in Rewards
    BY <1>4 DEF IInv, PassInv, TypeOK
  <2>3. credits[r.block] = NoReward
    BY <1>4, <2>1, <2>2, MaturedRows DEF IInv
  <2>4. credits' = [credits EXCEPT ![r.block] = reward]
    BY <1>4, <2>1, <2>3 DEF WriteMaturedBlock, SetNX, TypeOK
  <2>5. PromiseEnds(r.block, p)
    <3>1. r \in matured'
      BY <1>4 DEF WriteMaturedBlock, MakeMatured
    <3>2. QED
      BY <1>4, <2>1, <3>1 DEF WriteMaturedBlock, PromiseEnds
  <2>6. QED
    BY <1>4, <2>1, <2>2, <2>3, <2>4, <2>5 DEF WriteMaturedBlock
<1>5. UNCHANGED <<rows, money, replica>> \/ Replicate \/ (\E b \in Blocks : Find(b))
      \/ WritePendingOrphans => UNCHANGED money
  BY DEF Replicate, Find, WritePendingOrphans
<1>6. QED
  BY <1>1, <1>2, <1>3, <1>4, <1>5, StepKinds

\* Every step keeps each balance the sum of the credits.
LEMMA CreditedStep ==
  ASSUME TypeOK, IInv, CreditedOnce, [Next]_vars
  PROVE  CreditedOnce'
<1>1. CASE UNCHANGED money
  BY <1>1 DEF CreditedOnce, money, SumOf, Total
<1>2. ASSUME NEW hash \in [Accounts -> Int], NEW r \in Rewards, hash[Pool] = Total(hash)
      PROVE  /\ Incr(hash, r)[Pool] = Total(Incr(hash, r))
             /\ Decr(hash, r)[Pool] = Total(Decr(hash, r))
  BY <1>2, TotalIncr
<1>3. /\ immatureBalance \in [Accounts -> Int] /\ balance \in [Accounts -> Int]
      /\ immatureBalance[Pool] = Total(immatureBalance) /\ balance[Pool] = Total(balance)
      /\ \A l \in Logins : balance[l] = SumOf(credits, l)
  BY DEF TypeOK, CreditedOnce
<1>4. (balance' = balance /\ credits' = credits) =>
        (\A l \in Logins : balance'[l] = SumOf(credits, l)') /\ balance'[Pool] = Total(balance')
  BY <1>3 DEF SumOf
<1>5. ASSUME NEW b \in Blocks, reward \in Rewards, credits[b] = NoReward,
             credits' = [credits EXCEPT ![b] = reward], balance' = Incr(balance, reward)
      PROVE  (\A l \in Logins : balance'[l] = SumOf(credits, l)') /\ balance'[Pool] = Total(balance')
  <2>1. ASSUME NEW l \in Logins
        PROVE  balance'[l] = SumOf(credits', l)
    <3>1. /\ credits \in [Blocks -> Rewards] /\ credits' \in [Blocks -> Rewards]
          /\ \A c \in Blocks \ {b} : credits'[c] = credits[c]
          /\ credits'[b] = reward
      BY <1>5, TypeStep DEF TypeOK
    <3>2. /\ SumOf(credits, l) \in Int
          /\ SumOf(credits', l) = SumOf(credits, l) + reward[l] - 0
      <4>1. credits[b][l] = 0
        BY <1>5 DEF NoReward
      <4>2. QED
        BY <3>1, <4>1, SumOfStep
    <3>3. balance'[l] = balance[l] + reward[l] /\ reward[l] \in Int
      BY <1>3, <1>5, TotalIncr
    <3>4. QED
      BY <1>3, <3>2, <3>3
  <2>2. QED
    BY <1>2, <1>3, <1>5, <2>1 DEF SumOf
<1>6. (immatureBalance' = immatureBalance \/ \E r \in Rewards :
         immatureBalance' = Incr(immatureBalance, r) \/ immatureBalance' = Decr(immatureBalance, r))
      => immatureBalance'[Pool] = Total(immatureBalance')
  BY <1>2, <1>3
<1>7. (\A hash \in {immatureBalance, balance} : hash[Pool] = Total(hash))' <=>
        immatureBalance'[Pool] = Total(immatureBalance') /\ balance'[Pool] = Total(balance')
  BY DEF Total
<1>8. CASE ~ UNCHANGED money
  <2>1. immatureBalance'[Pool] = Total(immatureBalance')
    BY <1>6, <1>8, MoneySteps DEF PromiseEnds
  <2>2. (\A l \in Logins : balance'[l] = SumOf(credits, l)') /\ balance'[Pool] = Total(balance')
    BY <1>4, <1>5, <1>8, MoneySteps
  <2>3. QED
    BY <1>7, <2>1, <2>2 DEF CreditedOnce
<1>9. QED
  BY <1>1, <1>8

\* At first all sums are zero.
LEMMA InitSums ==
  ASSUME Init
  PROVE  /\ CreditedOnce
         /\ \A l \in Logins : /\ immatureBalance[l] = SumOf(immatureCredits, l)
                              /\ SumOf(forgotten, l) = 0 /\ SumOf(immatureCredits, l) = 0
<1>1. ASSUME NEW hash, hash = [a \in Accounts |-> 0]
      PROVE  hash[Pool] = 0 /\ Total(hash) = 0 /\ \A l \in Logins : hash[l] = 0
  <2>1. hash[Pool] = 0 /\ \A l \in Logins : hash[l] = 0
    BY <1>1 DEF Accounts
  <2>2. Total(hash) = 0
    BY <2>1, SumZero, LoginsAssumption DEF Total
  <2>3. QED
    BY <2>1, <2>2
<1>2. ASSUME NEW hash, hash = [b \in Blocks |-> NoReward], NEW l \in Logins
      PROVE  SumOf(hash, l) = 0
  <2> DEFINE f == [b \in Blocks |-> hash[b][l]]
  <2>1. \A b \in Blocks : f[b] = 0
    BY <1>2 DEF NoReward
  <2> HIDE DEF f
  <2>2. SumFunctionOnSet(f, Blocks) = 0
    BY <2>1, SumZero, BlocksAssumption
  <2>3. QED
    BY <2>2 DEF SumOf, f
<1>3. /\ immatureBalance = [a \in Accounts |-> 0] /\ balance = [a \in Accounts |-> 0]
      /\ immatureCredits = [b \in Blocks |-> NoReward] /\ credits = [b \in Blocks |-> NoReward]
      /\ forgotten = [b \in Blocks |-> NoReward]
  BY DEF Init
<1>4. QED
  BY <1>1, <1>2, <1>3 DEF CreditedOnce

\* A miner's balance is the sum of its rows of credits, whatever failed, was
\* halted or restarted, and the hash finances is the sum of the miners' hashes.
THEOREM EveryRewardIsCreditedOnce ==
  ASSUME ~ Lagging
  PROVE  Spec => []CreditedOnce
<1>1. Init => CreditedOnce
  BY InitSums
<1>2. TypeOK /\ IInv /\ CreditedOnce /\ [Next]_vars => CreditedOnce'
  BY CreditedStep
<1>3. QED
  BY <1>1, <1>2, TypeCorrect, Invariance, PTL DEF Spec

\* What is matured stays matured.
LEMMA MaturedGrows ==
  ASSUME TypeOK, [Next]_vars
  PROVE  matured \subseteq matured'
BY StepKinds DEF rows, Replicate, Find, WritePendingOrphans, MakeImmature,
  WriteImmatureBlock, WriteOrphan, WriteMaturedBlock, MakeMatured

\* Immature balances are the sums of the promises there are and of those that
\* were forgotten, which matured blocks had.
PromiseInv ==
  /\ \A b \in Blocks : forgotten[b] # NoReward => \E r \in matured : r.block = b
  /\ \A l \in Logins :
       immatureBalance[l] = SumOf(immatureCredits, l) + SumOf(forgotten, l)

\* Every step keeps the promises accounted for.
LEMMA PromisesStep ==
  ASSUME TypeOK, IInv, PromiseInv, [Next]_vars
  PROVE  PromiseInv'
<1>1. /\ immatureCredits \in [Blocks -> Rewards] /\ forgotten \in [Blocks -> Rewards]
      /\ immatureBalance \in [Accounts -> Int] /\ NoReward \in Rewards
      /\ \A l \in Logins : NoReward[l] = 0
  BY RewardType DEF TypeOK, NoReward
<1>2. UNCHANGED forgotten =>
        \A b \in Blocks : forgotten'[b] # NoReward => \E r \in matured' : r.block = b
  BY MaturedGrows DEF PromiseInv
<1>3. CASE UNCHANGED money
  BY <1>2, <1>3 DEF money, PromiseInv, SumOf
<1>4. ASSUME NEW b \in Blocks, immatureCredits[b] = NoReward, reward \in Rewards,
             immatureCredits' = [immatureCredits EXCEPT ![b] = reward],
             immatureBalance' = Incr(immatureBalance, reward), UNCHANGED forgotten
      PROVE  PromiseInv'
  <2>1. ASSUME NEW l \in Logins
        PROVE  immatureBalance'[l] = SumOf(immatureCredits', l) + SumOf(forgotten', l)
    <3>1. immatureBalance'[l] = immatureBalance[l] + reward[l]
      BY <1>1, <1>4, TotalIncr
    <3>2. /\ SumOf(immatureCredits', l) =
               SumOf(immatureCredits, l) + reward[l] - immatureCredits[b][l]
          /\ SumOf(immatureCredits, l) \in Int /\ reward[l] \in Int
      BY <1>1, <1>4, SumOfExcept
    <3>3. SumOf(forgotten', l) = SumOf(forgotten, l) /\ SumOf(forgotten, l) \in Int
      BY <1>1, <1>4, SumOfExcept
    <3>4. immatureCredits[b][l] = 0
      BY <1>1, <1>4
    <3>5. immatureBalance[l] = SumOf(immatureCredits, l) + SumOf(forgotten, l)
      BY DEF PromiseInv
    <3>6. QED
      BY <3>1, <3>2, <3>3, <3>4, <3>5
  <2>2. QED
    BY <1>2, <1>4, <2>1 DEF PromiseInv, SumOf
<1>5. ASSUME NEW b \in Blocks, NEW p \in Rewards, PromiseEnds(b, p)
      PROVE  PromiseInv'
  <2>1. /\ immatureCredits' = [immatureCredits EXCEPT ![b] = NoReward]
        /\ immatureBalance' = Decr(immatureBalance, p)
        /\ \E r \in matured' : r.block = b
    BY <1>5 DEF PromiseEnds, DropPromise, Del
  <2>2. forgotten[b] = NoReward
    BY <1>5, MaturedKinds DEF PromiseEnds, PromiseInv, IInv, OneStage
  <2>3. \/ p = immatureCredits[b] /\ forgotten' = forgotten
        \/ /\ p = NoReward
           /\ forgotten' = [forgotten EXCEPT ![b] = immatureCredits[b]]
    BY <1>5 DEF PromiseEnds, DropPromise, Readings
  <2>4. ASSUME NEW c \in Blocks, forgotten'[c] # NoReward
        PROVE  \E r \in matured' : r.block = c
    <3>1. c = b \/ forgotten[c] # NoReward
      BY <1>1, <2>3, <2>4
    <3>2. QED
      BY <2>1, <3>1, MaturedGrows DEF PromiseInv
  <2>5. ASSUME NEW l \in Logins
        PROVE  immatureBalance'[l] = SumOf(immatureCredits', l) + SumOf(forgotten', l)
    <3>1. immatureBalance'[l] = immatureBalance[l] - p[l] /\ p[l] \in Int
      BY <1>1, <2>1, TotalIncr
    <3>2. /\ SumOf(immatureCredits', l) =
               SumOf(immatureCredits, l) + NoReward[l] - immatureCredits[b][l]
          /\ SumOf(immatureCredits, l) \in Int /\ immatureCredits[b][l] \in Int
      BY <1>1, <2>1, SumOfExcept
    <3>3. SumOf(forgotten, l) \in Int /\ NoReward[l] = 0
      BY <1>1, SumOfExcept
    <3>4. immatureBalance[l] = SumOf(immatureCredits, l) + SumOf(forgotten, l)
      BY DEF PromiseInv
    <3>5. CASE p = immatureCredits[b] /\ forgotten' = forgotten
      BY <3>1, <3>2, <3>3, <3>4, <3>5
    <3>6. CASE /\ p = NoReward
               /\ forgotten' = [forgotten EXCEPT ![b] = immatureCredits[b]]
      <4>1. SumOf(forgotten', l) =
              SumOf(forgotten, l) + immatureCredits[b][l] - forgotten[b][l]
        <5>1. immatureCredits[b] \in Rewards
          BY <1>1
        <5>2. QED
          BY <1>1, <3>6, <5>1, SumOfExcept
      <4>2. forgotten[b][l] = 0 /\ p[l] = 0
        BY <1>1, <2>2, <3>6
      <4>3. QED
        BY <3>1, <3>2, <3>3, <3>4, <4>1, <4>2
    <3>7. QED
      BY <2>3, <3>5, <3>6
  <2>6. QED
    BY <2>4, <2>5 DEF PromiseInv, SumOf
<1>6. QED
  BY <1>3, <1>4, <1>5, MoneySteps

\* What the miners see as immature is the sum of the promises of the immature
\* blocks and, each once, of those that were deleted while their read failed.
THEOREM PromisesAreKept ==
  ASSUME ~ Lagging
  PROVE  Spec => []ImmatureMatches
<1>1. Init => PromiseInv
  <2> SUFFICES ASSUME Init PROVE PromiseInv
    OBVIOUS
  <2>1. \A b \in Blocks : forgotten[b] = NoReward
    BY DEF Init
  <2>2. \A l \in Logins : immatureBalance[l] = SumOf(immatureCredits, l) + SumOf(forgotten, l)
    <3>1. \A l \in Logins : /\ immatureBalance[l] = SumOf(immatureCredits, l)
                            /\ SumOf(forgotten, l) = 0 /\ SumOf(immatureCredits, l) = 0
      BY InitSums
    <3>2. QED
      BY <3>1
  <2>3. QED
    BY <2>1, <2>2 DEF PromiseInv
<1>2. TypeOK /\ IInv /\ PromiseInv /\ [Next]_vars => PromiseInv'
  BY PromisesStep
<1>3. TypeOK /\ IInv /\ PromiseInv => ImmatureMatches
  <2> SUFFICES ASSUME TypeOK, IInv, PromiseInv PROVE ImmatureMatches
    OBVIOUS
  <2>1. \A b \in Blocks : immatureCredits[b] # NoReward => b \in immature
    BY DEF IInv, RowsInv
  <2>2. \A b \in Blocks : forgotten[b] # NoReward => b \in MaturedAs(Kinds)
    BY MaturedKinds DEF PromiseInv
  <2>3. QED
    BY <2>1, <2>2 DEF ImmatureMatches, PromiseInv
<1>4. QED
  BY <1>1, <1>2, <1>3, TypeCorrect, Invariance, PTL DEF Spec

-----------------------------------------------------------------------------
(* The contract *)

\* The stage of each block, in the terms of the lists.
StagesAreLists ==
  \A b \in Blocks :
    /\ Stage[b] = "paid" <=> b \in MaturedAs({"block"})
    /\ Stage[b] = "lost" <=> b \in MaturedAs({"uncle", "orphan"})
    /\ Stage[b] = "immature" <=> b \in immature
    /\ Stage[b] = "found" <=> b \in candidates
    /\ Stage[b] = "none" <=> b \notin found
    /\ Stage[b] \in {"paid", "lost", "immature", "found", "none"}

\* The stages of the contract are the lists of the store.
LEMMA Stages == TypeOK /\ OneStage => StagesAreLists
<1> SUFFICES ASSUME TypeOK, OneStage PROVE StagesAreLists
  OBVIOUS
<1>1. /\ MaturedAs(Kinds) = MaturedAs({"block"}) \cup MaturedAs({"uncle", "orphan"})
      /\ MaturedAs({"block"}) \cap MaturedAs({"uncle", "orphan"}) = {}
  <2>1. ASSUME NEW b \in MaturedAs({"block"}), b \in MaturedAs({"uncle", "orphan"})
        PROVE  FALSE
    BY <2>1 DEF OneStage, MaturedAs
  <2>2. QED
    BY <2>1, MaturedKinds
<1>2. SUFFICES ASSUME NEW b \in Blocks
      PROVE  /\ Stage[b] = "paid" <=> b \in MaturedAs({"block"})
             /\ Stage[b] = "lost" <=> b \in MaturedAs({"uncle", "orphan"})
             /\ Stage[b] = "immature" <=> b \in immature
             /\ Stage[b] = "found" <=> b \in candidates
             /\ Stage[b] = "none" <=> b \notin found
             /\ Stage[b] \in {"paid", "lost", "immature", "found", "none"}
  BY DEF StagesAreLists
<1>3. /\ found = candidates \cup immature \cup MaturedAs(Kinds)
      /\ candidates \cap immature = {}
      /\ MaturedAs(Kinds) \cap (candidates \cup immature) = {}
  BY DEF OneStage
<1>4. Stage[b] = CASE b \in MaturedAs({"block"}) -> "paid"
                   [] b \in MaturedAs({"uncle", "orphan"}) -> "lost"
                   [] b \in immature -> "immature"
                   [] b \in candidates -> "found"
                   [] OTHER -> "none"
  BY DEF Stage
<1>5. CASE b \in MaturedAs({"block"})
  <2>1. Stage[b] = "paid"
    BY <1>1, <1>3, <1>4, <1>5
  <2>2. QED
    BY <1>1, <1>3, <1>5, <2>1
<1>6. CASE b \in MaturedAs({"uncle", "orphan"})
  <2>1. Stage[b] = "lost"
    BY <1>1, <1>3, <1>4, <1>6
  <2>2. QED
    BY <1>1, <1>3, <1>6, <2>1
<1>7. CASE b \in immature
  <2>1. Stage[b] = "immature"
    BY <1>1, <1>3, <1>4, <1>7
  <2>2. QED
    BY <1>1, <1>3, <1>7, <2>1
<1>8. CASE b \in candidates
  <2>1. Stage[b] = "found"
    BY <1>1, <1>3, <1>4, <1>8
  <2>2. QED
    BY <1>1, <1>3, <1>8, <2>1
<1>9. CASE b \notin found
  <2>1. Stage[b] = "none"
    BY <1>1, <1>3, <1>4, <1>9
  <2>2. QED
    BY <1>1, <1>3, <1>9, <2>1
<1>10. QED
  BY <1>1, <1>3, <1>5, <1>6, <1>7, <1>8, <1>9

\* The same of the state after a step.
LEMMA StagesNext == (TypeOK /\ OneStage => StagesAreLists)'
BY Stages, PTL

\* A step that moves the blocks of S from one list to another changes their stage
\* and no other's.
LEMMA StageMoves ==
  ASSUME TypeOK, TypeOK', OneStage, OneStage', NEW S \in SUBSET Blocks, NEW stage,
         \A b \in S : Stage'[b] = stage,
         \A b \in Blocks \ S :
           /\ b \in MaturedAs({"block"}) <=> b \in MaturedAs({"block"})'
           /\ b \in MaturedAs({"uncle", "orphan"}) <=> b \in MaturedAs({"uncle", "orphan"})'
           /\ b \in immature <=> b \in immature'
           /\ b \in candidates <=> b \in candidates'
  PROVE  /\ Stage' = [b \in Blocks |-> IF b \in S THEN stage ELSE Stage[b]]
         /\ \A b \in S : S = {b} => Stage' = [Stage EXCEPT ![b] = stage]
<1>1. Stage = [b \in Blocks |-> Stage[b]] /\ Stage' = [b \in Blocks |-> Stage'[b]]
  BY DEF Stage
<1>2. StagesAreLists /\ StagesAreLists'
  BY Stages, StagesNext
<1>3. ASSUME NEW b \in Blocks \ S
      PROVE  Stage'[b] = Stage[b]
  <2>1. /\ Stage'[b] = "paid" <=> Stage[b] = "paid"
        /\ Stage'[b] = "lost" <=> Stage[b] = "lost"
        /\ Stage'[b] = "immature" <=> Stage[b] = "immature"
        /\ Stage'[b] = "found" <=> Stage[b] = "found"
    BY <1>2, <1>3 DEF StagesAreLists
  <2>2. /\ Stage[b] \in {"paid", "lost", "immature", "found", "none"}
        /\ Stage'[b] \in {"paid", "lost", "immature", "found", "none"}
    BY <1>2, <1>3 DEF StagesAreLists
  <2>3. QED
    BY <2>1, <2>2
<1>4. \A b \in Blocks : Stage'[b] = IF b \in S THEN stage ELSE Stage[b]
  BY <1>3
<1>5. QED
  BY <1>1, <1>4

\* The same of a single block.
LEMMA StageOfOneMoves ==
  ASSUME TypeOK, TypeOK', OneStage, OneStage', NEW b \in Blocks, NEW stage,
         Stage'[b] = stage,
         \A c \in Blocks \ {b} :
           /\ c \in MaturedAs({"block"}) <=> c \in MaturedAs({"block"})'
           /\ c \in MaturedAs({"uncle", "orphan"}) <=> c \in MaturedAs({"uncle", "orphan"})'
           /\ c \in immature <=> c \in immature'
           /\ c \in candidates <=> c \in candidates'
  PROVE  /\ Stage' = [Stage EXCEPT ![b] = stage]
         /\ Stage' = [c \in Blocks |-> IF c \in {b} THEN stage ELSE Stage[c]]
<1> DEFINE S == {b}
<1>1. S \in SUBSET Blocks /\ b \in S /\ S = {b}
  OBVIOUS
<1>2. \A c \in S : Stage'[c] = stage
  OBVIOUS
<1>3. \A c \in Blocks \ S :
        /\ c \in MaturedAs({"block"}) <=> c \in MaturedAs({"block"})'
        /\ c \in MaturedAs({"uncle", "orphan"}) <=> c \in MaturedAs({"uncle", "orphan"})'
        /\ c \in immature <=> c \in immature'
        /\ c \in candidates <=> c \in candidates'
  OBVIOUS
<1> HIDE DEF S
<1>4. /\ Stage' = [c \in Blocks |-> IF c \in S THEN stage ELSE Stage[c]]
      /\ \A c \in S : S = {c} => Stage' = [Stage EXCEPT ![c] = stage]
  BY <1>1, <1>2, <1>3, StageMoves
<1>5. QED
  BY <1>1, <1>4 DEF S

\* Blocks stay in their stage while the lists do not change.
LEMMA StageStays ==
  ASSUME UNCHANGED <<candidates, immature, matured>>
  PROVE  Stage' = Stage
BY DEF Stage, MaturedAs

\* Blocks that lie Depth deep in the chain are kept.
LEMMA KeptGrows ==
  ASSUME TypeOK, [Next]_vars
  PROVE  Contract!ChainGrows
<1>1. TypeOK' /\ tip \in Nat /\ tip' \in Nat /\ tip <= tip'
  BY TypeStep, DeepStays DEF TypeOK
<1>2. Kept' \in SUBSET Blocks
  BY <1>1 DEF Kept, TypeOK
<1>3. ASSUME NEW b \in Kept
      PROVE  b \in Kept'
  <2>1. b \in found /\ b \in Blocks /\ Height[b] + Depth <= tip /\ b \in main
    BY DEF Kept, TypeOK
  <2>2. Height[b] + Depth <= tip'
    BY <1>1, <2>1, BlocksAssumption, DepthAssumption
  <2>3. b \in found' /\ b \in main'
    BY <2>1, DeepStays
  <2>4. QED
    BY <2>2, <2>3 DEF Kept
<1>4. QED
  BY <1>2, <1>3 DEF Contract!ChainGrows

\* Every step is one of the contract, or changes nothing it speaks of.
LEMMA ContractStep ==
  ASSUME ~ Lagging, TypeOK, IInv, [Next]_vars
  PROVE  [Contract!Next]_(Contract!vars)
<1>1. /\ OneStage /\ RowsInv /\ PassInv /\ TypeOK'
      /\ OneStage' /\ RowsInv' /\ ViewsInv' /\ IInv'
  BY TypeStep, StepInv DEF IInv
<1>2. StagesAreLists /\ StagesAreLists'
  BY <1>1, Stages, StagesNext
<1>3. UNCHANGED balance => UNCHANGED Earned
  BY DEF Earned
<1>4. UNCHANGED <<candidates, immature, matured, immatureCredits, balance>> =>
        UNCHANGED Contract!books
  BY <1>3, StageStays DEF Contract!books
<1>5. ASSUME NEW b \in Blocks, Find(b)
      PROVE  Contract!Find(b)
  <2>1. /\ candidates' = candidates \cup {b} /\ b \notin found /\ immature' = immature
        /\ UNCHANGED <<matured, immatureCredits, balance>>
    BY <1>5 DEF Find, money
  <2>2. \A K : MaturedAs(K)' = MaturedAs(K)
    BY <2>1, MaturedSame
  <2>3. Stage[b] = "none" /\ Stage'[b] = "found"
    BY <1>2, <2>1 DEF StagesAreLists
  <2>4. Stage' = [Stage EXCEPT ![b] = "found"]
    BY <1>1, <2>1, <2>2, <2>3, StageOfOneMoves
  <2>5. QED
    BY <1>3, <2>1, <2>3, <2>4 DEF Contract!Find
<1>6. ASSUME pass = "pending", pc = "orphans", WritePendingOrphans, UNCHANGED chain
      PROVE  \E S \in SUBSET Blocks : Contract!Doubt(S)
  <2>1. /\ candidates' = candidates \ orphaned /\ immature' = immature \cup orphaned
        /\ UNCHANGED <<matured, immatureCredits, balance>>
        /\ orphaned \subseteq candidates /\ orphaned \in SUBSET Blocks
    BY <1>1, <1>6 DEF WritePendingOrphans, MakeImmature, money, PassInv, Working, TypeOK
  <2>2. \A K : MaturedAs(K)' = MaturedAs(K)
    BY <2>1, MaturedSame
  <2>3. \A b \in orphaned : Stage[b] = "found" /\ Stage'[b] = "immature"
    BY <1>2, <2>1 DEF StagesAreLists
  <2>4. Stage' = [b \in Blocks |-> IF b \in orphaned THEN "immature" ELSE Stage[b]]
    BY <1>1, <2>1, <2>2, <2>3, StageMoves
  <2>5. Contract!Doubt(orphaned)
    BY <1>3, <2>1, <2>3, <2>4 DEF Contract!Doubt
  <2>6. QED
    BY <2>1, <2>5
<1>7. ASSUME pass = "pending", pc = "write", UNCHANGED chain, NEW r \in mature,
             r.block = block, WriteImmatureBlock(r.block)
      PROVE  Contract!Promise(r.block) \/ Contract!Doubt({r.block})
  <2> DEFINE b == r.block
  <2>1. /\ b \in Blocks /\ b \in candidates /\ reward \in {NoReward, Share[b]}
        /\ candidates' = candidates \ {b} /\ immature' = immature \cup {b}
        /\ UNCHANGED <<matured, balance>>
        /\ immatureCredits' = SetNX(immatureCredits, b, reward)
    BY <1>1, <1>7 DEF WriteImmatureBlock, MakeImmature, PassInv, Working, Matures,
      TypeOK, Rows
  <2>2. immatureCredits[b] = NoReward
    BY <1>1, <1>7, <2>1, ImmatureRows
  <2> HIDE DEF b
  <2>3. immatureCredits' = [immatureCredits EXCEPT ![b] = reward]
    BY <2>1, <2>2 DEF SetNX, TypeOK
  <2>4. \A K : MaturedAs(K)' = MaturedAs(K)
    BY <2>1, MaturedSame
  <2>5. Stage[b] = "found" /\ Stage'[b] = "immature"
    BY <1>2, <2>1 DEF StagesAreLists
  <2>6. /\ Stage' = [Stage EXCEPT ![b] = "immature"]
        /\ Stage' = [c \in Blocks |-> IF c \in {b} THEN "immature" ELSE Stage[c]]
    BY <1>1, <2>1, <2>4, <2>5, StageOfOneMoves
  <2>7. CASE reward = Share[b]
    BY <1>3, <2>1, <2>3, <2>5, <2>6, <2>7 DEF Contract!Promise, b
  <2>8. CASE reward = NoReward
    <3>1. immatureCredits' = immatureCredits
      BY <2>1, <2>2, <2>3, <2>8 DEF TypeOK
    <3>2. QED
      BY <1>3, <2>1, <2>5, <2>6, <3>1 DEF Contract!Doubt, b
  <2>9. QED
    BY <2>1, <2>7, <2>8
<1>8. ASSUME pass = "credit", UNCHANGED chain, NEW b \in orphaned, NEW p \in Rewards,
             WriteOrphan(b, p)
      PROVE  b \in Blocks /\ Contract!Lose(b)
  <2> DEFINE row == [block |-> b, kind |-> "orphan"]
  <2>1. /\ b \in Blocks /\ b \in immature
        /\ immature' = immature \ {b} /\ candidates' = candidates
        /\ matured' = matured \cup {row} /\ row.block = b /\ row.kind = "orphan"
        /\ row \in Rows /\ balance' = balance
        /\ immatureCredits' = [immatureCredits EXCEPT ![b] = NoReward]
    BY <1>1, <1>8 DEF WriteOrphan, MakeMatured, PassInv, Working, TypeOK, Rows, Kinds,
      DropPromise, Del
  <2> HIDE DEF row
  <2>2. /\ MaturedAs({"block"})' = MaturedAs({"block"})
        /\ MaturedAs({"uncle", "orphan"})' = MaturedAs({"uncle", "orphan"}) \cup {b}
    <3>1. {"block"} \in SUBSET Kinds /\ {"uncle", "orphan"} \in SUBSET Kinds
      BY DEF Kinds
    <3>2. \A K \in SUBSET Kinds :
            MaturedAs(K)' = MaturedAs(K) \cup IF row.kind \in K THEN {row.block} ELSE {}
      BY <2>1, MaturedStep
    <3>3. /\ MaturedAs({"block"})' =
               MaturedAs({"block"}) \cup IF row.kind \in {"block"} THEN {row.block} ELSE {}
          /\ MaturedAs({"uncle", "orphan"})' = MaturedAs({"uncle", "orphan"}) \cup
               IF row.kind \in {"uncle", "orphan"} THEN {row.block} ELSE {}
      BY <3>1, <3>2
    <3>4. QED
      BY <2>1, <3>3
  <2>3. Stage[b] = "immature" /\ Stage'[b] = "lost"
    BY <1>2, <2>1, <2>2 DEF StagesAreLists
  <2>4. Stage' = [Stage EXCEPT ![b] = "lost"]
    BY <1>1, <2>1, <2>2, <2>3, StageOfOneMoves
  <2>5. QED
    BY <1>3, <2>1, <2>3, <2>4 DEF Contract!Lose, Contract!Nothing, NoReward
<1>9. ASSUME pass = "credit", pc = "write", UNCHANGED chain, NEW r \in mature,
             NEW p \in Rewards, r.block = block, WriteMaturedBlock(r, p)
      PROVE  r.block \in Blocks /\ (Contract!Pay(r.block) \/ Contract!Lose(r.block))
  <2> DEFINE b == r.block
  <2>1. /\ b \in Blocks /\ b \in immature /\ r \in Rows /\ r.kind \in Kinds
        /\ immature' = immature \ {b} /\ candidates' = candidates
        /\ matured' = matured \cup {r}
        /\ balance' = Incr(balance, reward)
        /\ immatureCredits' = [immatureCredits EXCEPT ![b] = NoReward]
        /\ reward = IF r.kind = "block" THEN Share[b] ELSE NoReward
    BY <1>1, <1>9 DEF WriteMaturedBlock, MakeMatured, PassInv, Working, Matures, TypeOK,
      Rows, DropPromise, Del
  <2>2. /\ MaturedAs({"block"})' =
             MaturedAs({"block"}) \cup IF r.kind = "block" THEN {b} ELSE {}
        /\ MaturedAs({"uncle", "orphan"})' =
             MaturedAs({"uncle", "orphan"}) \cup IF r.kind = "block" THEN {} ELSE {b}
    <3>1. {"block"} \in SUBSET Kinds /\ {"uncle", "orphan"} \in SUBSET Kinds
      BY DEF Kinds
    <3>2. \A K \in SUBSET Kinds :
            MaturedAs(K)' = MaturedAs(K) \cup IF r.kind \in K THEN {r.block} ELSE {}
      BY <2>1, MaturedStep
    <3>3. /\ MaturedAs({"block"})' =
               MaturedAs({"block"}) \cup IF r.kind \in {"block"} THEN {r.block} ELSE {}
          /\ MaturedAs({"uncle", "orphan"})' = MaturedAs({"uncle", "orphan"}) \cup
               IF r.kind \in {"uncle", "orphan"} THEN {r.block} ELSE {}
      BY <3>1, <3>2
    <3>4. QED
      BY <2>1, <3>3 DEF Kinds
  <2>3. /\ Stage[b] = "immature"
        /\ Stage'[b] = IF r.kind = "block" THEN "paid" ELSE "lost"
    BY <1>2, <2>1, <2>2 DEF StagesAreLists
  <2>4. Stage' = [Stage EXCEPT ![b] = IF r.kind = "block" THEN "paid" ELSE "lost"]
    <3> HIDE DEF b
    <3>1. QED
      BY <1>1, <2>1, <2>2, <2>3, StageOfOneMoves
  <2>5. \A l \in Logins : balance'[l] = balance[l] + reward[l] /\ balance[l] \in Int
    <3>1. reward \in Rewards /\ balance \in [Accounts -> Int]
      BY DEF TypeOK
    <3>2. QED
      BY <2>1, <3>1, TotalIncr
  <2>6. CASE r.kind = "block"
    <3>1. Earned' = [l \in Logins |-> Earned[l] + Share[b][l]]
      BY <2>1, <2>5, <2>6 DEF Earned
    <3>2. b \in Kept
      <4>1. b \in main' /\ Height[b] + Depth <= tip'
        BY <1>1, <2>2, <2>6 DEF IInv, PaidOnChain
      <4>2. b \in found
        BY <1>1, <2>1 DEF OneStage
      <4>3. main' = main /\ tip' = tip
        BY <1>9 DEF chain
      <4>4. QED
        BY <4>1, <4>2, <4>3 DEF Kept
    <3>3. QED
      BY <2>1, <2>3, <2>4, <2>6, <3>1, <3>2 DEF Contract!Pay, Contract!Nothing, NoReward
  <2>7. CASE r.kind # "block"
    <3>1. \A l \in Logins : reward[l] = 0
      BY <2>1, <2>7 DEF NoReward
    <3>2. Earned' = Earned
      BY <2>5, <3>1 DEF Earned
    <3>3. QED
      BY <2>1, <2>3, <2>4, <2>7, <3>2 DEF Contract!Lose, Contract!Nothing, NoReward
  <2>8. QED
    BY <2>1, <2>6, <2>7
<1>10. \/ UNCHANGED <<candidates, immature, matured, immatureCredits, balance>>
       \/ \E b \in Blocks : Contract!Find(b) \/ Contract!Lose(b) \/ Contract!Pay(b)
       \/ \E b \in Blocks : Contract!Promise(b)
       \/ \E S \in SUBSET Blocks : Contract!Doubt(S)
  <2>1. UNCHANGED <<rows, money, replica>> \/ Replicate =>
          UNCHANGED <<candidates, immature, matured, immatureCredits, balance>>
    BY DEF Replicate, rows, money
  <2>2. \A r \in mature : r.block \in Blocks /\ {r.block} \in SUBSET Blocks
    BY DEF TypeOK, Rows
  <2>3. QED
    BY <1>5, <1>6, <1>7, <1>8, <1>9, <2>1, <2>2, StepKinds
<1>11. Contract!ChainGrows
  BY KeptGrows
<1>12. QED
  BY <1>4, <1>10, <1>11 DEF Contract!Next, Contract!Unpaid

\* The unlocker keeps its contract with the miners, whatever fails: every block is
\* settled at most once, and pays exactly its shares or nothing.
THEOREM Implementation ==
  ASSUME ~ Lagging
  PROVE  Spec => ImplementsContract
<1>1. Init => Contract!Init
  <2> SUFFICES ASSUME Init PROVE Contract!Init
    OBVIOUS
  <2>1. Stage = [b \in Blocks |-> "none"]
    BY DEF Init, Stage, MaturedAs
  <2>2. Earned = [l \in Logins |-> 0] /\ Kept = {}
    BY DEF Init, Earned, Accounts, Kept
  <2>3. QED
    BY <2>1, <2>2 DEF Init, Contract!Init, Contract!Nothing, NoReward
<1>2. TypeOK /\ IInv /\ [Next]_vars => [Contract!Next]_(Contract!vars)
  BY ContractStep
<1>3. QED
  BY <1>1, <1>2, TypeCorrect, Invariance, PTL DEF Spec, ImplementsContract, Contract!Spec

=============================================================================
