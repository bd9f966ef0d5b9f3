--------------------------- MODULE PayoutsProofs ----------------------------
(***************************************************************************)
(* Theorems about the payouts module for any set of miners, any rewards,   *)
(* threshold and number of faults: types, and the inductive invariant IInv *)
(* with what follows from it when sessions and maintenance runs start only *)
(* after the follower has caught up (~Lagging).  Conservation and types    *)
(* need no such premise.  At the end, those about the ledger: payouts and  *)
(* the unlocker's contract over one set of accounts.                       *)
(***************************************************************************)
EXTENDS PoolLedger, Sums

-----------------------------------------------------------------------------
(* The helpers *)

\* HINCRBY of an integer keeps a hash of integers one.
LEMMA HIncrByType ==
  ASSUME NEW hash \in [Accounts -> Int], NEW l \in Logins, NEW n \in Int
  PROVE  /\ HIncrBy(hash, l, n) \in [Accounts -> Int]
         /\ HIncrBy(hash, l, n)[l] = hash[l] + n
         /\ \A m \in Logins \ {l} : HIncrBy(hash, l, n)[m] = hash[m]
BY LoginsAssumption DEF HIncrBy, Accounts

\* A block brings every miner a natural number, and so the pool.
LEMMA RewardType ==
  ASSUME NEW reward \in Rewards
  PROVE  /\ reward \in [Logins -> Nat]
         /\ SumOf(reward) \in Int
<1>1. reward \in [Logins -> Nat]
  BY RewardsAssumption
<1>2. \A l \in Logins : reward[l] \in Int
  BY <1>1
<1>3. SumOf(reward) \in Int
  BY <1>2, MinersAssumption, SumType DEF SumOf
<1>4. QED
  BY <1>1, <1>3

\* A write that keeps the types of the leader keeps those of the replica.
LEMMA ReplicatedType ==
  ASSUME follower \in Views, stream \in Seq(Views), Replicated,
         View(balance', payments', lock') \in Views
  PROVE  follower' \in Views /\ stream' \in Seq(Views)
BY DEF Replicated

\* A view of well-typed hashes is a view.
LEMMA ViewType ==
  ASSUME NEW b \in [Accounts -> Int], NEW p \in SUBSET Payment,
         NEW k \in Payment \cup {NoPayment}
  PROVE  View(b, p, k) \in Views
BY DEF View, Views

-----------------------------------------------------------------------------
(* Types *)

StoreType ==
  /\ balance \in [Accounts -> Int] /\ pending \in [Accounts -> Int]
  /\ paid \in [Accounts -> Int]
  /\ payments \subseteq Payment
  /\ logged \subseteq [tx : Nat, login : Logins, amount : Nat \ {0}]
  /\ lock \in Payment \cup {NoPayment}
  /\ follower \in Views /\ stream \in Seq(Views)

\* LockPayouts keeps the types of the store it writes and of the stream.
LEMMA LockPayoutsType ==
  ASSUME StoreType, pay \in Payment, LockPayouts
  PROVE  StoreType'
<1>1. View(balance', payments', lock') \in Views
  BY ViewType DEF StoreType, LockPayouts
<1>2. QED
  BY <1>1, ReplicatedType DEF StoreType, LockPayouts

\* The same of UpdateBalance.
LEMMA UpdateBalanceType ==
  ASSUME StoreType, pay \in Payment, UpdateBalance
  PROVE  StoreType'
<1>1. pay.login \in Logins /\ pay.amount \in Int /\ -pay.amount \in Int
  BY DEF Payment
<1>2. /\ balance' \in [Accounts -> Int] /\ pending' \in [Accounts -> Int]
  BY <1>1, HIncrByType DEF StoreType, UpdateBalance
<1>3. payments' \subseteq Payment
  BY DEF StoreType, UpdateBalance
<1>4. View(balance', payments', lock') \in Views
  BY <1>2, <1>3, ViewType DEF StoreType, UpdateBalance
<1>5. QED
  BY <1>2, <1>3, <1>4, ReplicatedType DEF StoreType, UpdateBalance

\* The same of RollbackBalance.
LEMMA RollbackBalanceType ==
  ASSUME StoreType, NEW p \in Payment, RollbackBalance(p)
  PROVE  StoreType'
<1>1. p.login \in Logins /\ p.amount \in Int /\ -p.amount \in Int
  BY DEF Payment
<1>2. /\ balance' \in [Accounts -> Int] /\ pending' \in [Accounts -> Int]
  BY <1>1, HIncrByType DEF StoreType, RollbackBalance
<1>3. payments' \subseteq Payment
  BY DEF StoreType, RollbackBalance
<1>4. View(balance', payments', lock') \in Views
  BY <1>2, <1>3, ViewType DEF StoreType, RollbackBalance
<1>5. QED
  BY <1>2, <1>3, <1>4, ReplicatedType DEF StoreType, RollbackBalance

\* The same of WritePayment.
LEMMA WritePaymentType ==
  ASSUME StoreType, pay \in Payment, txHash \in Nat, WritePayment
  PROVE  StoreType'
<1>1. /\ pay.login \in Logins /\ pay.amount \in Nat \ {0}
      /\ pay.amount \in Int /\ -pay.amount \in Int
  BY DEF Payment
<1>2. /\ pending' \in [Accounts -> Int] /\ paid' \in [Accounts -> Int]
  BY <1>1, HIncrByType DEF StoreType, WritePayment
<1>3. /\ payments' \subseteq Payment /\ lock' = NoPayment
      /\ logged' \subseteq [tx : Nat, login : Logins, amount : Nat \ {0}]
  BY <1>1 DEF StoreType, WritePayment
<1>4. View(balance', payments', lock') \in Views
  BY <1>3, ViewType DEF StoreType, WritePayment
<1>5. QED
  BY <1>2, <1>3, <1>4, ReplicatedType DEF StoreType, WritePayment

\* The same of UnlockPayouts.
LEMMA UnlockPayoutsType ==
  ASSUME StoreType, UnlockPayouts
  PROVE  StoreType'
<1>1. View(balance', payments', lock') \in Views
  BY ViewType DEF StoreType, UnlockPayouts
<1>2. QED
  BY <1>1, ReplicatedType DEF StoreType, UnlockPayouts

\* A credit of the unlocker (WriteMaturedBlock) keeps every type.
LEMMA CreditType ==
  ASSUME StoreType, NEW reward \in Rewards, Credit(reward)
  PROVE  StoreType'
<1>1. balance' \in [Accounts -> Int]
  <2>1. SumOf(reward) \in Int /\ \A l \in Logins : reward[l] \in Int
    BY RewardType
  <2>2. \A a \in Accounts : balance[a] + (IF a = Pool THEN SumOf(reward) ELSE reward[a]) \in Int
    BY <2>1 DEF StoreType, Accounts
  <2>3. QED
    BY <2>2 DEF Credit
<1>2. View(balance', payments', lock') \in Views
  BY <1>1, ViewType DEF StoreType, Credit
<1>3. QED
  BY <1>1, <1>2, ReplicatedType DEF StoreType, Credit

\* Applying a view on the follower keeps every type.
LEMMA ReplicateType ==
  ASSUME StoreType, Replicate
  PROVE  StoreType'
BY DEF StoreType, Replicate, leader

\* The process but its flag halt, the chain and the history.
OtherType ==
  /\ pc \in Labels /\ todo \subseteq Logins
  /\ pay \in Payment \cup {NoPayment}
  /\ pc \in Holding => pay \in Payment
  /\ txHash \in Nat /\ rollback \subseteq Payment
  /\ sent \in [Logins -> Nat] /\ txs \in Nat /\ mined \subseteq 1 .. txs
  /\ credited \in [Logins -> Nat] /\ astray \in [Logins -> Nat]
  /\ faults \in Nat

\* Giving up a payment keeps the type of the history.
LEMMA GiveUpType ==
  ASSUME astray \in [Logins -> Nat], NEW p \in Payment, GiveUp(p) \/ UNCHANGED astray
  PROVE  astray' \in [Logins -> Nat]
<1>1. p.login \in Logins /\ p.amount \in Nat
  BY DEF Payment
<1>2. QED
  BY <1>1 DEF GiveUp

\* The initial state is well typed.
LEMMA TypeInit == Init => TypeOK
<1>1. Init => StoreType
  BY ViewType DEF Init, StoreType, Zero
<1>2. Init => OtherType
  BY DEF Init, OtherType, Labels, Holding
<1>3. Init => halt \in BOOLEAN
  BY Zenon DEF Init
<1>4. QED
  BY <1>1, <1>2, <1>3 DEF TypeOK, StoreType, OtherType

\* Each action keeps the types.
LEMMA TypeStep ==
  ASSUME TypeOK, [Next]_vars
  PROVE  TypeOK'
<1>1. StoreType /\ OtherType /\ halt \in BOOLEAN
  BY DEF TypeOK, StoreType, OtherType
<1> USE BoundsAssumption DEF Labels, Holding, Goto, HaltSession, Exit, Fault, leader,
        replica, process, chain
<1>2. StoreType'
  <2>1. CASE UNCHANGED <<leader, replica>>
    BY <1>1, <2>1 DEF StoreType
  <2>2. CASE Lock
    BY <1>1, <2>1, <2>2, LockPayoutsType DEF Lock, Failing, OtherType
  <2>3. CASE Debit
    BY <1>1, <2>1, <2>3, UpdateBalanceType DEF Debit, Failing, OtherType
  <2>4. CASE Record
    BY <1>1, <2>1, <2>4, WritePaymentType DEF Record, Failing, OtherType
  <2>5. CASE Rollback
    BY <1>1, <2>1, <2>5, RollbackBalanceType DEF Rollback, CreditBack, OtherType
  <2>6. CASE Unlock
    BY <1>1, <2>1, <2>6, UnlockPayoutsType DEF Unlock, Failing
  <2>7. CASE \E reward \in Rewards : Credit(reward)
    BY <1>1, <2>7, CreditType
  <2>8. CASE Replicate
    BY <1>1, <2>8, ReplicateType
  <2>9. QED
    BY <2>1, <2>2, <2>3, <2>4, <2>5, <2>6, <2>7, <2>8
    DEF Next, Payout, Session, Resolution, vars, StartNormal, StartResolve,
        CheckPending, CheckLock, Tick, NextPayee, EndSession, CheckFunds,
        Send, Confirmed, ReadPending, Stop, Crash, Mine
<1>3. OtherType'
  <2>1. CASE UNCHANGED vars
    BY <1>1, <2>1 DEF OtherType, vars
  <2>2. CASE \/ StartNormal \/ StartResolve \/ CheckPending \/ CheckLock
             \/ Tick \/ EndSession \/ CheckFunds
    <3>1. CASE StartNormal \/ StartResolve \/ Tick \/ EndSession
      BY <1>1, <3>1 DEF OtherType, StartNormal, StartResolve, Tick, EndSession
    <3>2. CASE CheckPending
      BY <1>1, <3>2 DEF OtherType, CheckPending, SeenPending
    <3>3. CASE CheckLock
      BY <1>1, <3>3 DEF OtherType, CheckLock
    <3>4. CASE CheckFunds
      BY <1>1, <3>4 DEF OtherType, CheckFunds
    <3>5. QED
      BY <2>2, <3>1, <3>2, <3>3, <3>4
  <2>3. CASE NextPayee
    <3>1. PICK l \in todo :
            /\ todo' = todo \ {l}
            /\ \/ /\ ReachedThreshold(follower.balance[l])
                  /\ pay' = [login |-> l, amount |-> follower.balance[l]]
                  /\ pc' = "funds"
                  /\ UNCHANGED faults
               \/ /\ ~ReachedThreshold(follower.balance[l])
                  /\ UNCHANGED <<pay, pc, faults>>
               \/ Fault /\ UNCHANGED <<pay, pc>>
      BY <2>3 DEF NextPayee
    <3>2. l \in Logins /\ follower.balance[l] \in Int
      BY <1>1 DEF StoreType, OtherType, Views, Accounts
    <3>3. ReachedThreshold(follower.balance[l]) =>
            [login |-> l, amount |-> follower.balance[l]] \in Payment
      BY <3>2, ThresholdAssumption DEF ReachedThreshold, Payment
    <3>4. QED
      BY <1>1, <2>3, <3>1, <3>2, <3>3 DEF OtherType, NextPayee
  <2>4. CASE Lock \/ Debit \/ Confirmed \/ Record
    <3>1. CASE Lock
      BY <1>1, <3>1 DEF OtherType, Lock, Failing
    <3>2. CASE Debit
      BY <1>1, <3>2 DEF OtherType, Debit, Failing
    <3>3. CASE Confirmed
      BY <1>1, <3>3 DEF OtherType, Confirmed
    <3>4. CASE Record
      BY <1>1, <3>4 DEF OtherType, Record, Failing
    <3>5. QED
      BY <2>4, <3>1, <3>2, <3>3, <3>4
  <2>5. CASE Send
    <3>1. pay \in Payment /\ pay.login \in Logins /\ pay.amount \in Nat
      BY <1>1, <2>5 DEF OtherType, Send, Payment
    <3>2. (Broadcast /\ (GiveUp(pay) \/ UNCHANGED astray)) \/ UNCHANGED chain
      BY <2>5 DEF Send
    <3>3. /\ sent' \in [Logins -> Nat] /\ txs' \in Nat /\ mined' \subseteq 1 .. txs'
          /\ astray' \in [Logins -> Nat]
      <4>1. CASE UNCHANGED chain
        BY <1>1, <4>1 DEF OtherType
      <4>2. CASE Broadcast /\ (GiveUp(pay) \/ UNCHANGED astray)
        <5>1. sent' \in [Logins -> Nat]
          BY <1>1, <3>1, <4>2 DEF OtherType, Broadcast
        <5>2. txs' = txs + 1 /\ mined' = mined
          BY <4>2 DEF Broadcast
        <5>3. astray' \in [Logins -> Nat]
          BY <1>1, <3>1, <4>2, GiveUpType DEF OtherType
        <5>4. QED
          BY <1>1, <5>1, <5>2, <5>3 DEF OtherType
      <4>3. QED
        BY <3>2, <4>1, <4>2
    <3>4. /\ txHash' \in Nat /\ todo' \subseteq Logins
          /\ pay' \in Payment \cup {NoPayment} /\ rollback' = rollback
          /\ \/ pc' = "idle"
             \/ pc' \in {"resend", "wait"} /\ pay' = pay
          /\ credited' = credited /\ faults' \in Nat
      BY <1>1, <2>5 DEF OtherType, Send, SendFails
    <3>5. QED
      BY <1>1, <3>1, <3>3, <3>4 DEF OtherType
  <2>6. CASE ReadPending
    BY <1>1, <2>6 DEF OtherType, StoreType, ReadPending, SeenPending, Views
  <2>7. CASE Rollback \/ Unlock
    <3>1. CASE Rollback
      <4>1. astray' \in [Logins -> Nat]
        <5>1. PICK p \in rollback : GiveUp(p) \/ UNCHANGED astray
          BY <3>1 DEF Rollback, CreditBack
        <5>2. QED
          BY <1>1, <5>1, GiveUpType DEF OtherType
      <4>2. QED
        BY <1>1, <3>1, <4>1 DEF OtherType, Rollback
    <3>2. CASE Unlock
      BY <1>1, <3>2 DEF OtherType, Unlock, Failing
    <3>3. QED
      BY <2>7, <3>1, <3>2
  <2>8. CASE Stop \/ Crash \/ Replicate \/ Mine
    <3>1. CASE Stop \/ Crash
      <4>1. /\ pc' = "off" /\ todo' = {} /\ pay' = NoPayment /\ txHash' = 0
            /\ rollback' = {}
            /\ sent' = sent /\ txs' = txs /\ mined' = mined
            /\ credited' = credited /\ astray' = astray
        BY <3>1 DEF Stop, Crash
      <4>2. faults' \in Nat
        BY <1>1, <3>1 DEF OtherType, Stop, Crash
      <4>3. QED
        BY <1>1, <4>1, <4>2 DEF OtherType
    <3>2. CASE Replicate
      BY <1>1, <3>2 DEF OtherType, Replicate
    <3>3. CASE Mine
      BY <1>1, <3>3 DEF OtherType, Mine
    <3>4. QED
      BY <2>8, <3>1, <3>2, <3>3
  <2>9. CASE \E reward \in Rewards : Credit(reward)
    <3>1. PICK reward \in Rewards : Credit(reward)
      BY <2>9
    <3>2. reward \in [Logins -> Nat]
      BY RewardType
    <3>3. credited' \in [Logins -> Nat]
      BY <1>1, <3>1, <3>2 DEF OtherType, Credit
    <3>4. QED
      BY <1>1, <3>1, <3>3 DEF OtherType, Credit
  <2>10. QED
    BY <2>1, <2>2, <2>3, <2>4, <2>5, <2>6, <2>7, <2>8, <2>9
    DEF Next, Payout, Session, Resolution
<1>4. halt' \in BOOLEAN
  <2>1. halt' = halt \/ halt' = TRUE \/ halt' = FALSE
    BY Zenon
    DEF Next, Payout, Session, Resolution, vars, StartNormal, StartResolve,
        CheckPending, CheckLock, Tick, NextPayee, EndSession, CheckFunds,
        Lock, Debit, Send, SendFails, Confirmed, Record, ReadPending,
        Rollback, Unlock, Stop, Crash, Credit, Replicate, Mine
  <2>2. QED
    BY <1>1, <2>1, Zenon
<1>5. QED
  BY <1>2, <1>3, <1>4 DEF TypeOK, StoreType, OtherType

\* Every variable has its type in every reachable state.
THEOREM TypeCorrect == Spec => []TypeOK
BY TypeInit, TypeStep, PTL DEF Spec


-----------------------------------------------------------------------------
(* What a step does to the books *)

Unmoved ==
  UNCHANGED <<leader, sent, astray, credited>> /\ (UNCHANGED replica \/ Replicate)

Transfers ==
  /\ pc \in {"send", "resend"} /\ Broadcast
  /\ UNCHANGED <<leader, replica, credited, astray>>

Strays ==
  /\ pc \in {"send", "resend"} /\ Broadcast /\ GiveUp(pay)
  /\ UNCHANGED <<leader, replica, credited>>

\* Every step leaves the books alone, or is one write of the store made by the
\* process where the code makes it, a reward, or a broadcast.
LEMMA StepKinds ==
  ASSUME TypeOK, [Next]_vars
  PROVE  \/ Unmoved
         \/ pc = "lock" /\ lock = NoPayment /\ LockPayouts /\ UNCHANGED <<sent, astray, credited>>
         \/ pc = "debit" /\ UpdateBalance /\ UNCHANGED <<sent, astray, credited>>
         \/ /\ pc = "rollback"
            /\ \E p \in rollback : CreditBack(p)
            /\ UNCHANGED <<sent, credited>>
         \/ pc = "record" /\ WritePayment /\ UNCHANGED <<sent, astray, credited>>
         \/ pc = "unlock" /\ UnlockPayouts /\ UNCHANGED <<sent, astray, credited>>
         \/ \E reward \in Rewards : Credit(reward)
         \/ Transfers \/ Strays
<1> USE DEF Unmoved, Transfers, Strays, leader, replica, chain
<1>1. CASE Lock
  BY <1>1 DEF Lock, Failing
<1>2. CASE Debit
  BY <1>2 DEF Debit, Failing
<1>3. CASE Record
  BY <1>3 DEF Record, Failing
<1>4. CASE Rollback
  BY <1>4 DEF Rollback
<1>5. CASE Unlock
  BY <1>5 DEF Unlock, Failing
<1>6. CASE Send
  BY <1>6 DEF Send
<1>7. CASE UNCHANGED vars
  BY <1>7 DEF vars
<1>8. CASE Replicate \/ Mine \/ Stop \/ Crash \/ StartNormal \/ StartResolve
  BY <1>8 DEF Replicate, Mine, Stop, Crash, Exit, StartNormal, StartResolve
<1>9. CASE \/ CheckPending \/ CheckLock \/ Tick \/ NextPayee \/ EndSession
           \/ CheckFunds \/ Confirmed \/ ReadPending
  BY <1>9 DEF CheckPending, CheckLock, Tick, NextPayee, EndSession, CheckFunds,
    Confirmed, ReadPending
<1>10. QED
  BY <1>1, <1>2, <1>3, <1>4, <1>5, <1>6, <1>7, <1>8, <1>9
  DEF Next, Payout, Session, Resolution

\* The writes, miner by miner.
LEMMA UpdateBalanceEffect ==
  ASSUME TypeOK, pay \in Payment, UpdateBalance
  PROVE  \A m \in Logins :
           /\ balance'[m] = IF m = pay.login THEN balance[m] - pay.amount ELSE balance[m]
           /\ pending'[m] = IF m = pay.login THEN pending[m] + pay.amount ELSE pending[m]
           /\ paid'[m] = paid[m]
<1>1. TAKE m \in Logins
<1>2. m # Pool /\ m \in Accounts /\ pay.amount \in Int
  BY LoginsAssumption DEF Accounts, Payment
<1>3. balance[m] \in Int /\ pending[m] \in Int
  BY <1>2 DEF TypeOK
<1>4. QED
  BY <1>2, <1>3 DEF UpdateBalance, HIncrBy

\* RollbackBalance moves p's amount from pending to balance, at its login only.
LEMMA RollbackBalanceEffect ==
  ASSUME TypeOK, NEW p \in Payment, RollbackBalance(p)
  PROVE  \A m \in Logins :
           /\ balance'[m] = IF m = p.login THEN balance[m] + p.amount ELSE balance[m]
           /\ pending'[m] = IF m = p.login THEN pending[m] - p.amount ELSE pending[m]
           /\ paid'[m] = paid[m]
<1>1. TAKE m \in Logins
<1>2. m # Pool /\ m \in Accounts /\ p.amount \in Int
  BY LoginsAssumption DEF Accounts, Payment
<1>3. balance[m] \in Int /\ pending[m] \in Int
  BY <1>2 DEF TypeOK
<1>4. QED
  BY <1>2, <1>3 DEF RollbackBalance, HIncrBy

\* WritePayment moves the amount in hand from pending to paid, at its login only.
LEMMA WritePaymentEffect ==
  ASSUME TypeOK, pay \in Payment, WritePayment
  PROVE  \A m \in Logins :
           /\ pending'[m] = IF m = pay.login THEN pending[m] - pay.amount ELSE pending[m]
           /\ paid'[m] = IF m = pay.login THEN paid[m] + pay.amount ELSE paid[m]
           /\ balance'[m] = balance[m]
<1>1. TAKE m \in Logins
<1>2. m # Pool /\ m \in Accounts /\ pay.amount \in Int
  BY LoginsAssumption DEF Accounts, Payment
<1>3. paid[m] \in Int /\ pending[m] \in Int
  BY <1>2 DEF TypeOK
<1>4. QED
  BY <1>2, <1>3 DEF WritePayment, HIncrBy

\* WriteMaturedBlock raises each balance and its credited total alike.
LEMMA CreditEffect ==
  ASSUME TypeOK, NEW reward \in Rewards, Credit(reward)
  PROVE  \A m \in Logins :
           /\ balance'[m] = balance[m] + reward[m]
           /\ credited'[m] = credited[m] + reward[m]
           /\ pending'[m] = pending[m] /\ paid'[m] = paid[m]
<1>1. TAKE m \in Logins
<1>2. m # Pool /\ m \in Accounts
  BY LoginsAssumption DEF Accounts
<1>3. credited \in [Logins -> Nat]
  BY DEF TypeOK
<1>4. QED
  BY <1>2, <1>3 DEF Credit

\* A shift of n from one field of a miner to another keeps their sum.
LEMMA ConservationStep ==
  ASSUME TypeOK, Conservation, [Next]_vars
  PROVE  Conservation'
<1>1. \A m \in Logins : /\ balance[m] \in Int /\ pending[m] \in Int
                         /\ paid[m] \in Int /\ credited[m] \in Nat
  BY DEF TypeOK, Accounts
<1>2. CASE \/ Unmoved \/ Transfers \/ Strays
           \/ LockPayouts /\ UNCHANGED credited
           \/ UnlockPayouts /\ UNCHANGED credited
  BY <1>2 DEF Conservation, Unmoved, Transfers, Strays, LockPayouts, UnlockPayouts, leader
<1>3. CASE pc = "debit" /\ UpdateBalance /\ UNCHANGED credited
  <2>1. pay \in Payment /\ pay.amount \in Int
    BY <1>3 DEF TypeOK, Holding, Payment
  <2>2. QED
    BY <1>1, <1>3, <2>1, UpdateBalanceEffect DEF Conservation
<1>4. CASE pc = "rollback" /\ (\E p \in rollback : CreditBack(p)) /\ UNCHANGED credited
  <2>1. PICK p \in rollback : RollbackBalance(p)
    BY <1>4 DEF CreditBack
  <2>2. p \in Payment /\ p.amount \in Int
    BY DEF TypeOK, Payment
  <2>3. QED
    BY <1>1, <1>4, <2>1, <2>2, RollbackBalanceEffect DEF Conservation
<1>5. CASE pc = "record" /\ WritePayment /\ UNCHANGED credited
  <2>1. pay \in Payment /\ pay.amount \in Int
    BY <1>5 DEF TypeOK, Holding, Payment
  <2>2. QED
    BY <1>1, <1>5, <2>1, WritePaymentEffect DEF Conservation
<1>6. CASE \E reward \in Rewards : Credit(reward)
  <2>1. PICK reward \in Rewards : Credit(reward)
    BY <1>6
  <2>2. \A l \in Logins : reward[l] \in Nat
    BY RewardType
  <2>3. QED
    BY <1>1, <2>1, <2>2, CreditEffect DEF Conservation
<1>7. QED
  BY <1>2, <1>3, <1>4, <1>5, <1>6, StepKinds

\* Whatever fails, and however far the follower is behind, a miner's balance,
\* pending and paid amounts add up to what was credited.
THEOREM MoneyIsConserved == Spec => []Conservation
<1>1. Init => Conservation
  BY DEF Init, Conservation, Zero, Accounts
<1>2. QED
  BY <1>1, ConservationStep, TypeCorrect, PTL DEF Spec

-----------------------------------------------------------------------------
(* The books *)

\* What the books say of the payment in hand while a session works under its
\* lock, and of any payment listed.
LEMMA ListedAmount ==
  ASSUME TypeOK, PendingIsLocked, PendingIsListed, NEW p \in payments
  PROVE  /\ p \in Payment /\ lock = p /\ payments = {p}
         /\ pending[p.login] = p.amount
         /\ \A m \in Logins \ {p.login} : pending[m] = 0
BY DEF TypeOK, PendingIsLocked, PendingIsListed, Payment

\* With an empty payments:pending nothing is pending.
LEMMA NothingListed ==
  ASSUME PendingIsListed, payments = {}
  PROVE  \A m \in Logins : pending[m] = 0
BY DEF PendingIsListed

\* A payment credited back leaves nothing in flight: what was sent to any miner is
\* recorded as paid or went astray.
LEMMA CreditBackEffect ==
  ASSUME TypeOK, PendingIsLocked, PendingIsListed, SentIsAccounted,
         NEW p \in payments, CreditBack(p)
  PROVE  /\ \A m \in Logins : astray'[m] = sent[m] - paid[m]
         /\ \E n \in {0, p.amount} :
              /\ n = sent[p.login] - paid[p.login] - astray[p.login]
              /\ astray' = [astray EXCEPT ![p.login] = @ + n]
<1>1. \A m \in Logins : /\ pending[m] \in Int /\ paid[m] \in Int
                        /\ sent[m] \in Nat /\ astray[m] \in Nat
  BY DEF TypeOK, Accounts
<1>2. /\ p.login \in Logins /\ p.amount \in Nat \ {0} /\ pending[p.login] = p.amount
      /\ \A m \in Logins \ {p.login} : pending[m] = 0
  BY ListedAmount DEF Payment
<1>3. \A m \in Logins \ {p.login} : sent[m] = paid[m] + astray[m]
  BY <1>1, <1>2 DEF SentIsAccounted
<1>4. sent[p.login] - paid[p.login] - astray[p.login] \in {0, p.amount}
  BY <1>1, <1>2 DEF SentIsAccounted
<1>5. CASE IsOut(p)
  <2>1. sent[p.login] - paid[p.login] - astray[p.login] = p.amount
    BY <1>1, <1>2, <1>4, <1>5 DEF IsOut
  <2>2. astray' = [astray EXCEPT ![p.login] = @ + p.amount]
    BY <1>5 DEF CreditBack, GiveUp
  <2>3. /\ astray'[p.login] = astray[p.login] + p.amount
        /\ \A m \in Logins \ {p.login} : astray'[m] = astray[m]
    BY <1>2, <2>2 DEF TypeOK
  <2>4. ASSUME NEW m \in Logins PROVE astray'[m] = sent[m] - paid[m]
    <3>1. CASE m = p.login
      BY <1>1, <1>2, <2>1, <2>3, <3>1
    <3>2. CASE m # p.login
      BY <1>1, <1>3, <2>3, <3>2
    <3>3. QED
      BY <3>1, <3>2
  <2>5. QED
    BY <2>1, <2>2, <2>4
<1>6. CASE ~IsOut(p)
  <2>1. sent[p.login] - paid[p.login] - astray[p.login] = 0
    BY <1>1, <1>2, <1>4, <1>6 DEF IsOut
  <2>2. astray' = astray
    BY <1>6 DEF CreditBack
  <2>3. astray' = [astray EXCEPT ![p.login] = @ + 0]
    BY <1>1, <1>2, <2>2 DEF TypeOK
  <2>4. ASSUME NEW m \in Logins PROVE astray'[m] = sent[m] - paid[m]
    <3>1. CASE m = p.login
      <4>1. sent[m] \in Int /\ paid[m] \in Int /\ astray[m] \in Int
        BY <1>1
      <4>2. sent[m] - paid[m] - astray[m] = 0 /\ astray'[m] = astray[m]
        BY <2>1, <2>2, <3>1
      <4>3. QED
        BY <4>1, <4>2
    <3>2. CASE m # p.login
      BY <1>1, <1>3, <2>2, <3>2
    <3>3. QED
      BY <3>1, <3>2
  <2>5. QED
    BY <2>1, <2>3, <2>4
<1>7. QED
  BY <1>5, <1>6

\* Every step of the module and of its surroundings preserves the books.
LEMMA BooksStep ==
  ASSUME IInv, [Next]_vars
  PROVE  BooksInv'
<1>1. /\ TypeOK /\ ProcessInv /\ Conservation' /\ PendingIsLocked
      /\ PendingIsListed /\ SentIsAccounted
      /\ \A l \in Logins : balance[l] >= 0
  BY ConservationStep DEF IInv, BooksInv
<1>2. \A m \in Logins : /\ balance[m] \in Int /\ pending[m] \in Int
                        /\ paid[m] \in Int /\ sent[m] \in Nat /\ astray[m] \in Nat
  BY <1>1 DEF TypeOK, Accounts
<1>3. CASE Unmoved
  BY <1>1, <1>3 DEF BooksInv, Unmoved, leader, PendingIsLocked,
    PendingIsListed, SentIsAccounted
<1>4. CASE pc = "lock" /\ lock = NoPayment /\ LockPayouts /\ UNCHANGED <<sent, astray, credited>>
  <2>1. payments = {}
    BY <1>1, <1>4, NoPaymentAssumption DEF TypeOK, PendingIsLocked
  <2>2. QED
    BY <1>1, <1>4, <2>1 DEF BooksInv, LockPayouts, PendingIsLocked,
      PendingIsListed, SentIsAccounted
<1>5. CASE pc = "debit" /\ UpdateBalance /\ UNCHANGED <<sent, astray, credited>>
  <2>1. /\ pay \in Payment /\ pay.login \in Logins /\ pay.amount \in Nat \ {0}
        /\ lock = pay /\ payments = {} /\ pay.amount <= balance[pay.login]
    BY <1>1, <1>5 DEF TypeOK, ProcessInv, Holding, Payment
  <2>2. payments' = {pay} /\ lock' = pay /\ sent' = sent /\ astray' = astray
    BY <1>5, <2>1 DEF UpdateBalance
  <2>3. \A m \in Logins : pending[m] = 0 /\ sent[m] = paid[m] + astray[m]
    BY <1>1, <1>2, <2>1, NothingListed DEF SentIsAccounted
  <2>4. \A m \in Logins :
          /\ balance'[m] >= 0
          /\ pending'[m] = IF m = pay.login THEN pay.amount ELSE 0
          /\ paid'[m] = paid[m]
    BY <1>1, <1>2, <1>5, <2>1, <2>3, UpdateBalanceEffect
  <2>5. QED
    BY <1>1, <1>2, <2>1, <2>2, <2>3, <2>4
    DEF BooksInv, PendingIsLocked, PendingIsListed, SentIsAccounted
<1>6. CASE /\ pc = "rollback"
           /\ \E p \in rollback : CreditBack(p)
           /\ UNCHANGED <<sent, credited>>
  <2>1. PICK p \in rollback : CreditBack(p)
    BY <1>6
  <2>2. p \in payments /\ RollbackBalance(p)
    BY <1>1, <1>6, <2>1 DEF ProcessInv, CreditBack
  <2>3. /\ p \in Payment /\ p.login \in Logins /\ p.amount \in Nat \ {0}
        /\ payments = {p} /\ pending[p.login] = p.amount
        /\ \A m \in Logins \ {p.login} : pending[m] = 0
    BY <1>1, <2>2, ListedAmount DEF Payment
  <2>4. payments' = {} /\ sent' = sent
    BY <1>6, <2>2, <2>3 DEF RollbackBalance
  <2>5. \A m \in Logins : balance'[m] >= 0 /\ pending'[m] = 0 /\ paid'[m] = paid[m]
    BY <1>1, <1>2, <2>2, <2>3, RollbackBalanceEffect
  <2>6. \A m \in Logins : astray'[m] = sent[m] - paid[m]
    BY <1>1, <2>1, <2>3, CreditBackEffect
  <2>7. QED
    BY <1>1, <1>2, <2>4, <2>5, <2>6
    DEF BooksInv, PendingIsLocked, PendingIsListed, SentIsAccounted
<1>7. CASE pc = "record" /\ WritePayment /\ UNCHANGED <<sent, astray, credited>>
  <2>1. /\ pay \in Payment /\ pay.login \in Logins /\ pay.amount \in Nat \ {0}
        /\ payments = {pay}
        /\ sent[pay.login] = paid[pay.login] + astray[pay.login] + pay.amount
    BY <1>1, <1>7 DEF TypeOK, ProcessInv, Payment
  <2>2. payments' = {} /\ sent' = sent /\ astray' = astray
    BY <1>7, <2>1 DEF WritePayment
  <2>3. /\ pending[pay.login] = pay.amount
        /\ \A m \in Logins \ {pay.login} :
             pending[m] = 0 /\ sent[m] = paid[m] + astray[m]
    BY <1>1, <1>2, <2>1, ListedAmount DEF SentIsAccounted
  <2>4. \A m \in Logins :
          balance'[m] >= 0 /\ pending'[m] = 0 /\ paid'[m] = sent[m] - astray[m]
    BY <1>1, <1>2, <1>7, <2>1, <2>3, WritePaymentEffect
  <2>5. QED
    BY <1>1, <1>2, <2>2, <2>4
    DEF BooksInv, PendingIsLocked, PendingIsListed, SentIsAccounted
<1>8. CASE pc = "unlock" /\ UnlockPayouts /\ UNCHANGED <<sent, astray, credited>>
  <2>1. payments = {}
    BY <1>1, <1>8 DEF ProcessInv
  <2>2. QED
    BY <1>1, <1>8, <2>1 DEF BooksInv, UnlockPayouts, PendingIsLocked,
      PendingIsListed, SentIsAccounted
<1>9. CASE \E reward \in Rewards : Credit(reward)
  <2>1. PICK reward \in Rewards : Credit(reward)
    BY <1>9
  <2>2. \A l \in Logins : reward[l] \in Nat
    BY RewardType
  <2>3. \A m \in Logins :
          balance'[m] >= 0 /\ pending'[m] = pending[m] /\ paid'[m] = paid[m]
    BY <1>1, <1>2, <2>1, <2>2, CreditEffect
  <2>4. payments' = payments /\ lock' = lock /\ sent' = sent /\ astray' = astray
    BY <2>1 DEF Credit, chain
  <2>5. QED
    BY <1>1, <2>3, <2>4
    DEF BooksInv, PendingIsLocked, PendingIsListed, SentIsAccounted
<1>10. CASE Transfers
  <2>1. /\ pay \in Payment /\ pay.login \in Logins /\ pay.amount \in Nat \ {0}
        /\ payments = {pay} /\ sent[pay.login] = paid[pay.login] + astray[pay.login]
    BY <1>1, <1>10 DEF Transfers, TypeOK, ProcessInv, Payment
  <2>2. pending[pay.login] = pay.amount
    BY <1>1, <2>1, ListedAmount
  <2>3. /\ sent'[pay.login] = sent[pay.login] + pay.amount
        /\ \A m \in Logins \ {pay.login} : sent'[m] = sent[m]
    BY <1>1, <1>10, <2>1 DEF Transfers, Broadcast, TypeOK
  <2>4. SentIsAccounted'
    BY <1>1, <1>2, <1>10, <2>1, <2>2, <2>3 DEF SentIsAccounted, Transfers, leader
  <2>5. QED
    BY <1>1, <1>10, <2>4
    DEF BooksInv, PendingIsLocked, PendingIsListed, Transfers, leader
<1>11. CASE Strays
  <2>1. /\ pay \in Payment /\ pay.login \in Logins /\ pay.amount \in Nat \ {0}
    BY <1>1, <1>11 DEF Strays, TypeOK, Holding, Payment
  <2>2. \A m \in Logins : sent'[m] - astray'[m] = sent[m] - astray[m]
    BY <1>1, <1>2, <1>11, <2>1 DEF Strays, Broadcast, GiveUp, TypeOK
  <2>3. SentIsAccounted'
    BY <1>1, <1>11, <2>2 DEF SentIsAccounted, Strays, leader
  <2>4. QED
    BY <1>1, <1>11, <2>3
    DEF BooksInv, PendingIsLocked, PendingIsListed, Strays, leader
<1>12. QED
  BY <1>1, <1>3, <1>4, <1>5, <1>6, <1>7, <1>8, <1>9, <1>10, <1>11, StepKinds

-----------------------------------------------------------------------------
(* The replica *)

\* A write adds its view as the latest one.
LEMMA KnownAfterWrite ==
  ASSUME stream \in Seq(Views), Replicated
  PROVE  /\ Latest' = View(balance', payments', lock')
         /\ \A v \in Known' : v \in Known \/ v = View(balance', payments', lock')
<1> DEFINE new == View(balance', payments', lock')
<1>1. stream' = Append(stream, new) /\ follower' = follower
  BY DEF Replicated
<1>2. /\ Len(stream') = Len(stream) + 1 /\ DOMAIN stream' = 1 .. Len(stream) + 1
      /\ DOMAIN stream = 1 .. Len(stream) /\ Len(stream) \in Nat
      /\ stream' # <<>> /\ stream'[Len(stream) + 1] = new
      /\ \A i \in 1 .. Len(stream) : stream'[i] = stream[i]
  BY <1>1
<1>3. Latest' = new
  BY <1>2 DEF Latest
<1>4. ASSUME NEW v \in Known'
      PROVE  v \in Known \/ v = new
  <2>1. CASE v = follower'
    BY <1>1, <2>1 DEF Known
  <2>2. CASE \E i \in DOMAIN stream' : v = stream'[i]
    <3>1. PICK i \in 1 .. Len(stream) + 1 : v = stream'[i]
      BY <1>2, <2>2
    <3>2. CASE i = Len(stream) + 1
      BY <1>2, <3>1, <3>2
    <3>3. CASE i \in 1 .. Len(stream)
      BY <1>2, <3>1, <3>3 DEF Known
    <3>4. QED
      BY <1>2, <3>1, <3>2, <3>3
  <2>3. QED
    BY <1>4, <2>1, <2>2 DEF Known
<1>5. QED
  BY <1>3, <1>4

\* Applying the oldest view loses no write.
LEMMA KnownAfterReplicate ==
  ASSUME stream \in Seq(Views), Replicate
  PROVE  /\ Latest' = Latest
         /\ \A v \in Known' : v \in Known
<1>1. stream # <<>> /\ follower' = stream[1] /\ stream' = Tail(stream)
  BY DEF Replicate
<1>2. /\ Len(stream) \in Nat \ {0} /\ DOMAIN stream = 1 .. Len(stream)
      /\ Len(stream') = Len(stream) - 1 /\ DOMAIN stream' = 1 .. Len(stream) - 1
      /\ \A i \in 1 .. Len(stream) - 1 : stream'[i] = stream[i + 1]
  BY <1>1
<1>3. Latest' = Latest
  <2>1. CASE Len(stream) = 1
    BY <1>1, <1>2, <2>1 DEF Latest
  <2>2. CASE Len(stream) > 1
    <3>1. stream' # <<>> /\ Len(stream') \in 1 .. Len(stream) - 1
      BY <1>2, <2>2
    <3>2. stream'[Len(stream')] = stream[Len(stream)]
      BY <1>2, <3>1
    <3>3. QED
      BY <1>1, <3>1, <3>2 DEF Latest
  <2>3. QED
    BY <1>2, <2>1, <2>2
<1>4. ASSUME NEW v \in Known'
      PROVE  v \in Known
  <2>1. CASE v = follower'
    BY <1>1, <1>2, <2>1 DEF Known
  <2>2. CASE \E i \in DOMAIN stream' : v = stream'[i]
    <3>1. PICK i \in 1 .. Len(stream) - 1 : v = stream'[i]
      BY <1>2, <2>2
    <3>2. i + 1 \in DOMAIN stream /\ v = stream[i + 1]
      BY <1>2, <3>1
    <3>3. QED
      BY <3>2 DEF Known
  <2>3. QED
    BY <1>4, <2>1, <2>2 DEF Known
<1>5. QED
  BY <1>3, <1>4

\* A step that writes nothing and replicates nothing shows no new view.
LEMMA KnownUnchanged ==
  ASSUME UNCHANGED replica
  PROVE  Latest' = Latest /\ Known' = Known
BY DEF replica, Latest, Known

\* A follower that has caught up shows the leader.
LEMMA KnownWhenCaughtUp ==
  ASSUME ~Lagging, CaughtUp, Latest = View(balance, payments, lock)
  PROVE  \A v \in Known : v.balance = balance /\ v.payments = payments
<1>1. stream = <<>> /\ follower = View(balance, payments, lock)
  BY DEF CaughtUp, Latest
<1>2. Known = {follower}
  BY <1>1 DEF Known
<1>3. QED
  BY <1>1, <1>2 DEF View

\* The fields of a view.
LEMMA ViewFields ==
  ASSUME NEW b, NEW p, NEW k
  PROVE  View(b, p, k).balance = b /\ View(b, p, k).payments = p
BY DEF View

\* A step reads no more balances than were left to read, unless it starts a
\* session or a maintenance run, which only happens on a fresh follower.
LEMMA ControlKinds ==
  ASSUME TypeOK, ProcessInv, [Next]_vars
  PROVE  \/ /\ Unread' \subseteq Unread
            /\ pc' = "readPending" => pc = "readPending"
         \/ CaughtUp /\ UNCHANGED <<leader, replica>>
<1> USE DEF Unread, Goto, HaltSession
<1>1. CASE StartNormal \/ StartResolve \/ Tick
  BY <1>1 DEF StartNormal, StartResolve, Tick
<1>2. CASE CheckPending \/ CheckLock
  BY <1>2 DEF CheckPending, CheckLock, TypeOK, ProcessInv
<1>3. CASE NextPayee \/ EndSession
  BY <1>3 DEF NextPayee, EndSession
<1>4. CASE CheckFunds \/ Confirmed
  BY <1>4 DEF CheckFunds, Confirmed
<1>5. CASE Lock \/ Debit \/ Record
  BY <1>5 DEF Lock, Debit, Record
<1>6. CASE Send
  BY <1>6 DEF Send, SendFails
<1>7. CASE ReadPending \/ Rollback \/ Unlock
  BY <1>7 DEF ReadPending, Rollback, Unlock
<1>8. CASE Stop \/ Crash
  BY <1>8 DEF Stop, Crash, Exit
<1>9. CASE Replicate \/ Mine \/ UNCHANGED vars
  BY <1>9 DEF Replicate, Mine, vars, process
<1>10. CASE \E reward \in Rewards : Credit(reward)
  BY <1>10 DEF Credit, process
<1>11. QED
  BY <1>1, <1>2, <1>3, <1>4, <1>5, <1>6, <1>7, <1>8, <1>9, <1>10
  DEF Next, Payout, Session, Resolution

\* Every step preserves what the process may read from the replica.
LEMMA ReplicaStep ==
  ASSUME ~Lagging, IInv, [Next]_vars
  PROVE  ReplicaInv'
<1>1. TypeOK /\ ReplicaInv /\ ProcessInv /\ BooksInv /\ TypeOK'
  BY TypeStep DEF IInv
<1>2. /\ balance \in [Accounts -> Int] /\ balance' \in [Accounts -> Int]
      /\ stream \in Seq(Views) /\ Logins \subseteq Accounts
      /\ Unread \subseteq Logins /\ Unread' \subseteq Logins
  BY <1>1 DEF TypeOK, Accounts, Unread
<1>3. \A v \in Known, l \in Unread : v.balance[l] <= balance[l]
  BY <1>1 DEF ReplicaInv
<1>4. CASE CaughtUp /\ UNCHANGED <<leader, replica>>
  <2>1. \A v \in Known : v.balance = balance /\ v.payments = payments
    BY <1>1, <1>4, KnownWhenCaughtUp DEF ReplicaInv
  <2>2. Known' = Known /\ Latest' = Latest
    BY <1>4, KnownUnchanged
  <2>3. balance' = balance /\ payments' = payments /\ lock' = lock
    BY <1>4 DEF leader
  <2>4. QED
    BY <1>1, <1>2, <2>1, <2>2, <2>3 DEF ReplicaInv
<1>5. CASE /\ Unread' \subseteq Unread
           /\ pc' = "readPending" => pc = "readPending"
  <2>1. CASE Unmoved \/ Transfers \/ Strays
    <3>1. Latest' = Latest /\ \A v \in Known' : v \in Known
      BY <1>2, <2>1, KnownUnchanged, KnownAfterReplicate DEF Unmoved, Transfers, Strays
    <3>2. balance' = balance /\ payments' = payments /\ lock' = lock
      BY <2>1 DEF leader, Unmoved, Transfers, Strays
    <3>3. QED
      BY <1>1, <1>5, <3>1, <3>2 DEF ReplicaInv
  <2>2. ASSUME Replicated,
               \A l \in Unread' : balance[l] <= balance'[l],
               pc' = "readPending" => payments' = payments
        PROVE  ReplicaInv'
    <3> DEFINE new == View(balance', payments', lock')
    <3>1. Latest' = new /\ \A v \in Known' : v \in Known \/ v = new
      BY <1>2, <2>2, KnownAfterWrite
    <3>2. new.balance = balance' /\ new.payments = payments'
      BY ViewFields
    <3>3. \A v \in Known : v \in Views
      BY <1>1 DEF Known, TypeOK
    <3>4. ASSUME NEW v \in Known', NEW l \in Unread'
          PROVE  v.balance[l] <= balance'[l]
      <4>1. l \in Accounts /\ balance[l] \in Int /\ balance'[l] \in Int
        BY <1>2, <3>4
      <4>2. CASE v = new
        BY <3>2, <4>1, <4>2
      <4>3. CASE v \in Known
        <5>1. v.balance[l] \in Int
          BY <3>3, <4>1, <4>3 DEF Views
        <5>2. v.balance[l] <= balance[l] /\ balance[l] <= balance'[l]
          BY <1>3, <1>5, <2>2, <3>4, <4>3
        <5>3. QED
          BY <4>1, <5>1, <5>2
      <4>4. QED
        BY <3>1, <3>4, <4>2, <4>3
    <3>5. ASSUME pc' = "readPending", NEW v \in Known'
          PROVE  v.payments = payments'
      BY <1>1, <1>5, <2>2, <3>1, <3>2, <3>5 DEF ReplicaInv
    <3>6. QED
      BY <3>1, <3>4, <3>5 DEF ReplicaInv
  <2>3. CASE \/ pc = "lock" /\ LockPayouts
             \/ pc = "unlock" /\ UnlockPayouts
    BY <1>2, <2>2, <2>3 DEF LockPayouts, UnlockPayouts
  <2>4. CASE pc = "debit" /\ UpdateBalance
    <3>1. pay \in Payment /\ Unread = todo /\ pay.login \notin todo
      BY <1>1, <2>4, NoPaymentAssumption DEF TypeOK, ProcessInv, Holding, Unread
    <3>2. \A l \in Unread' : balance'[l] = balance[l]
      BY <1>1, <1>2, <1>5, <2>4, <3>1, UpdateBalanceEffect
    <3>3. QED
      BY <1>2, <1>5, <2>2, <2>4, <3>2 DEF UpdateBalance
  <2>5. CASE pc = "rollback" /\ \E p \in rollback : CreditBack(p)
    <3>1. Unread = {}
      BY <1>1, <2>5 DEF ProcessInv, Unread
    <3>2. QED
      BY <1>5, <2>2, <2>5, <3>1 DEF CreditBack, RollbackBalance
  <2>6. CASE pc = "record" /\ WritePayment
    BY <1>2, <1>5, <2>2, <2>6 DEF WritePayment
  <2>7. CASE \E reward \in Rewards : Credit(reward)
    <3>1. PICK reward \in Rewards : Credit(reward)
      BY <2>7
    <3>2. \A l \in Logins : reward[l] \in Nat
      BY RewardType
    <3>3. \A m \in Unread' : balance[m] <= balance'[m]
      BY <1>1, <1>2, <3>1, <3>2, CreditEffect
    <3>4. QED
      BY <2>2, <3>1, <3>3 DEF Credit
  <2>8. \/ Unmoved \/ Transfers \/ Strays
        \/ pc = "lock" /\ LockPayouts
        \/ pc = "unlock" /\ UnlockPayouts
        \/ pc = "debit" /\ UpdateBalance
        \/ pc = "record" /\ WritePayment
        \/ pc = "rollback" /\ (\E p \in rollback : CreditBack(p))
        \/ \E reward \in Rewards : Credit(reward)
    BY <1>1, StepKinds, Zenon
  <2>9. QED
    BY <2>1, <2>3, <2>4, <2>5, <2>6, <2>7, <2>8, Zenon
<1>6. QED
  BY <1>1, <1>4, <1>5, ControlKinds

-----------------------------------------------------------------------------
(* The process *)

\* At a label that holds no payment there is little to preserve.
LEMMA AtRest ==
  ASSUME pc' \in {"off", "checkPending", "checkLock", "refused", "resolved",
                  "idle", "payee"},
         pc' \notin {"idle", "payee"} => todo' = {},
         pay' = NoPayment,
         txHash' = 0
  PROVE  ProcessInv'
BY DEF ProcessInv, Holding

\* A session that halts leaves the process with nothing in hand.
LEMMA HaltedAtRest ==
  ASSUME HaltSession
  PROVE  ProcessInv'
BY AtRest DEF HaltSession

\* The steps of a session.
LEMMA SessionStep ==
  ASSUME ~Lagging, IInv, Session
  PROVE  ProcessInv'
<1>1. TypeOK /\ ReplicaInv /\ ProcessInv /\ BooksInv
  BY DEF IInv
<1> USE DEF Goto
<1>2. \A m \in Logins : /\ balance[m] \in Int /\ pending[m] \in Int
                        /\ paid[m] \in Int /\ sent[m] \in Nat /\ astray[m] \in Nat
  BY <1>1 DEF TypeOK, Accounts
<1>3. CASE CheckPending \/ CheckLock \/ EndSession \/ Tick
  <2>1. txHash = 0 /\ pay = NoPayment
    BY <1>1, <1>3 DEF ProcessInv, Holding, CheckPending, CheckLock, EndSession, Tick
  <2>2. CASE CheckPending
    BY <1>1, <2>1, <2>2, AtRest DEF ProcessInv, CheckPending
  <2>3. CASE EndSession
    BY <2>1, <2>3, AtRest DEF EndSession
  <2>4. CASE CheckLock /\ pc' = "refused"
    BY <1>1, <2>1, <2>4, AtRest DEF ProcessInv, CheckLock
  <2>5. CASE (CheckLock /\ pc' = "payee") \/ Tick
    BY <1>1, <2>1, <2>5, AtRest DEF CheckLock, Tick
  <2>6. QED
    BY <1>3, <2>2, <2>3, <2>4, <2>5 DEF CheckLock
<1>4. CASE NextPayee
  <2>1. txHash' = 0 /\ pay = NoPayment
    BY <1>1, <1>4 DEF ProcessInv, Holding, NextPayee
  <2>2. PICK l \in todo :
          /\ todo' = todo \ {l}
          /\ \/ /\ ReachedThreshold(follower.balance[l])
                /\ pay' = [login |-> l, amount |-> follower.balance[l]]
                /\ pc' = "funds"
             \/ pay' = pay /\ pc' = pc
    BY <1>4 DEF NextPayee
  <2>3. CASE pay' = pay /\ pc' = pc
    BY <1>4, <2>1, <2>3, AtRest DEF NextPayee
  <2>4. CASE /\ ReachedThreshold(follower.balance[l])
             /\ pay' = [login |-> l, amount |-> follower.balance[l]]
             /\ pc' = "funds"
    <3>1. follower \in Known /\ l \in Unread
      BY <1>4 DEF Known, Unread, NextPayee
    <3>2. follower.balance[l] <= balance[l] /\ balance' = balance
      BY <1>1, <1>4, <3>1 DEF ReplicaInv, NextPayee, leader
    <3>3. pay'.login = l /\ pay'.amount = follower.balance[l]
      BY <2>4
    <3>4. QED
      BY <2>1, <2>2, <2>4, <3>2, <3>3 DEF ProcessInv, Holding
  <2>5. QED
    BY <2>2, <2>3, <2>4
<1>5. CASE CheckFunds
  <2>1. CASE HaltSession
    BY <2>1, HaltedAtRest
  <2>2. CASE pc' = "lock" /\ UNCHANGED <<todo, pay, txHash, rollback>>
    BY <1>1, <1>5, <2>2 DEF ProcessInv, Holding, CheckFunds, leader, ReachedThreshold
  <2>3. QED
    BY <1>5, <2>1, <2>2 DEF CheckFunds
<1>6. CASE Lock
  <2>1. CASE HaltSession
    BY <2>1, HaltedAtRest
  <2>2. CASE /\ lock = NoPayment /\ LockPayouts
             /\ pc' = "debit" /\ UNCHANGED <<todo, pay, txHash, rollback>>
    <3>1. payments = {}
      BY <1>1, <2>2, NoPaymentAssumption DEF TypeOK, BooksInv, PendingIsLocked
    <3>2. QED
      BY <1>1, <1>6, <2>2, <3>1
      DEF ProcessInv, Holding, Lock, LockPayouts, ReachedThreshold
  <2>3. QED
    BY <1>6, <2>1, <2>2 DEF Lock
<1>7. CASE Debit
  <2>1. CASE HaltSession
    BY <2>1, HaltedAtRest
  <2>2. CASE /\ UpdateBalance
             /\ pc' = "send" /\ UNCHANGED <<todo, pay, txHash, rollback>>
    <3>1. /\ payments = {} /\ lock = pay /\ pay.login \notin todo /\ txHash = 0
          /\ pay \in Payment /\ pay.login \in Logins
      BY <1>1, <1>7 DEF ProcessInv, Holding, Debit, TypeOK, Payment
    <3>2. pending[pay.login] = 0 /\ sent[pay.login] = paid[pay.login] + astray[pay.login]
      BY <1>1, <1>2, <3>1, NothingListed DEF BooksInv, SentIsAccounted
    <3>3. /\ payments' = {pay} /\ lock' = pay /\ paid' = paid
          /\ sent' = sent /\ astray' = astray
      BY <1>7, <2>2, <3>1 DEF UpdateBalance, Debit, chain
    <3>4. QED
      BY <2>2, <3>1, <3>2, <3>3 DEF ProcessInv, Holding
  <2>3. QED
    BY <1>7, <2>1, <2>2 DEF Debit
<1>8. CASE Send
  <2>1. /\ payments = {pay} /\ lock = pay /\ pay.login \notin todo /\ txHash = 0
        /\ pay \in Payment /\ pay.login \in Logins /\ pay.amount \in Nat
        /\ sent[pay.login] = paid[pay.login] + astray[pay.login]
    BY <1>1, <1>8 DEF ProcessInv, Holding, Send, TypeOK, Payment
  <2>2. payments' = payments /\ lock' = lock /\ paid' = paid
    BY <1>8 DEF Send, leader
  <2>3. CASE HaltSession
    BY <2>3, HaltedAtRest
  <2>4. CASE Broadcast /\ pc' = "wait" /\ UNCHANGED <<todo, pay, astray>>
    <3>1. sent'[pay.login] = sent[pay.login] + pay.amount
      BY <1>1, <2>1, <2>4 DEF TypeOK, Broadcast
    <3>2. QED
      BY <2>1, <2>2, <2>4, <3>1 DEF ProcessInv, Holding
  <2>5. CASE pc' = "wait" /\ UNCHANGED <<todo, pay, txHash>>
    BY <2>1, <2>2, <2>5 DEF ProcessInv, Holding
  <2>6. CASE pc' = "resend" /\ UNCHANGED <<todo, pay, txHash, sent, astray>>
    BY <2>1, <2>2, <2>6 DEF ProcessInv, Holding
  <2>7. CASE Broadcast /\ GiveUp(pay) /\ pc' = "resend" /\ UNCHANGED <<todo, pay, txHash>>
    <3>1. sent'[pay.login] = paid[pay.login] + astray'[pay.login]
      BY <1>1, <1>2, <2>1, <2>7 DEF TypeOK, Broadcast, GiveUp
    <3>2. QED
      BY <2>1, <2>2, <2>7, <3>1 DEF ProcessInv, Holding
  <2>8. QED
    BY <1>8, <2>3, <2>4, <2>5, <2>6, <2>7 DEF Send, SendFails, chain
<1>9. CASE Confirmed
  <2>1. txHash # 0
    BY <1>1, <1>9 DEF Confirmed, TypeOK
  <2>2. QED
    BY <1>1, <1>9, <2>1 DEF ProcessInv, Holding, Confirmed, leader, chain
<1>10. CASE Record
  <2>1. CASE HaltSession
    BY <2>1, HaltedAtRest
  <2>2. CASE pc' = "payee" /\ pay' = NoPayment /\ txHash' = 0
    BY <2>2, AtRest
  <2>3. QED
    BY <1>10, <2>1, <2>2 DEF Record
<1>11. QED
  BY <1>3, <1>4, <1>5, <1>6, <1>7, <1>8, <1>9, <1>10 DEF Session

\* The steps of a maintenance run.
LEMMA ResolutionStep ==
  ASSUME IInv, Resolution \/ StartResolve
  PROVE  ProcessInv'
<1>1. /\ TypeOK /\ ReplicaInv /\ ProcessInv /\ BooksInv
      /\ todo = {} /\ pay = NoPayment /\ txHash = 0
  BY DEF IInv, ProcessInv, Holding, Resolution, StartResolve, ReadPending,
    Rollback, Unlock
<1> USE DEF Goto
<1>2. CASE StartResolve
  BY <1>1, <1>2 DEF ProcessInv, Holding, StartResolve, leader, chain
<1>3. CASE ReadPending
  <2>1. follower.payments = payments
    BY <1>1, <1>3 DEF ReplicaInv, Known, ReadPending
  <2>2. /\ todo' = todo /\ pay' = pay /\ txHash' = txHash
        /\ payments' = payments
        /\ \/ pc' = "resolved"
           \/ pc' = "rollback" /\ rollback' = payments
    BY <1>3, <2>1 DEF ReadPending, SeenPending, leader, chain
  <2>3. CASE pc' = "resolved"
    BY <1>1, <2>2, <2>3, AtRest
  <2>4. CASE pc' = "rollback" /\ rollback' = payments
    BY <1>1, <2>2, <2>4 DEF ProcessInv, Holding
  <2>5. QED
    BY <2>2, <2>3, <2>4
<1>4. CASE Rollback
  <2>1. CASE pc' = "refused"
    BY <1>1, <1>4, <2>1, AtRest DEF Rollback
  <2>2. CASE \E p \in rollback :
               /\ CreditBack(p)
               /\ rollback' = rollback \ {p}
               /\ pc' = IF rollback = {p} THEN "unlock" ELSE "rollback"
    <3>1. PICK p \in rollback :
               /\ CreditBack(p)
               /\ rollback' = rollback \ {p}
               /\ pc' = IF rollback = {p} THEN "unlock" ELSE "rollback"
      BY <2>2
    <3>2. p \in payments /\ rollback \subseteq payments
      BY <1>1, <1>4, <3>1 DEF ProcessInv, Rollback
    <3>3. payments = {p}
      BY <1>1, <3>2, ListedAmount DEF BooksInv
    <3>4. /\ payments' = {}
          /\ todo' = todo /\ pay' = pay /\ txHash' = txHash
      BY <1>4, <3>1, <3>3 DEF CreditBack, RollbackBalance, Rollback
    <3>5. QED
      BY <1>1, <3>1, <3>2, <3>3, <3>4 DEF ProcessInv, Holding
  <2>3. QED
    BY <1>4, <2>1, <2>2 DEF Rollback
<1>5. CASE Unlock
  BY <1>1, <1>5, AtRest DEF Unlock
<1>6. QED
  BY <1>2, <1>3, <1>4, <1>5 DEF Resolution

\* Every step preserves what the process relies on.
LEMMA ProcessStep ==
  ASSUME ~Lagging, IInv, [Next]_vars
  PROVE  ProcessInv'
<1>1. TypeOK /\ ReplicaInv /\ ProcessInv /\ BooksInv /\ TypeOK'
  BY TypeStep DEF IInv
<1>2. CASE Session
  BY <1>2, SessionStep
<1>3. CASE Resolution \/ StartResolve
  BY <1>3, ResolutionStep
<1>4. CASE StartNormal
  BY <1>1, <1>4, AtRest DEF StartNormal, Goto, ProcessInv, Holding
<1>5. CASE Stop \/ Crash
  BY <1>5, AtRest DEF Stop, Crash, Exit
<1>6. CASE UNCHANGED vars \/ Replicate
  BY <1>1, <1>6 DEF ProcessInv, Holding, ReachedThreshold, vars,
    Replicate, leader, process, chain
<1>7. CASE Mine
  BY <1>1, <1>7 DEF ProcessInv, Holding, ReachedThreshold, Mine,
    leader, process
<1>8. CASE \E reward \in Rewards : Credit(reward)
  <2>1. PICK reward \in Rewards : Credit(reward)
    BY <1>8
  <2>2. \A l \in Logins : reward[l] \in Nat
    BY RewardType
  <2>3. \A m \in Logins : balance[m] <= balance'[m]
    <3>1. \A m \in Logins : balance[m] \in Int
      BY <1>1 DEF TypeOK, Accounts
    <3>2. QED
      BY <1>1, <2>1, <2>2, <3>1, CreditEffect
  <2>4. /\ paid' = paid /\ payments' = payments /\ lock' = lock
        /\ pc' = pc /\ todo' = todo /\ pay' = pay /\ txHash' = txHash
        /\ rollback' = rollback /\ sent' = sent /\ mined' = mined /\ astray' = astray
    BY <2>1 DEF Credit, process, chain
  <2>5. pc \in {"funds", "lock", "debit"} => pay.amount <= balance'[pay.login]
    <3>1. SUFFICES ASSUME pc \in {"funds", "lock", "debit"}
                   PROVE  pay.amount <= balance'[pay.login]
      OBVIOUS
    <3>2. /\ pay.login \in Logins /\ pay.amount \in Int
          /\ balance[pay.login] \in Int /\ balance'[pay.login] \in Int
          /\ pay.amount <= balance[pay.login]
      BY <1>1, <3>1 DEF TypeOK, ProcessInv, Holding, Payment, Accounts
    <3>3. QED
      BY <2>3, <3>2
  <2>6. QED
    BY <1>1, <2>4, <2>5 DEF ProcessInv, Holding, ReachedThreshold
<1>9. QED
  BY <1>2, <1>3, <1>4, <1>5, <1>6, <1>7, <1>8 DEF Next, Payout

-----------------------------------------------------------------------------
(* The theorems *)

\* The inductive invariant holds initially.
LEMMA IInvInit == Init => IInv
<1> SUFFICES ASSUME Init PROVE IInv
  OBVIOUS
<1>1. TypeOK
  BY TypeInit
<1>2. ReplicaInv
  <2>1. Known = {follower} /\ Latest = follower
    BY DEF Init, Known, Latest
  <2>2. QED
    BY <2>1 DEF Init, ReplicaInv, Unread
<1>3. ProcessInv
  BY DEF Init, ProcessInv, Holding
<1>4. BooksInv
  BY NoPaymentAssumption DEF Init, BooksInv, Conservation, PendingIsLocked,
    PendingIsListed, SentIsAccounted, Zero, Accounts
<1>5. QED
  BY <1>1, <1>2, <1>3, <1>4 DEF IInv

\* The inductive invariant.
THEOREM Invariance == ASSUME ~Lagging PROVE Spec => []IInv
<1>1. IInv /\ [Next]_vars => IInv'
  BY TypeStep, BooksStep, ReplicaStep, ProcessStep DEF IInv
<1>2. QED
  BY <1>1, IInvInit, PTL DEF Spec

\* At most one payment is unresolved; the lock, its row and the pending amount
\* agree on it.
THEOREM OnePaymentAtATime == ASSUME ~Lagging PROVE Spec => []OnePending
<1>1. IInv => OnePending
  BY DEF IInv, BooksInv, OnePending
<1>2. QED
  BY <1>1, Invariance, PTL

\* What the chain transferred to a miner is what the books record as paid, plus
\* the pending payment when that one is out, plus what process or resolvePayouts
\* gave up on (payer.go:189 and 297).
THEOREM BooksMatchChain == ASSUME ~Lagging PROVE Spec => []SentIsAccounted
<1>1. IInv => SentIsAccounted
  BY DEF IInv, BooksInv
<1>2. QED
  BY <1>1, Invariance, PTL

\* What a miner received and what it still has is at most what it was credited and
\* what went astray, and no balance is overdrawn.
THEOREM NobodyIsOverpaid == ASSUME ~Lagging PROVE Spec => []NeverOverpaid
<1>1. IInv => NeverOverpaid
  <2> SUFFICES ASSUME IInv, NEW l \in Logins
               PROVE  balance[l] >= 0 /\ sent[l] + balance[l] <= credited[l] + astray[l]
    BY DEF NeverOverpaid
  <2>1. /\ balance[l] \in Int /\ pending[l] \in Int /\ paid[l] \in Int
        /\ sent[l] \in Nat /\ credited[l] \in Nat /\ astray[l] \in Nat
    BY DEF IInv, TypeOK, Accounts
  <2>2. /\ balance[l] >= 0 /\ balance[l] + pending[l] + paid[l] = credited[l]
        /\ sent[l] - astray[l] - paid[l] \in {0, pending[l]}
    BY DEF IInv, BooksInv, Conservation, SentIsAccounted
  <2>3. pending[l] >= 0
    <3>1. payments \subseteq Payment /\ PendingIsListed
      BY DEF IInv, TypeOK, BooksInv
    <3>2. lock \in payments => lock.amount >= 0
      BY <3>1 DEF Payment
    <3>3. QED
      BY <3>1, <3>2 DEF PendingIsListed
  <2>4. QED
    BY <2>1, <2>2, <2>3
<1>2. QED
  BY <1>1, Invariance, PTL

\* Nothing is broadcast but the payment the leader has locked and listed.
THEOREM SendsAreLocked == ASSUME ~Lagging PROVE Spec => SendsUnderLock
<1>1. IInv /\ [Next]_vars => [sent' # sent => lock = pay /\ pay \in payments]_vars
  <2> SUFFICES ASSUME IInv, [Next]_vars, sent' # sent
               PROVE  lock = pay /\ pay \in payments
    OBVIOUS
  <2>1. Transfers \/ Strays
    BY StepKinds DEF IInv, Unmoved, Credit, chain
  <2>2. QED
    BY <2>1 DEF IInv, ProcessInv, Transfers, Strays
<1>2. QED
  BY <1>1, Invariance, PTL DEF Spec, SendsUnderLock

-----------------------------------------------------------------------------
(* The contract *)

\* The mapping to the contract, read miner by miner.
LEMMA BooksByMiner ==
  /\ Available = [l \in Logins |-> Available[l]]
  /\ Reserved = [l \in Logins |-> Reserved[l]]
  /\ Settled = [l \in Logins |-> Settled[l]]
  /\ \A l \in Logins : /\ Available[l] = balance[l] /\ Reserved[l] = pending[l]
                       /\ Settled[l] = paid[l]
BY DEF Available, Reserved, Settled

\* The same in the next state.
LEMMA BooksByMinerNext ==
  /\ Available' = [l \in Logins |-> Available'[l]]
  /\ Reserved' = [l \in Logins |-> Reserved'[l]]
  /\ Settled' = [l \in Logins |-> Settled'[l]]
  /\ \A l \in Logins : /\ Available'[l] = balance'[l] /\ Reserved'[l] = pending'[l]
                       /\ Settled'[l] = paid'[l]
BY DEF Available, Reserved, Settled

\* One step, miner by miner, is a step of the contract or none.
LEMMA ContractStep ==
  ASSUME IInv, [Next]_vars
  PROVE  [Contract!Next]_(Contract!vars)
<1>1. /\ TypeOK /\ ProcessInv /\ Conservation /\ PendingIsLocked
      /\ PendingIsListed /\ SentIsAccounted
  BY DEF IInv, BooksInv
<1>2. \A m \in Logins : /\ balance[m] \in Int /\ pending[m] \in Int
                        /\ paid[m] \in Int /\ sent[m] \in Nat /\ astray[m] \in Nat
  BY <1>1 DEF TypeOK, Accounts
<1>3. sent \in [Logins -> Nat] /\ astray \in [Logins -> Nat]
  BY <1>1 DEF TypeOK
<1> USE DEF Contract!InFlight
<1>4. CASE \/ Unmoved
           \/ LockPayouts /\ UNCHANGED <<sent, astray, credited>>
           \/ UnlockPayouts /\ UNCHANGED <<sent, astray, credited>>
  BY <1>4 DEF Unmoved, LockPayouts, UnlockPayouts, leader, Contract!vars,
    Available, Reserved, Settled
<1>5. CASE pc = "debit" /\ UpdateBalance /\ UNCHANGED <<sent, astray, credited>>
  <2>1. /\ pay \in Payment /\ pay.login \in Logins /\ pay.amount \in Nat \ {0}
        /\ payments = {} /\ pay.amount <= balance[pay.login]
        /\ Threshold < pay.amount
    BY <1>1, <1>5 DEF TypeOK, ProcessInv, Holding, Payment, ReachedThreshold
  <2>2. \A m \in Logins : pending[m] = 0
    BY <1>1, <2>1, NothingListed
  <2>3. \A m \in Logins :
          /\ balance'[m] = IF m = pay.login THEN balance[m] - pay.amount ELSE balance[m]
          /\ pending'[m] = IF m = pay.login THEN pay.amount ELSE 0
          /\ paid'[m] = paid[m]
    BY <1>1, <1>5, <2>1, <2>2, UpdateBalanceEffect
  <2>4. pay.amount \in Threshold + 1 .. Available[pay.login]
    BY <1>2, <2>1, ThresholdAssumption, BooksByMiner
  <2>5. /\ Reserved = Contract!Nobody
        /\ Available' = [Available EXCEPT ![pay.login] = @ - pay.amount]
        /\ Reserved' = [Reserved EXCEPT ![pay.login] = pay.amount]
        /\ Settled' = Settled /\ sent' = sent /\ astray' = astray
    BY <1>5, <2>1, <2>2, <2>3, BooksByMiner, BooksByMinerNext DEF Contract!Nobody
  <2>6. \E l \in Logins : Contract!Reserve(l)
    BY <2>1, <2>4, <2>5 DEF Contract!Reserve
  <2>7. QED
    BY <2>1, <2>6 DEF Contract!Next
<1>6. CASE /\ pc = "rollback"
           /\ \E p \in rollback : CreditBack(p)
           /\ UNCHANGED <<sent, credited>>
  <2>1. PICK p \in rollback : CreditBack(p)
    BY <1>6
  <2>2. p \in payments /\ RollbackBalance(p)
    BY <1>1, <1>6, <2>1 DEF ProcessInv, CreditBack
  <2>3. /\ p \in Payment /\ p.login \in Logins /\ p.amount \in Nat \ {0}
        /\ pending[p.login] = p.amount
    BY <1>1, <2>2, ListedAmount DEF Payment
  <2>4. \A m \in Logins :
          /\ balance'[m] = IF m = p.login THEN balance[m] + p.amount ELSE balance[m]
          /\ pending'[m] = IF m = p.login THEN 0 ELSE pending[m]
          /\ paid'[m] = paid[m]
    BY <1>1, <1>2, <2>2, <2>3, RollbackBalanceEffect
  <2>5. /\ Available' = [Available EXCEPT ![p.login] = @ + Reserved[p.login]]
        /\ Reserved' = [Reserved EXCEPT ![p.login] = 0]
        /\ Settled' = Settled /\ sent' = sent
        /\ Reserved[p.login] > 0 /\ Reserved[p.login] = p.amount
    BY <1>6, <2>3, <2>4, BooksByMiner, BooksByMinerNext
  <2>6. PICK n \in {0, p.amount} :
          /\ n = sent[p.login] - paid[p.login] - astray[p.login]
          /\ astray' = [astray EXCEPT ![p.login] = @ + n]
    BY <1>1, <2>1, <2>2, CreditBackEffect
  <2>7. n = sent[p.login] - Settled[p.login] - astray[p.login]
    BY <2>3, <2>6, BooksByMiner
  <2>8. Contract!Refund(p.login)
    BY <2>5, <2>6, <2>7 DEF Contract!Refund
  <2>9. QED
    BY <2>3, <2>8 DEF Contract!Next
<1>7. CASE pc = "record" /\ WritePayment /\ UNCHANGED <<sent, astray, credited>>
  <2>1. /\ pay \in Payment /\ pay.login \in Logins /\ pay.amount \in Nat \ {0}
        /\ pay \in payments
        /\ sent[pay.login] = paid[pay.login] + astray[pay.login] + pay.amount
    BY <1>1, <1>7 DEF TypeOK, ProcessInv, Holding, Payment
  <2>2. pending[pay.login] = pay.amount
    BY <1>1, <2>1, ListedAmount
  <2>3. \A m \in Logins :
          /\ pending'[m] = IF m = pay.login THEN 0 ELSE pending[m]
          /\ paid'[m] = IF m = pay.login THEN paid[m] + pay.amount ELSE paid[m]
          /\ balance'[m] = balance[m]
    BY <1>1, <1>2, <1>7, <2>1, <2>2, WritePaymentEffect
  <2>4. /\ Settled' = [Settled EXCEPT ![pay.login] = @ + Reserved[pay.login]]
        /\ Reserved' = [Reserved EXCEPT ![pay.login] = 0]
        /\ Available' = Available /\ sent' = sent /\ astray' = astray
        /\ Reserved[pay.login] > 0
        /\ sent[pay.login] - Settled[pay.login] - astray[pay.login] = Reserved[pay.login]
    BY <1>2, <1>7, <2>1, <2>2, <2>3, BooksByMiner, BooksByMinerNext
  <2>5. \E l \in Logins : Contract!Settle(l)
    BY <2>1, <2>4 DEF Contract!Settle
  <2>6. QED
    BY <2>1, <2>5 DEF Contract!Next
<1>8. CASE \E reward \in Rewards : Credit(reward)
  <2>1. PICK reward \in Rewards : Credit(reward)
    BY <1>8
  <2>2. /\ Available' = [l \in Logins |-> Available[l] + reward[l]]
        /\ Reserved' = Reserved /\ Settled' = Settled
    BY <1>1, <2>1, CreditEffect, BooksByMiner, BooksByMinerNext
  <2>3. sent' = sent /\ astray' = astray
    BY <2>1 DEF Credit, chain
  <2>4. Contract!Earn(reward)
    BY <2>2, <2>3 DEF Contract!Earn
  <2>5. QED
    BY <2>4 DEF Contract!Next
<1>9. CASE Transfers \/ Strays
  <2>1. /\ pay \in Payment /\ pay.login \in Logins /\ pay.amount \in Nat \ {0}
        /\ pay \in payments /\ sent[pay.login] = paid[pay.login] + astray[pay.login]
    BY <1>1, <1>9 DEF Transfers, Strays, TypeOK, ProcessInv, Holding, Payment
  <2>2. pending[pay.login] = pay.amount
    BY <1>1, <2>1, ListedAmount
  <2>3. Reserved[pay.login] = pay.amount /\ Settled[pay.login] = paid[pay.login]
    BY <2>1, <2>2, BooksByMiner
  <2>4. /\ Available' = Available /\ Reserved' = Reserved /\ Settled' = Settled
        /\ sent' = [sent EXCEPT ![pay.login] = @ + Reserved[pay.login]]
    BY <1>9, <2>3
    DEF Transfers, Strays, Broadcast, leader, Available, Reserved, Settled
  <2>5. /\ Reserved[pay.login] > 0
        /\ sent[pay.login] - Settled[pay.login] - astray[pay.login] = 0
    BY <1>2, <2>1, <2>3
  <2>6. CASE Transfers
    <3>1. Contract!Transfer(pay.login)
      BY <2>4, <2>5, <2>6 DEF Contract!Transfer, Transfers
    <3>2. QED
      BY <2>1, <3>1 DEF Contract!Next
  <2>7. CASE Strays
    <3>1. astray' = [astray EXCEPT ![pay.login] = @ + Reserved[pay.login]]
      BY <2>3, <2>7 DEF Strays, GiveUp
    <3>2. Contract!Stray(pay.login)
      BY <2>4, <2>5, <3>1 DEF Contract!Stray
    <3>3. QED
      BY <2>1, <3>2 DEF Contract!Next
  <2>8. QED
    BY <1>9, <2>6, <2>7
<1>10. QED
  BY <1>1, <1>4, <1>5, <1>6, <1>7, <1>8, <1>9, StepKinds

\* The module implements its contract, whatever fails.
THEOREM Implementation == ASSUME ~Lagging PROVE Spec => ImplementsContract
<1>1. Init => Contract!Init
  BY DEF Init, Contract!Init, Contract!Nobody, Zero, Accounts, Available,
    Reserved, Settled
<1>2. IInv /\ [Next]_vars => [Contract!Next]_(Contract!vars)
  BY ContractStep
<1>3. QED
  BY <1>1, <1>2, Invariance, PTL DEF Spec, ImplementsContract, Contract!Spec
-----------------------------------------------------------------------------
(* The log *)

\* The hash finances is the sum of the miners'.
FinancesAdd(hash) == hash[Pool] = SumOf(hash)

\* HINCRBY of a miner and of the finances keeps that.
LEMMA FinancesHIncrBy ==
  ASSUME NEW hash \in [Accounts -> Int], FinancesAdd(hash), NEW l \in Logins, NEW n \in Int
  PROVE  FinancesAdd(HIncrBy(hash, l, n))
<1> DEFINE new == HIncrBy(hash, l, n)
<1>1. /\ new[l] = hash[l] + n /\ new[Pool] = hash[Pool] + n
      /\ \A m \in Logins \ {l} : new[m] = hash[m]
  BY LoginsAssumption DEF HIncrBy, Accounts
<1>2. new \in [Accounts -> Int]
  BY HIncrByType
<1>3. \A m \in Logins : hash[m] \in Int /\ new[m] \in Int
  BY <1>2 DEF Accounts
<1> HIDE DEF new
<1>4. SumFunctionOnSet(new, Logins) = SumFunctionOnSet(hash, Logins) + new[l] - hash[l]
  BY <1>1, <1>3, MinersAssumption, SumChange
<1>5. SumFunctionOnSet(hash, Logins) \in Int
  BY <1>3, MinersAssumption, SumType
<1>6. hash[Pool] = SumFunctionOnSet(hash, Logins)
  BY DEF FinancesAdd, SumOf
<1>7. hash[l] \in Int
  BY <1>3
<1>8. new[Pool] = SumFunctionOnSet(new, Logins)
  BY <1>1, <1>4, <1>5, <1>6, <1>7
<1>9. QED
  BY <1>8 DEF FinancesAdd, SumOf, new

Finances == FinancesAdd(balance) /\ FinancesAdd(pending) /\ FinancesAdd(paid)

\* Every write of the store changes a miner's hash and the finances alike.
LEMMA FinancesStep ==
  ASSUME TypeOK, Finances, [Next]_vars
  PROVE  Finances'
<1>1. /\ balance \in [Accounts -> Int] /\ pending \in [Accounts -> Int]
      /\ paid \in [Accounts -> Int]
  BY DEF TypeOK
<1>2. \A p \in Payment : p.login \in Logins /\ p.amount \in Int /\ -p.amount \in Int
  BY DEF Payment
<1>3. CASE Unmoved \/ Transfers \/ Strays \/ LockPayouts \/ UnlockPayouts
  <2>1. balance' = balance /\ pending' = pending /\ paid' = paid
    BY <1>3 DEF Unmoved, Transfers, Strays, LockPayouts, UnlockPayouts, leader
  <2>2. QED
    BY <2>1 DEF Finances, FinancesAdd, SumOf
<1>4. CASE pc = "debit" /\ UpdateBalance
  <2>1. pay \in Payment
    BY <1>4 DEF TypeOK, Holding
  <2>2. /\ balance' = HIncrBy(balance, pay.login, -pay.amount)
        /\ pending' = HIncrBy(pending, pay.login, pay.amount) /\ paid' = paid
    BY <1>4 DEF UpdateBalance
  <2>3. FinancesAdd(balance') /\ FinancesAdd(pending') /\ FinancesAdd(paid')
    BY <1>1, <1>2, <2>1, <2>2, FinancesHIncrBy DEF Finances
  <2>4. QED
    BY <2>3 DEF Finances, FinancesAdd, SumOf
<1>5. CASE pc = "rollback" /\ \E p \in rollback : CreditBack(p)
  <2>1. PICK p \in rollback : RollbackBalance(p)
    BY <1>5 DEF CreditBack
  <2>2. p \in Payment
    BY DEF TypeOK
  <2>3. /\ balance' = HIncrBy(balance, p.login, p.amount)
        /\ pending' = HIncrBy(pending, p.login, -p.amount) /\ paid' = paid
    BY <2>1 DEF RollbackBalance
  <2>4. FinancesAdd(balance') /\ FinancesAdd(pending') /\ FinancesAdd(paid')
    BY <1>1, <1>2, <2>2, <2>3, FinancesHIncrBy DEF Finances
  <2>5. QED
    BY <2>4 DEF Finances, FinancesAdd, SumOf
<1>6. CASE pc = "record" /\ WritePayment
  <2>1. pay \in Payment
    BY <1>6 DEF TypeOK, Holding
  <2>2. /\ pending' = HIncrBy(pending, pay.login, -pay.amount)
        /\ paid' = HIncrBy(paid, pay.login, pay.amount) /\ balance' = balance
    BY <1>6 DEF WritePayment
  <2>3. FinancesAdd(balance') /\ FinancesAdd(pending') /\ FinancesAdd(paid')
    BY <1>1, <1>2, <2>1, <2>2, FinancesHIncrBy DEF Finances
  <2>4. QED
    BY <2>3 DEF Finances, FinancesAdd, SumOf
<1>7. CASE \E reward \in Rewards : Credit(reward)
  <2>1. PICK reward \in Rewards : Credit(reward)
    BY <1>7
  <2>2. /\ \A l \in Logins : reward[l] \in Int /\ balance[l] \in Int
        /\ balance[Pool] \in Int /\ SumOf(reward) \in Int
    BY <1>1, RewardType DEF Accounts
  <2>3. /\ \A l \in Logins : balance'[l] = balance[l] + reward[l]
        /\ balance'[Pool] = balance[Pool] + SumOf(reward)
        /\ pending' = pending /\ paid' = paid
    BY <2>1, LoginsAssumption DEF Credit, Accounts
  <2>4. SumFunctionOnSet(balance', Logins)
          = SumFunctionOnSet(balance, Logins) + SumFunctionOnSet(reward, Logins)
    BY <2>2, <2>3, MinersAssumption, SumPlus
  <2>5. QED
    BY <2>3, <2>4 DEF Finances, FinancesAdd, SumOf
<1>8. QED
  BY <1>3, <1>4, <1>5, <1>6, <1>7, StepKinds

\* The hash in hand is one that the log does not have yet, until it is written;
\* it is mined when it is.
LogInv ==
  /\ IsFiniteSet(logged)
  /\ \A r \in logged : r.tx \in mined
  /\ \A r, s \in logged : r.tx = s.tx => r = s
  /\ \A l \in Logins : paid[l] = SumFunctionOnSet(LoggedAmount, LoggedFor(l))
  /\ pc \notin {"wait", "record"} => txHash = 0
  /\ txHash # 0 => \A r \in logged : r.tx # txHash
  /\ pc = "record" => txHash \in mined

KeepsHash ==
  /\ txHash' = txHash /\ (pc' = "record" => pc = "record" \/ txHash \in mined)
  /\ pc' \in {"wait", "record"} \/ pc \notin {"wait", "record"}

DropsHash == txHash' = 0 /\ pc' # "record"

TakesHash == txHash' = txs + 1 /\ pc' = "wait"

Logs == pc = "record" /\ WritePayment /\ mined' = mined /\ DropsHash

\* A step writes the log and drops the hash, or it leaves the log and drops the
\* hash, keeps it, or gets a new one.
LEMMA LogKinds ==
  ASSUME TypeOK, [Next]_vars
  PROVE  \/ Logs
         \/ /\ logged' = logged /\ paid' = paid /\ mined \subseteq mined'
            /\ KeepsHash \/ DropsHash \/ TakesHash
<1> USE DEF Logs, KeepsHash, DropsHash, TakesHash, leader, chain
<1>1. CASE Lock \/ Debit
  BY <1>1 DEF Lock, Debit, Failing, LockPayouts, UpdateBalance, Goto, HaltSession
<1>2. CASE Record
  BY <1>2 DEF Record, Failing, HaltSession
<1>3. CASE Rollback \/ Unlock
  BY <1>3 DEF Rollback, CreditBack, Unlock, Failing, RollbackBalance, UnlockPayouts, Goto
<1>4. CASE Send
  BY <1>4 DEF Send, SendFails, Broadcast, Goto, HaltSession
<1>5. CASE Replicate \/ UNCHANGED vars
  BY <1>5 DEF Replicate, vars, process
<1>6. CASE Mine
  BY <1>6 DEF Mine, process
<1>7. CASE Stop \/ Crash
  BY <1>7 DEF Stop, Crash, Exit
<1>8. CASE StartNormal \/ StartResolve
  BY <1>8 DEF StartNormal, StartResolve, Goto
<1>9. CASE CheckPending \/ CheckLock \/ Tick \/ NextPayee \/ EndSession
  BY <1>9 DEF CheckPending, CheckLock, Tick, NextPayee, EndSession, Goto
<1>10. CASE CheckFunds \/ Confirmed \/ ReadPending
  BY <1>10 DEF CheckFunds, Confirmed, ReadPending, Goto, HaltSession
<1>11. CASE \E reward \in Rewards : Credit(reward)
  BY <1>11 DEF Credit, process
<1>12. QED
  BY <1>1, <1>2, <1>3, <1>4, <1>5, <1>6, <1>7, <1>8, <1>9, <1>10, <1>11
  DEF Next, Payout, Session, Resolution

\* A row with a new hash is added for the miner it pays.
LEMMA LogGrows ==
  ASSUME TypeOK, LogInv, Logs
  PROVE  LogInv'
<1> DEFINE row == [tx |-> txHash, login |-> pay.login, amount |-> pay.amount]
<1>1. pay \in Payment /\ pc = "record" /\ WritePayment /\ mined' = mined
  BY DEF Logs, TypeOK, Holding
<1>2. logged' = logged \cup {row} /\ paid' = HIncrBy(paid, pay.login, pay.amount)
  BY <1>1 DEF WritePayment
<1>3. txHash \in mined /\ txHash # 0
  <2>1. txHash \in mined /\ mined \subseteq 1 .. txs /\ txs \in Nat
    BY <1>1 DEF LogInv, TypeOK
  <2>2. QED
    BY <2>1
<1>4. \A r \in logged : r.tx # txHash
  BY <1>3 DEF LogInv
<1>5. row \notin logged /\ row.tx = txHash /\ row.amount = pay.amount
  BY <1>4
<1>6. IsFiniteSet(logged) /\ IsFiniteSet(logged')
  <2>1. IsFiniteSet(logged)
    BY DEF LogInv
  <2>2. IsFiniteSet(logged \cup {row})
    BY <2>1, FS_AddElement
  <2>3. QED
    BY <1>2, <2>1, <2>2
<1>7. (\A r \in logged : r.tx \in mined)'
  BY <1>1, <1>2, <1>3, <1>5 DEF LogInv
<1>8. (\A r, s \in logged : r.tx = s.tx => r = s)'
  BY <1>2, <1>4, <1>5 DEF LogInv
<1>9. ASSUME NEW l \in Logins
      PROVE  paid'[l] = SumFunctionOnSet(LoggedAmount', (LoggedFor(l))')
  <2> DEFINE S == LoggedFor(l)
             f == LoggedAmount
             g == [r \in logged \cup {row} |-> r.amount]
             T == {r \in logged \cup {row} : r.login = l}
  <2>1. LoggedAmount' = g /\ (LoggedFor(l))' = T
    BY <1>2 DEF LoggedAmount, LoggedFor
  <2>2. \A r \in logged : r.amount \in Int
    BY DEF TypeOK
  <2>3. pay.amount \in Int /\ pay.login \in Logins
    BY <1>1 DEF Payment
  <2>4. S \subseteq logged /\ IsFiniteSet(S) /\ \A r \in S : f[r] \in Int /\ f[r] = g[r]
    <3>1. S \subseteq logged
      BY DEF LoggedFor
    <3>2. QED
      BY <1>6, <2>2, <3>1, FS_Subset DEF LoggedAmount
  <2>5. SumFunctionOnSet(f, S) = SumFunctionOnSet(g, S) /\ SumFunctionOnSet(f, S) \in Int
    <3> HIDE DEF S, f, g
    <3>1. QED
      BY <2>4, SumAgree, SumType
  <2>6. paid[l] = SumFunctionOnSet(f, S)
    BY DEF LogInv
  <2>7. paid'[l] = IF l = pay.login THEN paid[l] + pay.amount ELSE paid[l]
    BY <1>1, WritePaymentEffect
  <2>8. CASE l = pay.login
    <3>1. T = S \cup {row} /\ row \in T /\ T \ {row} = S
      BY <1>5, <2>8 DEF LoggedFor
    <3>2. IsFiniteSet(T)
      <4>1. IsFiniteSet(S \cup {row})
        BY <2>4, FS_AddElement
      <4>2. QED
        BY <3>1, <4>1
    <3>3. (\A r \in T : g[r] \in Int) /\ g[row] = pay.amount
      BY <1>5, <2>2, <2>3
    <3>4. SumFunctionOnSet(g, T) = g[row] + SumFunctionOnSet(g, S)
      <4>1. SumFunctionOnSet(g, T) = g[row] + SumFunctionOnSet(g, T \ {row})
        <5> DEFINE y == row
        <5>1. y \in T
          BY <3>1
        <5> HIDE DEF T, g, y
        <5>2. SumFunctionOnSet(g, T) = g[y] + SumFunctionOnSet(g, T \ {y})
          BY <3>2, <3>3, <5>1, SumSplit
        <5>3. QED
          BY <5>2 DEF y
      <4>2. QED
        BY <3>1, <4>1
    <3>5. paid'[l] = SumFunctionOnSet(g, T)
      <4> HIDE DEF S, T, f, g, row
      <4>1. QED
        BY <2>3, <2>5, <2>6, <2>7, <2>8, <3>3, <3>4
    <3>6. QED
      BY <2>1, <3>5
  <2>9. CASE l # pay.login
    <3>1. T = S
      BY <2>9 DEF LoggedFor
    <3>2. QED
      BY <2>1, <2>5, <2>6, <2>7, <2>9, <3>1
  <2>10. QED
    BY <2>8, <2>9
<1>10. (\A l \in Logins : paid[l] = SumFunctionOnSet(LoggedAmount, LoggedFor(l)))'
  BY <1>9
<1>11. txHash' = 0 /\ pc' # "record"
  BY DEF Logs, DropsHash
<1>12. QED
  BY <1>6, <1>7, <1>8, <1>10, <1>11 DEF LogInv

\* Every step keeps the log true.
LEMMA LogStep ==
  ASSUME TypeOK, LogInv, [Next]_vars
  PROVE  LogInv'
<1>1. CASE Logs
  BY <1>1, LogGrows
<1>2. CASE /\ logged' = logged /\ paid' = paid /\ mined \subseteq mined'
           /\ KeepsHash \/ DropsHash \/ TakesHash
  <2>1. /\ IsFiniteSet(logged') /\ (\A r \in logged : r.tx \in mined)'
        /\ (\A r, s \in logged : r.tx = s.tx => r = s)'
    BY <1>2 DEF LogInv
  <2>2. (\A l \in Logins : paid[l] = SumFunctionOnSet(LoggedAmount, LoggedFor(l)))'
    BY <1>2 DEF LogInv, LoggedAmount, LoggedFor
  <2>3. /\ pc' \notin {"wait", "record"} => txHash' = 0
        /\ txHash' # 0 => \A r \in logged : r.tx # txHash'
        /\ pc' = "record" => txHash' \in mined'
    <3>1. CASE KeepsHash
      BY <1>2, <3>1 DEF KeepsHash, LogInv
    <3>2. CASE DropsHash
      BY <3>2 DEF DropsHash
    <3>3. CASE TakesHash
      <4>1. \A r \in logged : r.tx \in 1 .. txs
        BY DEF LogInv, TypeOK
      <4>2. txs \in Nat
        BY DEF TypeOK
      <4>3. \A r \in logged : r.tx # txs + 1
        BY <4>1, <4>2
      <4>4. QED
        BY <3>3, <4>3 DEF TakesHash
    <3>4. QED
      BY <1>2, <3>1, <3>2, <3>3
  <2>4. QED
    BY <1>2, <2>1, <2>2, <2>3 DEF LogInv
<1>3. QED
  BY <1>1, <1>2, LogKinds

\* Nothing is logged at first.
LEMMA LogInit ==
  ASSUME Init
  PROVE  LogInv /\ Finances
<1>1. logged = {} /\ \A a \in Accounts : balance[a] = 0 /\ pending[a] = 0 /\ paid[a] = 0
  BY DEF Init, Zero
<1>2. \A l \in Logins : LoggedFor(l) = {} /\ paid[l] = 0
  BY <1>1 DEF LoggedFor, Accounts
<1>3. \A l \in Logins : SumFunctionOnSet(LoggedAmount, LoggedFor(l)) = 0
  BY <1>2, SumEmpty
<1>4. LogInv
  BY <1>1, <1>2, <1>3, FS_EmptySet DEF Init, LogInv
<1>5. ASSUME NEW hash, \A a \in Accounts : hash[a] = 0
      PROVE  FinancesAdd(hash)
  <2>1. hash[Pool] = 0 /\ \A l \in Logins : hash[l] = 0
    BY <1>5 DEF Accounts
  <2>2. SumFunctionOnSet(hash, Logins) = 0
    BY <2>1, MinersAssumption, SumZero
  <2>3. QED
    BY <2>1, <2>2 DEF FinancesAdd, SumOf
<1>6. Finances
  BY <1>1, <1>5 DEF Finances
<1>7. QED
  BY <1>4, <1>6

\* The log of payments is true, however far the follower is behind: each row is
\* a mined transaction, none is logged twice, a miner's rows add up to what it
\* was paid, and the finances to the miners' hashes (WritePayment, redis.go:451).
THEOREM TheLogIsTrue == Spec => []LogIsTrue
<1> DEFINE Inv == TypeOK /\ LogInv /\ Finances
<1>1. Init => Inv
  BY TypeInit, LogInit
<1>2. Inv /\ [Next]_vars => Inv'
  BY TypeStep, LogStep, FinancesStep
<1>3. Inv => LogIsTrue
  BY DEF LogInv, Finances, FinancesAdd, LogIsTrue
<1>4. QED
  <2> HIDE DEF Inv
  <2>1. QED
    BY <1>1, <1>2, <1>3, PTL DEF Spec

-----------------------------------------------------------------------------
(* The ledger: payouts and the unlocker's contract *)

\* A step of the ledger is one of payouts, or none to them: what is proved of
\* payouts for any rewards holds beside the unlocker.
LEMMA LedgerStepOfPayouts == [LedgerNext]_ledgerVars => [Next]_vars
<1>1. \A b \in Blocks : Share[b] \in Rewards
  BY BlocksAssumption
<1>2. QED
  BY <1>1 DEF LedgerNext, ledgerVars, PayoutStep, UnlockerStep, WriteMaturedBlock, Next

\* Payouts do not touch the books of the unlocker: total credits change in a
\* matured block only.
LEMMA PayoutKeepsCredits == Payout => credited' = credited
BY DEF Payout, Session, Resolution, StartNormal, StartResolve, CheckPending, CheckLock,
  Tick, NextPayee, EndSession, CheckFunds, Lock, Debit, Send, Confirmed, Record,
  ReadPending, Rollback, Unlock, Stop, Crash, Exit, Replicate, Mine

\* It is one of the unlocker's contract, or none to it.
LEMMA LedgerStepOfUnlocker == [LedgerNext]_ledgerVars => [Settlement!Next]_(Settlement!vars)
<1> USE DEF unlocker, ledgerVars, Settlement!vars, Settlement!books
<1>1. UNCHANGED ledgerVars => UNCHANGED Settlement!vars
  BY DEF vars
<1>2. PayoutStep => UNCHANGED Settlement!vars
  BY PayoutKeepsCredits DEF PayoutStep
<1>3. Settlement!ChainGrows /\ UnlockerStep => Settlement!Next
  BY DEF UnlockerStep, Settlement!Next
<1>4. Settlement!ChainGrows /\ (\E b \in Blocks : WriteMaturedBlock(b)) => Settlement!Next
  BY DEF WriteMaturedBlock, Settlement!Next
<1>5. QED
  BY <1>1, <1>2, <1>3, <1>4 DEF LedgerNext

\* The ledger is payouts and the unlocker's contract side by side.
LEMMA BothSides == LedgerSpec => Spec /\ Settlement!Spec
<1>1. LedgerInit => Init /\ Settlement!Init
  BY DEF LedgerInit
<1>2. QED
  BY <1>1, LedgerStepOfPayouts, LedgerStepOfUnlocker, PTL
  DEF LedgerSpec, Spec, Settlement!Spec

\* What block b has brought l so far.
Brought(l) == [b \in Blocks |-> IF stage[b] = "paid" THEN Share[b][l] ELSE 0]

\* Only kept blocks are paid, and a miner's credits are the shares of the blocks
\* that are.
SettledInv ==
  /\ stage \in [Blocks -> {"none", "found", "immature", "paid", "lost"}]
  /\ kept \subseteq Blocks
  /\ \A b \in Blocks : stage[b] = "paid" => b \in kept
  /\ \A l \in Logins : credited[l] = SumFunctionOnSet(Brought(l), Blocks)

\* The shares of a miner are natural numbers.
LEMMA ShareType ==
  ASSUME NEW l \in Logins, NEW b \in Blocks
  PROVE  Share[b][l] \in Nat
<1>1. Share[b] \in [Logins -> Nat]
  BY BlocksAssumption, RewardsAssumption
<1>2. QED
  BY <1>1

\* A matured block adds its share to a miner's credits, once.
LEMMA PaySettles ==
  ASSUME SettledInv, NEW b \in Blocks, Settlement!Pay(b), Settlement!ChainGrows
  PROVE  SettledInv'
<1>1. /\ stage' = [stage EXCEPT ![b] = "paid"] /\ stage[b] = "immature" /\ b \in kept
      /\ credited' = [l \in Logins |-> credited[l] + Share[b][l]]
      /\ kept' \subseteq Blocks /\ kept \subseteq kept'
  BY DEF Settlement!Pay, Settlement!ChainGrows
<1>2. stage' \in [Blocks -> {"none", "found", "immature", "paid", "lost"}]
  BY <1>1 DEF SettledInv
<1>3. \A c \in Blocks : stage'[c] = "paid" => c \in kept'
  BY <1>1 DEF SettledInv
<1>4. ASSUME NEW l \in Logins
      PROVE  credited'[l] = SumFunctionOnSet((Brought(l))', Blocks)
  <2> DEFINE f == Brought(l)
             g == (Brought(l))'
  <2>1. \A c \in Blocks : f[c] \in Int /\ g[c] \in Int
    BY ShareType DEF Brought
  <2>2. f[b] = 0 /\ g[b] = Share[b][l]
    BY <1>1 DEF Brought, SettledInv
  <2>3. \A c \in Blocks \ {b} : g[c] = f[c]
    BY <1>1 DEF Brought, SettledInv
  <2>4. credited[l] = SumFunctionOnSet(f, Blocks) /\ credited'[l] = credited[l] + Share[b][l]
    BY <1>1 DEF SettledInv
  <2> HIDE DEF f, g
  <2>5. SumFunctionOnSet(g, Blocks) = SumFunctionOnSet(f, Blocks) + g[b] - f[b]
    BY <2>1, <2>3, BlocksAssumption, SumChange
  <2>6. SumFunctionOnSet(f, Blocks) \in Int /\ Share[b][l] \in Int
    BY <2>1, BlocksAssumption, SumType, ShareType
  <2>7. credited'[l] = SumFunctionOnSet(g, Blocks)
    BY <2>2, <2>4, <2>5, <2>6
  <2>8. QED
    BY <2>7 DEF g
<1>5. QED
  BY <1>1, <1>2, <1>3, <1>4 DEF SettledInv

\* The other steps of the unlocker pay nothing.
LEMMA SettledStep ==
  ASSUME SettledInv, [Settlement!Next]_(Settlement!vars)
  PROVE  SettledInv'
<1>1. CASE Settlement!ChainGrows /\ \E b \in Blocks : Settlement!Pay(b)
  BY <1>1, PaySettles
<1>2. ASSUME Settlement!ChainGrows, credited' = credited,
             stage' \in [Blocks -> {"none", "found", "immature", "paid", "lost"}],
             \A b \in Blocks : stage'[b] = "paid" <=> stage[b] = "paid"
      PROVE  SettledInv'
  <2>1. kept' \subseteq Blocks /\ kept \subseteq kept'
    BY <1>2 DEF Settlement!ChainGrows
  <2>2. \A l \in Logins : (Brought(l))' = Brought(l)
    BY <1>2 DEF Brought
  <2>3. \A l \in Logins : credited'[l] = SumFunctionOnSet((Brought(l))', Blocks)
    BY <1>2, <2>2 DEF SettledInv
  <2>4. QED
    BY <1>2, <2>1, <2>3 DEF SettledInv
<1>3. stage \in [Blocks -> {"none", "found", "immature", "paid", "lost"}]
  BY DEF SettledInv
<1>4. CASE Settlement!ChainGrows /\ Settlement!Unpaid
  <2>1. credited' = credited
    BY <1>4 DEF Settlement!Unpaid, Settlement!Find, Settlement!Promise, Settlement!Lose,
      Settlement!Doubt, Settlement!books
  <2>2. /\ stage' \in [Blocks -> {"none", "found", "immature", "paid", "lost"}]
        /\ \A b \in Blocks : stage'[b] = "paid" <=> stage[b] = "paid"
    BY <1>3, <1>4 DEF Settlement!Unpaid, Settlement!Find, Settlement!Promise,
      Settlement!Lose, Settlement!Doubt, Settlement!books
  <2>3. QED
    BY <1>2, <1>4, <2>1, <2>2
<1>5. CASE UNCHANGED Settlement!vars
  <2>1. stage' = stage /\ kept' = kept /\ credited' = credited
    BY <1>5 DEF Settlement!vars, Settlement!books
  <2>2. Settlement!ChainGrows
    BY <2>1 DEF Settlement!ChainGrows, SettledInv
  <2>3. QED
    BY <1>2, <1>3, <2>1, <2>2
<1>6. QED
  BY <1>1, <1>4, <1>5 DEF Settlement!Next

\* No block is paid at first.
LEMMA SettledInit ==
  ASSUME Settlement!Init
  PROVE  SettledInv
<1>1. stage = [b \in Blocks |-> "none"] /\ kept = {} /\ credited = [l \in Logins |-> 0]
  BY DEF Settlement!Init, Settlement!Nothing
<1>2. ASSUME NEW l \in Logins
      PROVE  credited[l] = SumFunctionOnSet(Brought(l), Blocks)
  <2>1. \A b \in Blocks : Brought(l)[b] = 0
    BY <1>1 DEF Brought
  <2>2. SumFunctionOnSet(Brought(l), Blocks) = 0
    BY <2>1, BlocksAssumption, SumZero
  <2>3. QED
    BY <1>1, <2>2
<1>3. QED
  BY <1>1, <1>2 DEF SettledInv

\* What is credited to a miner is at most its shares of the kept blocks.
LEMMA CreditsAreBacked ==
  ASSUME SettledInv, NEW l \in Logins
  PROVE  credited[l] <= Backing(l) /\ Backing(l) \in Int
<1> DEFINE f == Brought(l)
           g == [b \in Blocks |-> Share[b][l]]
<1>1. kept \subseteq Blocks /\ IsFiniteSet(Blocks) /\ IsFiniteSet(kept)
  BY BlocksAssumption, FS_Subset DEF SettledInv
<1>2. \A b \in Blocks : f[b] \in Int /\ g[b] \in Int /\ f[b] <= g[b]
  BY ShareType DEF Brought
<1>3. \A b \in Blocks \ kept : f[b] = 0
  BY DEF SettledInv, Brought
<1>4. credited[l] = SumFunctionOnSet(f, Blocks) /\ Backing(l) = SumFunctionOnSet(g, kept)
  BY DEF SettledInv, Backing
<1> HIDE DEF f, g
<1>5. SumFunctionOnSet(f, Blocks) = SumFunctionOnSet(f, kept)
  BY <1>1, <1>2, <1>3, SumSupport
<1>6. SumFunctionOnSet(f, kept) <= SumFunctionOnSet(g, kept)
  BY <1>1, <1>2, SumBound
<1>7. SumFunctionOnSet(g, kept) \in Int
  BY <1>1, <1>2, SumType
<1>8. QED
  BY <1>4, <1>5, <1>6, <1>7

\* The pool is solvent: whatever fails, what it has sent a miner and what it still
\* owes it are covered by the miner's shares of blocks the chain keeps, but for what
\* payouts themselves gave up on (WriteMaturedBlock, redis.go:489, and process, payer.go:110, together).
THEOREM ThePoolIsSolvent == ASSUME ~Lagging PROVE LedgerSpec => []PaymentsAreBacked
<1>1. Settlement!Spec => []SettledInv
  BY SettledInit, SettledStep, PTL DEF Settlement!Spec
<1>2. TypeOK /\ NeverOverpaid /\ SettledInv => PaymentsAreBacked
  <2> SUFFICES ASSUME TypeOK, NeverOverpaid, SettledInv, NEW l \in Logins
               PROVE  balance[l] >= 0 /\ sent[l] + balance[l] <= Backing(l) + astray[l]
    BY DEF PaymentsAreBacked
  <2>1. balance[l] \in Int /\ sent[l] \in Nat /\ credited[l] \in Nat /\ astray[l] \in Nat
    BY DEF TypeOK, Accounts
  <2>2. balance[l] >= 0 /\ sent[l] + balance[l] <= credited[l] + astray[l]
    BY DEF NeverOverpaid
  <2>3. QED
    BY <2>1, <2>2, CreditsAreBacked
<1>3. QED
  BY <1>1, <1>2, BothSides, TypeCorrect, NobodyIsOverpaid, PTL
=============================================================================
