------------------------------ MODULE Payouts -------------------------------
(***************************************************************************)
(* The payouts module (payouts/payer.go) together with what it works on:   *)
(* the accounts it keeps in Redis (storage/redis.go), the follower replica *)
(* it reads them from, and the node that broadcasts its transactions.      *)
(*                                                                         *)
(* One process runs either a normal session (process) or the operator's    *)
(* RESOLVE_PAYOUT maintenance run (resolvePayouts).  Every backend command *)
(* may fail without effect or take effect and lose its reply, every node   *)
(* call may fail, and the process may die between any two commands; these  *)
(* are the faults, MaxFaults of them.                                      *)
(*                                                                         *)
(* Redis applies a MULTI block atomically on the leader and ships it to    *)
(* the follower later: the views on their way are the sequence stream.     *)
(***************************************************************************)
EXTENDS Integers, Sequences, FiniteSets, Functions

CONSTANTS
  Logins,      \* miners with an account
  Pool,        \* the hash "finances", which mirrors the sum of the accounts
  Rewards,     \* what a matured block may bring, an amount for each miner
  Threshold,   \* PayoutsConfig.Threshold, in Shannon
  NoPayment,   \* "no lock", "no payment in hand"
  MaxCredit,   \* bound: total a miner earns
  MaxFaults,   \* bound: failed commands, failed calls and crashes
  MaxLag,      \* bound: writes the follower may be behind
  Lagging      \* TRUE: sessions may also start while the follower is behind

ASSUME LoginsAssumption == Pool \notin Logins
ASSUME MinersAssumption == IsFiniteSet(Logins)
ASSUME RewardsAssumption == Rewards \subseteq [Logins -> Nat]
ASSUME ThresholdAssumption == Threshold \in Nat
ASSUME BoundsAssumption ==
  MaxCredit \in Nat /\ MaxFaults \in Nat /\ MaxLag \in Nat \ {0}
ASSUME LaggingAssumption == Lagging \in BOOLEAN

Accounts == Logins \cup {Pool}

\* A member "login:amount" of payments:pending, also the value of the lock.
Payment == [login : Logins, amount : Nat \ {0}]

ASSUME NoPaymentAssumption == NoPayment \notin Payment

VARIABLES
  \* the leader: hashes miners:<login> and finances, payment lists, the lock
  balance, pending, paid,
  payments,    \* payments:pending
  logged,      \* payments:all, rows [tx, login, amount]
  lock,        \* payments:lock
  \* replication
  follower,    \* the view the process reads
  stream,      \* views not applied yet, oldest first
  \* the process
  pc, halt,
  todo,        \* payees the loop of process has not visited
  pay,         \* login and amount in hand
  txHash,      \* hash in hand, 0 when empty
  rollback,    \* payments resolvePayouts still has to credit back
  \* the node and the chain
  sent,        \* sent[l]: total broadcast to l
  txs,         \* number of transactions broadcast, also the last hash
  mined,       \* hashes with a receipt
  \* history
  credited,    \* credited[l]: total credited to l by the unlocker
  astray,      \* astray[l]: of sent[l], what the books gave up on
  faults

leader  == <<balance, pending, paid, payments, logged, lock>>
replica == <<follower, stream>>
process == <<pc, halt, todo, pay, txHash, rollback>>
chain   == <<sent, txs, mined, astray>>
vars    == <<leader, replica, process, chain, credited, faults>>

-----------------------------------------------------------------------------
(* Helpers *)

Zero == [a \in Accounts |-> 0]

\* HINCRBY of one field of both miners:<login> and finances.
HIncrBy(hash, l, n) ==
  [a \in Accounts |-> IF a \in {l, Pool} THEN hash[a] + n ELSE hash[a]]

SumOf(hash) == SumFunctionOnSet(hash, Logins)

\* What the payouts module reads of the store.
View(b, p, k) == [balance |-> b, payments |-> p, lock |-> k]

\* A leader write joins the replication stream (balance', payments' and lock'
\* are the leader's after the write).
Replicated ==
  /\ Len(stream) < MaxLag
  /\ stream' = Append(stream, View(balance', payments', lock'))
  /\ UNCHANGED follower

Fault == faults < MaxFaults /\ faults' = faults + 1

\* The operator runs the module a few times a day and after looking at the
\* logs, long after the previous write: the follower has caught up by then.
CaughtUp == Lagging \/ stream = <<>>

Init ==
  /\ balance = Zero /\ pending = Zero /\ paid = Zero
  /\ payments = {} /\ logged = {} /\ lock = NoPayment
  /\ follower = View(Zero, {}, NoPayment) /\ stream = <<>>
  /\ pc = "off" /\ halt = FALSE /\ todo = {} /\ pay = NoPayment
  /\ txHash = 0 /\ rollback = {}
  /\ sent = [l \in Logins |-> 0] /\ txs = 0 /\ mined = {}
  /\ credited = [l \in Logins |-> 0] /\ astray = [l \in Logins |-> 0]
  /\ faults = 0

-----------------------------------------------------------------------------
(* The store: MULTI blocks and single commands on the leader *)

LockPayouts ==
  /\ lock' = pay
  /\ UNCHANGED <<balance, pending, paid, payments, logged>>
  /\ Replicated

UpdateBalance ==
  /\ balance' = HIncrBy(balance, pay.login, -pay.amount)
  /\ pending' = HIncrBy(pending, pay.login, pay.amount)
  /\ payments' = payments \cup {pay}
  /\ UNCHANGED <<paid, logged, lock>>
  /\ Replicated

\* Mutant of RollbackBalance: pending is not decremented.
RollbackHalf(p) ==
  /\ balance' = HIncrBy(balance, p.login, p.amount)
  /\ payments' = payments \ {p}
  /\ UNCHANGED <<pending, paid, logged, lock>>
  /\ Replicated

\* Mutant of RollbackBalance: the pending row stays.
RollbackListed(p) ==
  /\ balance' = HIncrBy(balance, p.login, p.amount)
  /\ pending' = HIncrBy(pending, p.login, -p.amount)
  /\ UNCHANGED <<payments, paid, logged, lock>>
  /\ Replicated

RollbackBalance(p) ==
  /\ balance' = HIncrBy(balance, p.login, p.amount)
  /\ pending' = HIncrBy(pending, p.login, -p.amount)
  /\ payments' = payments \ {p}
  /\ UNCHANGED <<paid, logged, lock>>
  /\ Replicated

\* Mutant of WritePayment: the pending row stays.
WritePaymentListed ==
  /\ pending' = HIncrBy(pending, pay.login, -pay.amount)
  /\ paid' = HIncrBy(paid, pay.login, pay.amount)
  /\ logged' = logged \cup
       {[tx |-> txHash, login |-> pay.login, amount |-> pay.amount]}
  /\ UNCHANGED payments
  /\ lock' = NoPayment
  /\ UNCHANGED balance
  /\ Replicated

\* Mutant of WritePayment: no row in payments:all.
WritePaymentUnlogged ==
  /\ pending' = HIncrBy(pending, pay.login, -pay.amount)
  /\ paid' = HIncrBy(paid, pay.login, pay.amount)
  /\ UNCHANGED logged
  /\ payments' = payments \ {pay}
  /\ lock' = NoPayment
  /\ UNCHANGED balance
  /\ Replicated

\* Mutant of WritePayment: the lock stays.
WritePaymentLocked ==
  /\ pending' = HIncrBy(pending, pay.login, -pay.amount)
  /\ paid' = HIncrBy(paid, pay.login, pay.amount)
  /\ logged' = logged \cup
       {[tx |-> txHash, login |-> pay.login, amount |-> pay.amount]}
  /\ payments' = payments \ {pay}
  /\ UNCHANGED lock
  /\ UNCHANGED balance
  /\ Replicated

WritePayment ==
  /\ pending' = HIncrBy(pending, pay.login, -pay.amount)
  /\ paid' = HIncrBy(paid, pay.login, pay.amount)
  /\ logged' = logged \cup
       {[tx |-> txHash, login |-> pay.login, amount |-> pay.amount]}
  /\ payments' = payments \ {pay}
  /\ lock' = NoPayment
  /\ UNCHANGED balance
  /\ Replicated

UnlockPayouts ==
  /\ lock' = NoPayment
  /\ UNCHANGED <<balance, pending, paid, payments, logged>>
  /\ Replicated

\* A command that returns an error has had its effect or none.
Failing(Command) ==
  /\ Fault
  /\ Command \/ UNCHANGED <<leader, replica>>

-----------------------------------------------------------------------------
(* The process *)

\* Control moves on and the data in hand stays.
Goto(label) ==
  /\ pc' = label
  /\ UNCHANGED <<halt, todo, pay, txHash, rollback>>

\* u.halt = true and break: no later tick starts a session.
HaltSession ==
  /\ pc' = "idle" /\ halt' = TRUE
  /\ todo' = {} /\ pay' = NoPayment /\ txHash' = 0
  /\ UNCHANGED rollback

\* The process is gone: its locals and its halt flag with it.
Exit ==
  /\ pc' = "off" /\ halt' = FALSE /\ todo' = {} /\ pay' = NoPayment
  /\ txHash' = 0 /\ rollback' = {}
  /\ UNCHANGED <<leader, replica, chain, credited>>

StartNormal ==
  /\ pc = "off" /\ CaughtUp
  /\ Goto("checkPending")
  /\ UNCHANGED <<leader, replica, chain, credited, faults>>

\* GetPendingPayments ignores a read error and then returns no payments.
SeenPending(seen) ==
  \/ seen = follower.payments /\ UNCHANGED faults
  \/ seen = {} /\ Fault

CheckPending ==
  /\ pc = "checkPending"
  /\ \E seen \in {follower.payments, {}} :
       /\ SeenPending(seen)
       /\ Goto(IF seen = {} THEN "checkLock" ELSE "refused")
  /\ UNCHANGED <<leader, replica, chain, credited>>

\* IsPayoutsLocked, and the session that runs immediately after the start.
\* GetPayees scans the keys miners:*; a login without one has no balance and
\* would be passed over.
CheckLock ==
  /\ pc = "checkLock"
  /\ \/ /\ follower.lock = NoPayment
        /\ pc' = "payee" /\ todo' = Logins
        /\ UNCHANGED <<halt, pay, txHash, rollback, faults>>
     \/ follower.lock # NoPayment /\ Goto("refused") /\ UNCHANGED faults
     \/ Fault /\ Goto("refused")
  /\ UNCHANGED <<leader, replica, chain, credited>>

\* The timer fires.  A halted process only logs that it is suspended; an
\* error of GetPayees ends the session without halting: both change nothing.
Tick ==
  /\ pc = "idle" /\ ~halt /\ CaughtUp
  /\ pc' = "payee" /\ todo' = Logins
  /\ UNCHANGED <<halt, pay, txHash, rollback>>
  /\ UNCHANGED <<leader, replica, chain, credited, faults>>

\* Mutant of ReachedThreshold: every balance is paid out.
AlwaysReached(amount) == TRUE

ReachedThreshold(amount) == Threshold < amount

\* Next iteration of the loop of process: the map order of the payees is
\* arbitrary, the error of GetBalance is dropped and the balance taken as 0.
NextPayee ==
  /\ pc = "payee"
  /\ \E l \in todo :
       /\ todo' = todo \ {l}
       /\ \/ /\ ReachedThreshold(follower.balance[l])
             /\ pay' = [login |-> l, amount |-> follower.balance[l]]
             /\ pc' = "funds"
             /\ UNCHANGED faults
          \/ /\ ~ReachedThreshold(follower.balance[l])
             /\ UNCHANGED <<pay, pc, faults>>
          \/ Fault /\ UNCHANGED <<pay, pc>>
  /\ UNCHANGED <<halt, txHash, rollback>>
  /\ UNCHANGED <<leader, replica, chain, credited>>

EndSession ==
  /\ pc = "payee" /\ todo = {}
  /\ Goto("idle")
  /\ UNCHANGED <<leader, replica, chain, credited, faults>>

\* checkPeers and isUnlockedAccount are constantly true; the wallet's balance
\* may be unreadable or too small.
CheckFunds ==
  /\ pc = "funds"
  /\ \/ Goto("lock") /\ UNCHANGED faults
     \/ Fault /\ HaltSession
  /\ UNCHANGED <<leader, replica, chain, credited>>

\* SETNX: the lock is taken only when it is free.
Lock ==
  /\ pc = "lock"
  /\ \/ lock = NoPayment /\ LockPayouts /\ Goto("debit") /\ UNCHANGED faults
     \/ /\ lock # NoPayment /\ HaltSession
        /\ UNCHANGED <<leader, replica, faults>>
     \/ /\ HaltSession
        /\ Failing(lock = NoPayment /\ LockPayouts)
  /\ UNCHANGED <<chain, credited>>

\* Mutant of Debit: the error of UpdateBalance is dropped.
DebitIgnoringErrors ==
  /\ pc = "debit" /\ Goto("send")
  /\ (UpdateBalance /\ UNCHANGED faults) \/ Failing(UpdateBalance)
  /\ UNCHANGED <<chain, credited>>

Debit ==
  /\ pc = "debit"
  /\ \/ UpdateBalance /\ Goto("send") /\ UNCHANGED faults
     \/ HaltSession /\ Failing(UpdateBalance)
  /\ UNCHANGED <<chain, credited>>

\* The node takes a transaction to l.
Broadcast ==
  /\ sent' = [sent EXCEPT ![pay.login] = @ + pay.amount]
  /\ txs' = txs + 1
  /\ UNCHANGED mined

\* From here on nothing stands for the transaction that paid p: its amount may be
\* sent again.
GiveUp(p) == astray' = [astray EXCEPT ![p.login] = @ + p.amount]

\* Mutant of SendFails: a call that failed is repeated.
SendAgain == Goto("resend")

\* An error of SendTransaction halts the session.  In the retry loop it sets
\* halt as well, but break leaves that loop only and the process goes on to
\* wait for the receipt of no transaction.
SendFails ==
  \/ pc = "send" /\ HaltSession
  \/ /\ pc = "resend"
     /\ pc' = "wait" /\ halt' = TRUE
     /\ UNCHANGED <<todo, pay, txHash, rollback>>

\* SendTransaction, and its retries while the returned hash is empty.  A call
\* that fails, or comes back without a hash, may have reached the node: after an
\* empty hash the code sends again all the same.
Send ==
  /\ pc \in {"send", "resend"}
  /\ \/ /\ Broadcast /\ UNCHANGED astray
        /\ txHash' = txs + 1 /\ pc' = "wait"
        /\ UNCHANGED <<halt, todo, pay, rollback, faults>>
     \/ /\ Fault
        /\ (Broadcast /\ GiveUp(pay)) \/ UNCHANGED chain
        /\ Goto("resend")
     \/ /\ Fault
        /\ (Broadcast /\ UNCHANGED astray) \/ UNCHANGED chain
        /\ SendFails
  /\ UNCHANGED <<leader, replica, credited>>

\* The receipt loop has no exit but a receipt: an error, no receipt or an
\* unconfirmed one means another poll, which changes nothing.
Confirmed ==
  /\ pc = "wait" /\ txHash \in mined
  /\ Goto("record")
  /\ UNCHANGED <<leader, replica, chain, credited, faults>>

Record ==
  /\ pc = "record"
  /\ \/ /\ WritePayment
        /\ pc' = "payee" /\ pay' = NoPayment /\ txHash' = 0
        /\ UNCHANGED <<halt, todo, rollback, faults>>
     \/ HaltSession /\ Failing(WritePayment)
  /\ UNCHANGED <<chain, credited>>

-----------------------------------------------------------------------------
(* The maintenance run, RESOLVE_PAYOUT=1 *)

\* The run checks nothing but the list of pending payments; docs/PAYOUTS.md asks
\* the operator for one that is not logged and not confirmed.
StartResolve ==
  /\ pc = "off" /\ CaughtUp
  /\ Goto("readPending")
  /\ UNCHANGED <<leader, replica, chain, credited, faults>>

\* Without pending payments the code skips the unlocking as well.
ReadPending ==
  /\ pc = "readPending"
  /\ \E seen \in {follower.payments, {}} :
       /\ SeenPending(seen)
       /\ rollback' = seen
       /\ pc' = IF seen = {} THEN "resolved" ELSE "rollback"
  /\ UNCHANGED <<halt, todo, pay, txHash>>
  /\ UNCHANGED <<leader, replica, chain, credited>>

\* The transaction of p is out, and the books have neither recorded it nor given
\* it up.
IsOut(p) == sent[p.login] > paid[p.login] + astray[p.login]

\* A payment credited back is given up, if it was broadcast.
CreditBack(p) ==
  /\ RollbackBalance(p)
  /\ IF IsOut(p) THEN GiveUp(p) ELSE UNCHANGED astray

Rollback ==
  /\ pc = "rollback"
  /\ \E p \in rollback :
       \/ /\ CreditBack(p)
          /\ rollback' = rollback \ {p}
          /\ pc' = IF rollback = {p} THEN "unlock" ELSE "rollback"
          /\ UNCHANGED faults
       \/ /\ Fault
          /\ CreditBack(p) \/ UNCHANGED <<leader, replica, astray>>
          /\ pc' = "refused" /\ UNCHANGED rollback
  /\ UNCHANGED <<halt, todo, pay, txHash, sent, txs, mined, credited>>

Unlock ==
  /\ pc = "unlock"
  /\ \/ UnlockPayouts /\ Goto("resolved") /\ UNCHANGED faults
     \/ Failing(UnlockPayouts) /\ Goto("refused")
  /\ UNCHANGED <<chain, credited>>

-----------------------------------------------------------------------------
(* The environment *)

\* The operator ends a run that has nothing more to do.
Stop ==
  /\ pc \in {"idle", "refused", "resolved"}
  /\ Exit
  /\ UNCHANGED faults

Crash == pc # "off" /\ Fault /\ Exit

\* The unlocker credits the miners of a matured block in one MULTI, and finances
\* with the total: WriteMaturedBlock.
Credit(reward) ==
  /\ \A l \in Logins : credited[l] + reward[l] <= MaxCredit
  /\ balance' = [a \in Accounts |->
       balance[a] + IF a = Pool THEN SumOf(reward) ELSE reward[a]]
  /\ credited' = [l \in Logins |-> credited[l] + reward[l]]
  /\ UNCHANGED <<pending, paid, payments, logged, lock>>
  /\ Replicated
  /\ UNCHANGED <<process, chain, faults>>

Replicate ==
  /\ stream # <<>>
  /\ follower' = Head(stream) /\ stream' = Tail(stream)
  /\ UNCHANGED <<leader, process, chain, credited, faults>>

Mine ==
  /\ \E tx \in (1 .. txs) \ mined : mined' = mined \cup {tx}
  /\ UNCHANGED <<sent, txs, astray, leader, replica, process, credited, faults>>

Session ==
  \/ CheckPending \/ CheckLock \/ Tick \/ NextPayee \/ EndSession
  \/ CheckFunds \/ Lock \/ Debit \/ Send \/ Confirmed \/ Record

Resolution == ReadPending \/ Rollback \/ Unlock

\* All but the credits.
Payout ==
  \/ StartNormal \/ StartResolve \/ Session \/ Resolution \/ Stop \/ Crash
  \/ Replicate \/ Mine

Next == Payout \/ \E reward \in Rewards : Credit(reward)

Spec == Init /\ [][Next]_vars

\* The process keeps running, the follower keeps applying writes, the chain
\* mines what was broadcast, and the operator sooner or later ends a run that
\* came to its end and starts a normal one.  No fairness for stopping a run
\* that waits for its timer, for crashes, maintenance runs or new rewards.
Fairness ==
  /\ WF_vars(Session) /\ WF_vars(Resolution)
  /\ WF_vars(Replicate) /\ WF_vars(Mine)
  /\ WF_vars(Stop /\ pc # "idle") /\ SF_vars(StartNormal)

FairSpec == Spec /\ Fairness

-----------------------------------------------------------------------------
(* Properties *)

Labels == {"off", "checkPending", "checkLock", "refused", "idle", "payee",
           "funds", "lock", "debit", "send", "resend", "wait", "record",
           "readPending", "rollback", "unlock", "resolved"}

\* The labels that work on a payment.
Holding == {"funds", "lock", "debit", "send", "resend", "wait", "record"}

Views == [balance : [Accounts -> Int], payments : SUBSET Payment,
          lock : Payment \cup {NoPayment}]

\* Every variable has its type; a label that works on a payment has one in
\* hand (the locals of process and resolvePayouts).
TypeOK ==
  /\ balance \in [Accounts -> Int] /\ pending \in [Accounts -> Int]
  /\ paid \in [Accounts -> Int]
  /\ payments \subseteq Payment
  /\ logged \subseteq [tx : Nat, login : Logins, amount : Nat \ {0}]
  /\ lock \in Payment \cup {NoPayment}
  /\ follower \in Views /\ stream \in Seq(Views)
  /\ pc \in Labels /\ halt \in BOOLEAN /\ todo \subseteq Logins
  /\ pay \in Payment \cup {NoPayment}
  /\ pc \in Holding => pay \in Payment
  /\ txHash \in Nat /\ rollback \subseteq Payment
  /\ sent \in [Logins -> Nat] /\ txs \in Nat /\ mined \subseteq 1 .. txs
  /\ credited \in [Logins -> Nat] /\ astray \in [Logins -> Nat]
  /\ faults \in Nat

\* No Shannon is created or lost by the payouts module: whatever failed,
\* crashed or was rolled back, a miner's balance, pending and paid amounts add
\* up to what the unlocker credited (UpdateBalance, RollbackBalance and
\* WritePayment against each other).
Conservation ==
  \A l \in Logins : balance[l] + pending[l] + paid[l] = credited[l]

\* At most one payment is unresolved and the lock names it, so a second session
\* cannot start over a failed payment (LockPayouts comes before UpdateBalance,
\* the lock goes only with the pending row or after it).
PendingIsLocked == payments \subseteq {lock}

\* A miner's pending amount is the row of payments:pending that stands for it.
PendingIsListed ==
  \A l \in Logins :
    pending[l] = IF lock \in payments /\ lock.login = l THEN lock.amount ELSE 0

\* The lock, the row of payments:pending and the amounts pending are one and the
\* same payment: no second one is on its way, and what a maintenance run credits
\* back is exactly what was debited.
OnePending == PendingIsLocked /\ PendingIsListed

\* The chain agrees with the books: what was broadcast to a miner is what is
\* recorded as paid, plus the pending payment if that one went out already, plus
\* the transactions that went astray.  Those are of two kinds only: the node took
\* one and answered with an empty hash, after which process sends again, or a
\* maintenance run credited back a payment that was out.  No error, lost reply or
\* crash anywhere else makes a payment go out twice, or be recorded without.
SentIsAccounted ==
  \A l \in Logins : sent[l] - astray[l] - paid[l] \in {0, pending[l]}

\* What a miner received and what it still has is more than was credited to it by
\* what went astray at most, and no balance is overdrawn, although amounts are
\* read from the replica.
NeverOverpaid ==
  \A l \in Logins :
    balance[l] >= 0 /\ sent[l] + balance[l] <= credited[l] + astray[l]

\* The rows of payments:<login>, and what each row of the log says was paid.
LoggedFor(l) == {r \in logged : r.login = l}
LoggedAmount == [r \in logged |-> r.amount]

\* The payment log is true: each row is a mined transaction, no transaction is
\* logged twice, a miner's rows add up to the amount paid, and the hash finances
\* is the sum of the miners' hashes, field by field.
LogIsTrue ==
  /\ \A r \in logged : r.tx \in mined
  /\ \A r, s \in logged : r.tx = s.tx => r = s
  /\ \A l \in Logins : paid[l] = SumFunctionOnSet(LoggedAmount, LoggedFor(l))
  /\ \A hash \in {balance, pending, paid} : hash[Pool] = SumOf(hash)

\* A session works under its lock from the debit to the record; nothing is
\* broadcast unless the leader holds the lock and the pending row for it.
SendsUnderLock ==
  [][sent' # sent => lock = pay /\ pay \in payments]_vars

\* Why the safety properties hold, as an inductive invariant (for ~Lagging).
\* Views not yet applied count as known: the follower may show any of them.
Known == {follower} \cup {stream[i] : i \in DOMAIN stream}

Latest == IF stream = <<>> THEN follower ELSE stream[Len(stream)]

\* Miners whose balance the session still has to read.
Unread == IF pc \in {"checkPending", "checkLock"} THEN Logins ELSE todo

\* A session reads each balance at most once and only payments lower balances,
\* so what it has yet to read is at most what the leader holds.
ReplicaInv ==
  /\ Latest = View(balance, payments, lock)
  /\ \A v \in Known, l \in Unread : v.balance[l] <= balance[l]
  /\ pc = "readPending" => \A v \in Known : v.payments = payments

\* What the process relies on at each step.
ProcessInv ==
  /\ pc \in Holding => pay.login \notin todo
  /\ pc \notin Holding => pay = NoPayment
  /\ pc \in {"off", "checkPending", "checkLock", "refused", "readPending",
             "rollback", "unlock", "resolved"} => todo = {}
  /\ pc \notin {"wait", "record"} => txHash = 0
  /\ pc \in {"funds", "lock", "debit"} =>
       ReachedThreshold(pay.amount) /\ pay.amount <= balance[pay.login]
  /\ pc = "debit" => lock = pay /\ payments = {}
  /\ pc \in {"send", "resend", "wait", "record"} =>
       lock = pay /\ payments = {pay}
  /\ pc \in {"send", "resend"} =>
       sent[pay.login] = paid[pay.login] + astray[pay.login]
  /\ (pc = "wait" /\ txHash # 0) \/ pc = "record" =>
       sent[pay.login] = paid[pay.login] + astray[pay.login] + pay.amount
  /\ pc = "record" => txHash \in mined
  /\ pc = "rollback" => rollback \subseteq payments
  /\ pc = "unlock" => payments = {}

BooksInv ==
  /\ Conservation /\ PendingIsLocked /\ PendingIsListed /\ SentIsAccounted
  /\ \A l \in Logins : balance[l] >= 0

\* Each part is needed to preserve another: the books by the step the process
\* is at, the step by what the replica may show it.
IInv == TypeOK /\ ReplicaInv /\ ProcessInv /\ BooksInv

\* The books without the finances, as the contract sees them.
Available == [l \in Logins |-> balance[l]]
Reserved == [l \in Logins |-> pending[l]]
Settled == [l \in Logins |-> paid[l]]

Contract == INSTANCE PayoutContract WITH available <- Available,
  reserved <- Reserved, settled <- Settled, transferred <- sent,
  disowned <- astray

\* The module keeps the promise of PayoutContract: every step is an earning, a
\* reservation, a transfer, a settlement or a refund of one miner, or none.
ImplementsContract == Contract!Spec

\* Without faults every balance above the threshold is paid out.
EveryBalancePaid ==
  \A l \in Logins :
    ReachedThreshold(balance[l]) ~> ~ReachedThreshold(balance[l]) \/ faults > 0

\* docs/PAYOUTS.md says that every maintenance run ends with "Payouts
\* unlocked", which resolvePayouts logs as it ends.
ResolvedMeansUnlocked == pc = "resolved" => lock = NoPayment

\* TestIsPayoutsLocked in storage/redis_test.go says that once LockPayouts
\* returned, IsPayoutsLocked answers yes: no start passes the check while the
\* leader holds the lock.
LockIsSeen ==
  [][pc = "checkLock" /\ pc' = "payee" => lock = NoPayment]_vars

\* README.md says that payouts halt on node errors and that a restart is due
\* when the word "suspended" is logged, which takes a later tick: a halted
\* session must end, or the process must be gone.
HaltedSessionEnds == halt ~> pc \in {"idle", "off"}
=============================================================================
