------------------------------ MODULE Rewards ------------------------------
(***************************************************************************)
(* The rewards of one block, as calculateRewards of src/payouts/unlocker.go*)
(* adds them up: the shares of the round in the order a Go map yields, then*)
(* the donation, then the pool's fee, into one map of logins.  Every amount*)
(* is rounded to Shannon by itself when it is added.                       *)
(*                                                                         *)
(* The code computes with rational numbers.  Here amounts are integers that*)
(* count parts of a wei, so many of which make a wei that the code's       *)
(* quotients are exact; a fee is an exact percentage (a float in the code).*)
(***************************************************************************)
EXTENDS Integers, FiniteSets, Functions

CONSTANTS
  Logins,
  DonationAccount, PoolFeeAddress,  \* logins, too
  Shannon,      \* wei in a Shannon (10^9 in the code)
  Whole,        \* 100 (percent)
  PoolFee, DonationFee,   \* in percent
  Reward,       \* the blocks' rewards, in wei
  MaxShares     \* bound of this model on the shares of a login

ASSUME RewardsAssumption ==
  /\ IsFiniteSet(Logins)
  /\ DonationAccount \in Logins /\ PoolFeeAddress \in Logins
  /\ Shannon \in Nat \ {0} /\ Whole \in Nat \ {0}
  /\ PoolFee \in 0 .. Whole /\ DonationFee \in 0 .. Whole
  /\ Reward \subseteq Nat /\ MaxShares \in Nat \ {0}

VARIABLES
  shares,     \* the round, a map from logins to shares
  total,      \* TotalShares of the block
  reward,     \* the block's reward, and what it gets for its transactions
  extra,
  donate,     \* is a donation configured?
  keeps,      \* is PoolFeeAddress configured?
  at,         \* what was added last: "shares", "donation" or "fee"
  todo,       \* the logins the loop has still to visit
  rewards     \* the result, 0 for a login it does not hold

block == <<shares, total, reward, extra, donate, keeps>>
vars == <<block, at, todo, rewards>>

-----------------------------------------------------------------------------
(* Amounts *)

\* Parts in a wei, and in a Shannon.
Wei == Whole * Whole * total
Unit == Shannon * Wei

\* weiToShannonInt64 rounds to the nearest Shannon, halves up.
WeiToShannon(amount) == (2 * amount + Unit) \div (2 * Unit)

\* chargeFee: what is left, and the fee, in hundredths of value.
Left(value, fee) == value * (Whole - fee)
Fee(value, fee) == value * fee

\* Mutant of MinersProfit: no fee is deducted.
MinersRevenue == reward * Whole

\* chargeFee(revenue, PoolFee), in hundredths of a wei.
MinersProfit == Left(reward, PoolFee)

\* The pool's profit, with the reward for the transactions.
PoolProfit == Fee(reward, PoolFee) + extra * Whole

WorkerReward(l) == MinersProfit * shares[l] * Whole

Donation == IF donate THEN Fee(PoolProfit, DonationFee) * total ELSE 0

PoolRest ==
  IF donate THEN Left(PoolProfit, DonationFee) * total ELSE PoolProfit * Whole * total

-----------------------------------------------------------------------------

Init ==
  /\ \E S \in (SUBSET Logins) \ {{}} : shares \in [S -> 1 .. MaxShares]
  /\ total = SumFunction(shares)
  /\ reward \in Reward /\ extra \in Reward \cup {0}
  /\ donate \in BOOLEAN /\ keeps \in BOOLEAN
  /\ at = "shares" /\ todo = DOMAIN shares
  /\ rewards = [l \in Logins |-> 0]

\* Mutant of Add: the amount takes the place of what is there.
Put(l, amount) == rewards' = [rewards EXCEPT ![l] = WeiToShannon(amount)]

\* rewards[l] += amount, in Shannon.
Add(l, amount) == rewards' = [rewards EXCEPT ![l] = @ + WeiToShannon(amount)]

\* The loop of calculateRewardsForShares takes the logins in any order.
RewardWorker(l) ==
  /\ at = "shares" /\ l \in todo
  /\ Add(l, WorkerReward(l)) /\ todo' = todo \ {l}
  /\ UNCHANGED <<block, at>>

Donate ==
  /\ at = "shares" /\ todo = {} /\ at' = "donation"
  /\ IF donate THEN Add(DonationAccount, Donation) ELSE UNCHANGED rewards
  /\ UNCHANGED <<block, todo>>

KeepPoolFee ==
  /\ at = "donation" /\ at' = "fee"
  /\ IF keeps THEN Add(PoolFeeAddress, PoolRest) ELSE UNCHANGED rewards
  /\ UNCHANGED <<block, todo>>

Next == (\E l \in Logins : RewardWorker(l)) \/ Donate \/ KeepPoolFee

Spec == Init /\ [][Next]_vars

-----------------------------------------------------------------------------
(* Properties *)

\* What login l has been given so far, exactly, by each of the three.
Shared(l) == IF l \in DOMAIN shares \ todo THEN WorkerReward(l) ELSE 0
Donated(l) == IF l = DonationAccount /\ donate /\ at # "shares" THEN Donation ELSE 0
Kept(l) == IF l = PoolFeeAddress /\ keeps /\ at = "fee" THEN PoolRest ELSE 0

Owed(l) == Shared(l) + Donated(l) + Kept(l)

\* The number of amounts that were rounded for l.
Amounts(l) ==
  (IF l \in DOMAIN shares \ todo THEN 1 ELSE 0)
  + (IF l = DonationAccount /\ donate /\ at # "shares" THEN 1 ELSE 0)
  + (IF l = PoolFeeAddress /\ keeps /\ at = "fee" THEN 1 ELSE 0)

Within(n, bound) == -bound <= n /\ n <= bound

\* Nobody is given more or less than it is owed, but for half a Shannon of each
\* amount: not even a miner that is the donation account or the pool's address.
NearOwed ==
  \A l \in Logins : Within(2 * (rewards[l] * Unit - Owed(l)), Amounts(l) * Unit)

\* In the end the rewards add up to what the block brought, less what the pool
\* keeps to itself, but for half a Shannon of each amount: fees, donation and
\* shares neither create nor lose more, whatever the fees are.
AddUp ==
  at = "fee" =>
    LET brought == (reward + extra) * Wei - (IF keeps THEN 0 ELSE PoolRest)
        given == SumFunction(rewards) * Unit
    IN Within(2 * (given - brought),
              SumFunction([l \in Logins |-> Amounts(l)]) * Unit)

\* unlocker_test.go:33, "Total reward must be equal to block reward in Shannon".
\* (Holds of the numbers of that test, and not in general.)
AddUpExactly ==
  at = "fee" /\ keeps =>
    SumFunction(rewards) = WeiToShannon((reward + extra) * Wei)
=============================================================================
