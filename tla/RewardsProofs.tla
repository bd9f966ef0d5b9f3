--------------------------- MODULE RewardsProofs ---------------------------
(***************************************************************************)
(* Proofs about the arithmetic of a block's rewards (module Rewards): for  *)
(* any round, any fees in percent and any amounts, each login is given     *)
(* what it is owed and nothing is created or lost, but for half a Shannon  *)
(* of each amount that was rounded.                                        *)
(***************************************************************************)
EXTENDS Rewards, Sums, TLAPS

-----------------------------------------------------------------------------
(* Rounding *)

\* The nearest multiple of u is at most half of u away.
LEMMA Rounding ==
  ASSUME NEW a \in Nat, NEW u \in Nat \ {0}
  PROVE  /\ (2 * a + u) \div (2 * u) \in Nat
         /\ Within(2 * (((2 * a + u) \div (2 * u)) * u - a), u)
<1> DEFINE n == 2 * a + u
           d == 2 * u
           q == n \div d
<1>1. n \in Nat /\ d \in Nat \ {0}
  OBVIOUS
<1>2. q \in Int /\ d * q <= n /\ n < d * q + d
  <2>1. \A x \in Nat, y \in Nat \ {0} :
          x \div y \in Int /\ y * (x \div y) <= x /\ x < y * (x \div y) + y
    OBVIOUS
  <2>2. QED
    BY <1>1, <2>1
<1>3. q \in Nat
  BY <1>1, <1>2
<1>4. d * q = 2 * (q * u)
  BY <1>2
<1>5. q * u \in Int
  BY <1>2
<1>6. Within(2 * (q * u - a), u)
  <2> HIDE DEF q
  <2>1. QED
    BY <1>2, <1>4, <1>5 DEF Within
<1>7. QED
  BY <1>3, <1>6

\* Once more rounded, once more half a unit away.
LEMMA OneMore ==
  ASSUME NEW r \in Int, NEW w \in Int, NEW o \in Int, NEW a \in Int, NEW n \in Int,
         NEW u \in Int, Within(2 * (r * u - o), n * u), Within(2 * (w * u - a), u)
  PROVE  Within(2 * ((r + w) * u - (o + a)), (n + 1) * u)
<1> DEFINE x == r * u
           y == w * u
           z == n * u
<1>1. (r + w) * u = x + y /\ (n + 1) * u = z + u
  OBVIOUS
<1>2. x \in Int /\ y \in Int /\ z \in Int
  OBVIOUS
<1>3. Within(2 * (x - o), z) /\ Within(2 * (y - a), u)
  OBVIOUS
<1>4. Within(2 * ((x + y) - (o + a)), z + u)
  <2> HIDE DEF x, y, z
  <2>1. QED
    BY <1>2, <1>3 DEF Within
<1>5. QED
  BY <1>1, <1>4

\* Products of amounts.
LEMMA Products ==
  ASSUME NEW m \in Nat, NEW n \in Nat
  PROVE  m * n \in Nat /\ (m # 0 /\ n # 0 => m * n # 0)
OBVIOUS

-----------------------------------------------------------------------------
(* The invariant *)

\* The types: a round that is not empty, and amounts.
Types ==
  /\ DOMAIN shares \in SUBSET Logins
  /\ \A l \in DOMAIN shares : shares[l] \in Nat
  /\ total \in Nat \ {0} /\ total = SumFunctionOnSet(shares, DOMAIN shares)
  /\ reward \in Nat /\ extra \in Nat /\ donate \in BOOLEAN /\ keeps \in BOOLEAN
  /\ at \in {"shares", "donation", "fee"}
  /\ todo \in SUBSET DOMAIN shares /\ (at # "shares" => todo = {})
  /\ rewards \in [Logins -> Int]

\* The inductive invariant.
IInv == Types /\ NearOwed

\* Every amount is a natural number of parts of a wei.
LEMMA AmountsAreNat ==
  ASSUME Types
  PROVE  /\ Wei \in Nat \ {0} /\ Unit \in Nat \ {0}
         /\ MinersProfit \in Nat /\ PoolProfit \in Nat
         /\ \A l \in DOMAIN shares : WorkerReward(l) \in Nat
         /\ Donation \in Nat /\ PoolRest \in Nat
<1>1. /\ Shannon \in Nat \ {0} /\ Whole \in Nat \ {0}
      /\ PoolFee \in Nat /\ Whole - PoolFee \in Nat
      /\ DonationFee \in Nat /\ Whole - DonationFee \in Nat
  BY RewardsAssumption
<1>2. /\ total \in Nat \ {0} /\ reward \in Nat /\ extra \in Nat
      /\ \A l \in DOMAIN shares : shares[l] \in Nat
  BY DEF Types
<1>3. Wei \in Nat \ {0}
  <2>1. Whole * Whole \in Nat \ {0}
    BY <1>1, Products
  <2>2. QED
    BY <1>2, <2>1, Products DEF Wei
<1>4. Unit \in Nat \ {0}
  BY <1>1, <1>3, Products DEF Unit
<1>5. MinersProfit \in Nat
  BY <1>1, <1>2, Products DEF MinersProfit, Left
<1>6. PoolProfit \in Nat
  <2>1. reward * PoolFee \in Nat /\ extra * Whole \in Nat
    BY <1>1, <1>2, Products
  <2>2. QED
    BY <2>1 DEF PoolProfit, Fee
<1>7. ASSUME NEW l \in DOMAIN shares PROVE WorkerReward(l) \in Nat
  <2>1. MinersProfit * shares[l] \in Nat
    BY <1>2, <1>5, Products
  <2>2. QED
    BY <1>1, <2>1, Products DEF WorkerReward
<1>8. Donation \in Nat
  <2>1. PoolProfit * DonationFee \in Nat
    BY <1>1, <1>6, Products
  <2>2. (PoolProfit * DonationFee) * total \in Nat
    BY <1>2, <2>1, Products
  <2>3. QED
    BY <2>2 DEF Donation, Fee
<1>9. PoolRest \in Nat
  <2>1. PoolProfit * (Whole - DonationFee) \in Nat /\ PoolProfit * Whole \in Nat
    BY <1>1, <1>6, Products
  <2>2. /\ (PoolProfit * (Whole - DonationFee)) * total \in Nat
        /\ (PoolProfit * Whole) * total \in Nat
    BY <1>2, <2>1, Products
  <2>3. QED
    BY <2>2 DEF PoolRest, Left
<1>10. QED
  BY <1>3, <1>4, <1>5, <1>6, <1>7, <1>8, <1>9

\* An amount is rounded to a Shannon that is at most half a Shannon away.
LEMMA WeiToShannonRounds ==
  ASSUME Types, NEW a \in Nat
  PROVE  WeiToShannon(a) \in Nat /\ Within(2 * (WeiToShannon(a) * Unit - a), Unit)
<1>1. Unit \in Nat \ {0}
  BY AmountsAreNat
<1> HIDE DEF Unit
<1>2. QED
  BY <1>1, Rounding DEF WeiToShannon

\* What is owed, and how many amounts that is.
LEMMA OwedType ==
  ASSUME Types, NEW l \in Logins
  PROVE  /\ Shared(l) \in Nat /\ Donated(l) \in Nat /\ Kept(l) \in Nat
         /\ Owed(l) \in Nat /\ Amounts(l) \in Nat
<1>1. Shared(l) \in Nat /\ Donated(l) \in Nat /\ Kept(l) \in Nat
  <2> HIDE DEF Donation, PoolRest, WorkerReward
  <2>1. QED
    BY AmountsAreNat DEF Shared, Donated, Kept
<1>2. Owed(l) \in Nat
  BY <1>1 DEF Owed
<1>3. Amounts(l) \in Nat
  BY DEF Amounts
<1>4. QED
  BY <1>1, <1>2, <1>3

-----------------------------------------------------------------------------
(* One amount is added *)

\* The amount a is added for login l, and for nobody else.
LEMMA NearStep ==
  ASSUME IInv, UNCHANGED block, NEW l \in Logins, NEW a \in Nat, Add(l, a),
         \A k \in Logins : (Owed(k))' = Owed(k) + (IF k = l THEN a ELSE 0),
         \A k \in Logins : (Amounts(k))' = Amounts(k) + (IF k = l THEN 1 ELSE 0)
  PROVE  NearOwed' /\ rewards' \in [Logins -> Int]
<1>1. Types /\ NearOwed
  BY DEF IInv
<1>2. rewards \in [Logins -> Int]
  BY <1>1 DEF Types
<1>3. WeiToShannon(a) \in Nat /\ Within(2 * (WeiToShannon(a) * Unit - a), Unit)
  BY <1>1, WeiToShannonRounds
<1>4. rewards' = [rewards EXCEPT ![l] = @ + WeiToShannon(a)]
  BY DEF Add
<1> HIDE DEF WeiToShannon
<1>5. \A k \in Logins :
        rewards'[k] = IF k = l THEN rewards[k] + WeiToShannon(a) ELSE rewards[k]
  BY <1>2, <1>4
<1>6. rewards' \in [Logins -> Int]
  BY <1>2, <1>3, <1>4
<1>7. Unit' = Unit /\ Unit \in Int
  <2>1. Unit' = Unit
    BY DEF block, Unit, Wei
  <2>2. QED
    BY <1>1, <2>1, AmountsAreNat
<1>8. ASSUME NEW k \in Logins
      PROVE  Within(2 * (rewards'[k] * Unit - (Owed(k))'), (Amounts(k))' * Unit)
  <2>1. Within(2 * (rewards[k] * Unit - Owed(k)), Amounts(k) * Unit)
    BY <1>1 DEF NearOwed
  <2>2. rewards[k] \in Int /\ Owed(k) \in Int /\ Amounts(k) \in Int
    BY <1>1, <1>2, OwedType
  <2>3. (Owed(k))' = Owed(k) + (IF k = l THEN a ELSE 0)
    OBVIOUS
  <2>4. (Amounts(k))' = Amounts(k) + (IF k = l THEN 1 ELSE 0)
    OBVIOUS
  <2>5. CASE k = l
    <3>1. (Owed(k))' = Owed(k) + a /\ (Amounts(k))' = Amounts(k) + 1
      BY <2>3, <2>4, <2>5
    <3>2. rewards'[k] = rewards[k] + WeiToShannon(a)
      BY <1>5, <2>5
    <3>3. Within(2 * ((rewards[k] + WeiToShannon(a)) * Unit - (Owed(k) + a)),
                 (Amounts(k) + 1) * Unit)
      <4> HIDE DEF Within, Unit, Owed, Amounts
      <4>1. QED
        BY <1>3, <1>7, <2>1, <2>2, OneMore
    <3>4. QED
      BY <3>1, <3>2, <3>3
  <2>6. CASE k # l
    <3>1. (Owed(k))' = Owed(k) /\ (Amounts(k))' = Amounts(k)
      <4> HIDE DEF Owed, Amounts
      <4>1. QED
        BY <2>2, <2>3, <2>4, <2>6
    <3>2. rewards'[k] = rewards[k]
      BY <1>5, <2>6
    <3>3. QED
      BY <2>1, <3>1, <3>2
  <2>7. QED
    BY <2>5, <2>6
<1>9. NearOwed'
  BY <1>7, <1>8 DEF NearOwed
<1>10. QED
  BY <1>6, <1>9

\* The steps keep the types.
LEMMA TypesStep ==
  ASSUME Types, [Next]_vars, rewards' \in [Logins -> Int]
  PROVE  Types'
<1> USE DEF Types
<1>1. CASE \E l \in Logins : RewardWorker(l)
  <2>1. PICK l \in Logins : RewardWorker(l)
    BY <1>1
  <2>2. UNCHANGED <<shares, total, reward, extra, donate, keeps, at>> /\ todo' = todo \ {l}
    BY <2>1 DEF RewardWorker, block
  <2>3. at = "shares"
    BY <2>1 DEF RewardWorker
  <2>4. QED
    BY <2>2, <2>3
<1>2. CASE Donate
  BY <1>2 DEF Donate, block
<1>3. CASE KeepPoolFee
  BY <1>3 DEF KeepPoolFee, block
<1>4. CASE UNCHANGED vars
  BY <1>4 DEF vars, block
<1>5. QED
  BY <1>1, <1>2, <1>3, <1>4 DEF Next

\* The share of one login is added.
LEMMA RewardWorkerStep ==
  ASSUME IInv, NEW l \in Logins, RewardWorker(l)
  PROVE  NearOwed' /\ rewards' \in [Logins -> Int]
<1>1. Types
  BY DEF IInv
<1>2. /\ at = "shares" /\ l \in todo /\ Add(l, WorkerReward(l)) /\ todo' = todo \ {l}
      /\ UNCHANGED block /\ at' = at
  BY DEF RewardWorker
<1>3. UNCHANGED <<shares, total, reward, extra, donate, keeps>>
  BY <1>2 DEF block
<1>4. todo \in SUBSET DOMAIN shares
  BY <1>1 DEF Types
<1>5. WorkerReward(l) \in Nat
  BY <1>1, <1>2, <1>4, AmountsAreNat
<1>6. \A k \in DOMAIN shares : (WorkerReward(k))' = WorkerReward(k)
  BY <1>3 DEF WorkerReward, MinersProfit, Left
<1>7. ASSUME NEW k \in Logins
      PROVE  (Owed(k))' = Owed(k) + (IF k = l THEN WorkerReward(l) ELSE 0)
  <2>1. Donated(k) = 0 /\ Kept(k) = 0
    BY <1>2 DEF Donated, Kept
  <2>2. (Donated(k))' = 0 /\ (Kept(k))' = 0
    BY <1>2 DEF Donated, Kept
  <2>3. (Shared(k))' = Shared(k) + (IF k = l THEN WorkerReward(l) ELSE 0)
    <3>1. CASE k = l
      <4>1. Shared(k) = 0
        BY <1>2, <3>1 DEF Shared
      <4>2. (Shared(k))' = WorkerReward(k)
        BY <1>2, <1>3, <1>4, <1>6, <3>1 DEF Shared
      <4>3. QED
        BY <1>5, <3>1, <4>1, <4>2
    <3>2. CASE k # l
      <4>1. (Shared(k))' = Shared(k)
        BY <1>2, <1>3, <1>6, <3>2 DEF Shared
      <4>2. Shared(k) \in Nat
        BY <1>1, OwedType
      <4>3. QED
        BY <3>2, <4>1, <4>2
    <3>3. QED
      BY <3>1, <3>2
  <2>4. Shared(k) \in Nat
    BY <1>1, OwedType
  <2>5. (Owed(k))' = (Shared(k))' + 0 + 0 /\ Owed(k) = Shared(k) + 0 + 0
    BY <2>1, <2>2 DEF Owed
  <2>6. QED
    BY <1>5, <2>3, <2>4, <2>5
<1>8. ASSUME NEW k \in Logins
      PROVE  (Amounts(k))' = Amounts(k) + (IF k = l THEN 1 ELSE 0)
  BY <1>2, <1>3, <1>4 DEF Amounts
<1>9. QED
  BY <1>2, <1>5, <1>7, <1>8, NearStep

\* What is unchanged: nobody is given or owed anything.
LEMMA NearStay ==
  ASSUME IInv, UNCHANGED block, rewards' = rewards,
         \A k \in Logins : (Owed(k))' = Owed(k) /\ (Amounts(k))' = Amounts(k)
  PROVE  NearOwed' /\ rewards' \in [Logins -> Int]
<1>1. Unit' = Unit
  BY DEF block, Unit, Wei
<1>2. QED
  BY <1>1 DEF IInv, Types, NearOwed

\* The donation is added, if there is one.
LEMMA DonateStep ==
  ASSUME IInv, Donate
  PROVE  NearOwed' /\ rewards' \in [Logins -> Int]
<1>1. Types
  BY DEF IInv
<1>2. at = "shares" /\ todo = {} /\ at' = "donation" /\ UNCHANGED block /\ todo' = todo
  BY DEF Donate
<1>3. UNCHANGED <<shares, total, reward, extra, donate, keeps>>
  BY <1>2 DEF block
<1>4. Donation' = Donation /\ \A k \in DOMAIN shares : (WorkerReward(k))' = WorkerReward(k)
  BY <1>3 DEF Donation, PoolProfit, Fee, WorkerReward, MinersProfit, Left
<1>5. Donation \in Nat
  BY <1>1, AmountsAreNat
<1>6. ASSUME NEW k \in Logins
      PROVE  /\ (Owed(k))' = Owed(k) + (IF k = DonationAccount /\ donate THEN Donation ELSE 0)
             /\ (Amounts(k))' = Amounts(k) + (IF k = DonationAccount /\ donate THEN 1 ELSE 0)
  <2>1. Shared(k) \in Nat
    BY <1>1, OwedType
  <2>2. (Shared(k))' = Shared(k)
    BY <1>2, <1>3, <1>4 DEF Shared
  <2>3. Donated(k) = 0 /\ Kept(k) = 0 /\ (Kept(k))' = 0
    BY <1>2 DEF Donated, Kept
  <2>4. (Donated(k))' = IF k = DonationAccount /\ donate THEN Donation ELSE 0
    BY <1>2, <1>3, <1>4 DEF Donated
  <2>5. (Owed(k))' = (Shared(k))' + (Donated(k))' + (Kept(k))'
    BY DEF Owed
  <2>6. Owed(k) = Shared(k) + Donated(k) + Kept(k)
    BY DEF Owed
  <2>7. (Owed(k))' = Owed(k) + (IF k = DonationAccount /\ donate THEN Donation ELSE 0)
    BY <1>5, <2>1, <2>2, <2>3, <2>4, <2>5, <2>6
  <2>8. (Amounts(k))' = Amounts(k) + (IF k = DonationAccount /\ donate THEN 1 ELSE 0)
    BY <1>2, <1>3 DEF Amounts
  <2>9. QED
    BY <2>7, <2>8
<1>7. CASE donate
  <2>1. Add(DonationAccount, Donation)
    BY <1>7 DEF Donate
  <2>2. DonationAccount \in Logins
    BY RewardsAssumption
  <2>3. QED
    BY <1>2, <1>5, <1>6, <1>7, <2>1, <2>2, NearStep
<1>8. CASE ~ donate
  <2>1. rewards' = rewards
    BY <1>8 DEF Donate
  <2>2. \A k \in Logins : Owed(k) \in Nat /\ Amounts(k) \in Nat
    BY <1>1, OwedType
  <2>3. \A k \in Logins : (Owed(k))' = Owed(k) /\ (Amounts(k))' = Amounts(k)
    BY <1>6, <1>8, <2>2
  <2>4. QED
    BY <1>2, <2>1, <2>3, NearStay
<1>9. QED
  BY <1>7, <1>8

\* The pool's rest is added, if there is an address for it.
LEMMA KeepPoolFeeStep ==
  ASSUME IInv, KeepPoolFee
  PROVE  NearOwed' /\ rewards' \in [Logins -> Int]
<1>1. Types
  BY DEF IInv
<1>2. at = "donation" /\ at' = "fee" /\ UNCHANGED block /\ todo' = todo
  BY DEF KeepPoolFee
<1>3. UNCHANGED <<shares, total, reward, extra, donate, keeps>>
  BY <1>2 DEF block
<1>4. /\ Donation' = Donation /\ PoolRest' = PoolRest
      /\ \A k \in DOMAIN shares : (WorkerReward(k))' = WorkerReward(k)
  BY <1>3 DEF Donation, PoolRest, PoolProfit, Fee, WorkerReward, MinersProfit, Left
<1>5. PoolRest \in Nat
  BY <1>1, AmountsAreNat
<1>6. ASSUME NEW k \in Logins
      PROVE  /\ (Owed(k))' = Owed(k) + (IF k = PoolFeeAddress /\ keeps THEN PoolRest ELSE 0)
             /\ (Amounts(k))' = Amounts(k) + (IF k = PoolFeeAddress /\ keeps THEN 1 ELSE 0)
  <2>1. Shared(k) \in Nat /\ Donated(k) \in Nat
    BY <1>1, OwedType
  <2>2. (Shared(k))' = Shared(k) /\ (Donated(k))' = Donated(k)
    BY <1>2, <1>3, <1>4 DEF Shared, Donated
  <2>3. Kept(k) = 0
    BY <1>2 DEF Kept
  <2>4. (Kept(k))' = IF k = PoolFeeAddress /\ keeps THEN PoolRest ELSE 0
    BY <1>2, <1>3, <1>4 DEF Kept
  <2>5. (Owed(k))' = (Shared(k))' + (Donated(k))' + (Kept(k))'
    BY DEF Owed
  <2>6. Owed(k) = Shared(k) + Donated(k) + Kept(k)
    BY DEF Owed
  <2>7. (Owed(k))' = Owed(k) + (IF k = PoolFeeAddress /\ keeps THEN PoolRest ELSE 0)
    BY <1>5, <2>1, <2>2, <2>3, <2>4, <2>5, <2>6
  <2>8. (Amounts(k))' = Amounts(k) + (IF k = PoolFeeAddress /\ keeps THEN 1 ELSE 0)
    BY <1>2, <1>3 DEF Amounts
  <2>9. QED
    BY <2>7, <2>8
<1>7. CASE keeps
  <2>1. Add(PoolFeeAddress, PoolRest)
    BY <1>7 DEF KeepPoolFee
  <2>2. PoolFeeAddress \in Logins
    BY RewardsAssumption
  <2>3. QED
    BY <1>2, <1>5, <1>6, <1>7, <2>1, <2>2, NearStep
<1>8. CASE ~ keeps
  <2>1. rewards' = rewards
    BY <1>8 DEF KeepPoolFee
  <2>2. \A k \in Logins : Owed(k) \in Nat /\ Amounts(k) \in Nat
    BY <1>1, OwedType
  <2>3. \A k \in Logins : (Owed(k))' = Owed(k) /\ (Amounts(k))' = Amounts(k)
    BY <1>6, <1>8, <2>2
  <2>4. QED
    BY <1>2, <2>1, <2>3, NearStay
<1>9. QED
  BY <1>7, <1>8

\* A round that is not empty has shares.
LEMMA InitIInv ==
  ASSUME Init
  PROVE  IInv
<1>1. PICK S \in (SUBSET Logins) \ {{}} : shares \in [S -> 1 .. MaxShares]
  BY DEF Init
<1>2. DOMAIN shares = S /\ \A l \in S : shares[l] \in Nat /\ shares[l] >= 1
  BY <1>1, RewardsAssumption
<1>3. PICK y \in S : TRUE
  <2>1. S # {}
    OBVIOUS
  <2>2. QED
    BY <2>1
<1>4. IsFiniteSet(S)
  BY <1>1, RewardsAssumption, FS_Subset
<1>5. total = SumFunctionOnSet(shares, S)
  BY <1>2 DEF Init, SumFunction
<1>6. total \in Nat \ {0}
  <2>1. SumFunctionOnSet(shares, S) = shares[y] + SumFunctionOnSet(shares, S \ {y})
    BY <1>2, <1>3, <1>4, SumSplit
  <2>2. /\ SumFunctionOnSet(shares, S \ {y}) \in Int
        /\ SumFunctionOnSet(shares, S \ {y}) >= 0
    <3> DEFINE r == S \ {y}
    <3>1. IsFiniteSet(r) /\ \A x \in r : shares[x] \in Int /\ shares[x] >= 0
      BY <1>2, <1>4, FS_Subset
    <3> HIDE DEF r
    <3>2. SumFunctionOnSet(shares, r) \in Int /\ SumFunctionOnSet(shares, r) >= 0
      BY <3>1, SumType
    <3>3. QED
      BY <3>2 DEF r
  <2>3. QED
    BY <1>2, <1>3, <1>5, <2>1, <2>2
<1>7. Types
  BY <1>1, <1>2, <1>5, <1>6, RewardsAssumption DEF Init, Types
<1>8. NearOwed
  <2>1. SUFFICES ASSUME NEW l \in Logins
                 PROVE  Within(2 * (rewards[l] * Unit - Owed(l)), Amounts(l) * Unit)
    BY DEF NearOwed
  <2>2. rewards[l] = 0 /\ Owed(l) = 0 /\ Amounts(l) = 0
    BY DEF Init, Owed, Shared, Donated, Kept, Amounts
  <2>3. Unit \in Int
    BY <1>7, AmountsAreNat
  <2>4. QED
    BY <2>2, <2>3 DEF Within
<1>9. QED
  BY <1>7, <1>8 DEF IInv

\* Every step keeps the invariant.
LEMMA StepIInv ==
  ASSUME IInv, [Next]_vars
  PROVE  IInv'
<1>1. NearOwed' /\ rewards' \in [Logins -> Int]
  <2>1. CASE UNCHANGED vars
    BY <2>1, NearStay
       DEF vars, block, Owed, Shared, Donated, Kept, Amounts, WorkerReward, MinersProfit,
           Left, Donation, PoolProfit, Fee, PoolRest
  <2>2. QED
    BY <2>1, RewardWorkerStep, DonateStep, KeepPoolFeeStep DEF Next
<1>2. Types'
  BY <1>1, TypesStep DEF IInv
<1>3. QED
  BY <1>1, <1>2 DEF IInv

\* The invariant: the amounts, and what was given is near what is owed.
THEOREM Invariance == Spec => []IInv
<1>1. Init => IInv
  BY InitIInv
<1>2. IInv /\ [Next]_vars => IInv'
  BY StepIInv
<1>3. QED
  BY <1>1, <1>2, PTL DEF Spec

\* Each login is given what it is owed, but for half a Shannon of each amount
\* that was added for it (calculateRewards, unlocker.go:445-475).
THEOREM EachIsGivenItsDue == Spec => []NearOwed
<1>1. IInv => NearOwed
  BY DEF IInv
<1>2. QED
  BY <1>1, Invariance, PTL

-----------------------------------------------------------------------------
(* All of it together *)

\* The shares of the miners add up to the miners' profit.
LEMMA SharedTotal ==
  ASSUME Types, at = "fee"
  PROVE  SumFunctionOnSet([l \in Logins |-> Shared(l)], Logins) = (MinersProfit * Whole) * total
<1> DEFINE S == DOMAIN shares
           f == [l \in Logins |-> Shared(l)]
           c == MinersProfit * Whole
<1>1. IsFiniteSet(Logins) /\ IsFiniteSet(S) /\ S \in SUBSET Logins
  BY RewardsAssumption, FS_Subset DEF Types
<1>2. todo = {}
  BY DEF Types
<1>3. \A l \in S : f[l] = WorkerReward(l)
  BY <1>1, <1>2 DEF Shared
<1>4. \A l \in Logins \ S : f[l] = 0
  BY <1>2 DEF Shared
<1>5. MinersProfit \in Nat /\ Whole \in Nat /\ c \in Int /\ \A l \in S : shares[l] \in Int
  BY AmountsAreNat, RewardsAssumption DEF Types
<1>6. \A l \in S : WorkerReward(l) = c * shares[l]
  BY <1>5 DEF WorkerReward
<1>7. \A l \in Logins : f[l] \in Int
  BY OwedType
<1>8. total = SumFunctionOnSet(shares, S)
  BY DEF Types
<1> HIDE DEF S, f, c
<1>9. SumFunctionOnSet(f, S) = c * SumFunctionOnSet(shares, S)
  BY <1>1, <1>3, <1>5, <1>6, SumTimes
<1>10. SumFunctionOnSet(f, Logins) = SumFunctionOnSet(f, S)
  BY <1>1, <1>4, <1>7, SumSupport
<1>11. QED
  BY <1>8, <1>9, <1>10 DEF f, c

\* The fees divide what they are taken from.
LEMMA FeesDivide ==
  ASSUME NEW w \in Int, NEW t \in Int, NEW r \in Int, NEW e \in Int,
         NEW p \in Int, NEW d \in Int
  PROVE  LET m == r * (w - p)
             q == r * p + e * w
         IN /\ (m * w) * t + (q * w) * t = (r + e) * ((w * w) * t)
            /\ (q * d) * t + (q * (w - d)) * t = (q * w) * t
<1> DEFINE m == r * (w - p)
           q == r * p + e * w
<1>1. m + q = (r + e) * w
  OBVIOUS
<1>2. m \in Int /\ q \in Int
  OBVIOUS
<1>3. (m * w) * t + (q * w) * t = ((m + q) * w) * t
  <2> HIDE DEF m, q
  <2>1. QED
    BY <1>2
<1>4. ((m + q) * w) * t = (r + e) * ((w * w) * t)
  <2> DEFINE x == r + e
  <2>1. x \in Int
    OBVIOUS
  <2>2. ((x * w) * w) * t = x * ((w * w) * t)
    <3> HIDE DEF x
    <3>1. QED
      BY <2>1
  <2>3. QED
    BY <1>1, <2>2
<1>5. (q * d) * t + (q * (w - d)) * t = (q * w) * t
  <2> HIDE DEF q
  <2>1. QED
    BY <1>2
<1>6. QED
  BY <1>3, <1>4, <1>5

\* All that is owed adds up to what the block brought.
LEMMA OwedTotal ==
  ASSUME Types, at = "fee"
  PROVE  SumFunctionOnSet([l \in Logins |-> Owed(l)], Logins) =
           (reward + extra) * Wei - (IF keeps THEN 0 ELSE PoolRest)
<1> DEFINE f == [l \in Logins |-> Shared(l)]
           g == [l \in Logins |-> Donated(l)]
           h == [l \in Logins |-> Kept(l)]
           fg == [l \in Logins |-> Shared(l) + Donated(l)]
           o == [l \in Logins |-> Owed(l)]
           Sum(x) == SumFunctionOnSet(x, Logins)
<1>1. IsFiniteSet(Logins) /\ DonationAccount \in Logins /\ PoolFeeAddress \in Logins
  BY RewardsAssumption
<1>2. \A l \in Logins : f[l] \in Int /\ g[l] \in Int /\ h[l] \in Int /\ fg[l] \in Int
  BY OwedType
<1>3. \A l \in Logins : fg[l] = f[l] + g[l] /\ o[l] = fg[l] + h[l]
  BY DEF Owed
<1>4. Sum(f) = (MinersProfit * Whole) * total
  BY SharedTotal
<1>5. Sum(g) = Donation
  <2>1. \A l \in Logins \ {DonationAccount} : g[l] = 0
    BY DEF Donated
  <2>2. g[DonationAccount] = Donation
    BY <1>1 DEF Donated, Donation
  <2> HIDE DEF g
  <2>3. QED
    BY <1>1, <1>2, <2>1, <2>2, SumSingle
<1>6. Sum(h) = IF keeps THEN PoolRest ELSE 0
  <2>1. \A l \in Logins \ {PoolFeeAddress} : h[l] = 0
    BY DEF Kept
  <2>2. h[PoolFeeAddress] = IF keeps THEN PoolRest ELSE 0
    BY <1>1 DEF Kept
  <2> HIDE DEF h
  <2>3. QED
    BY <1>1, <1>2, <2>1, <2>2, SumSingle
<1>7. Sum(fg) = Sum(f) + Sum(g)
  <2> HIDE DEF f, g, fg
  <2>1. QED
    BY <1>1, <1>2, <1>3, SumPlus
<1>8. Sum(o) = Sum(fg) + Sum(h)
  <2> HIDE DEF fg, h, o
  <2>1. QED
    BY <1>1, <1>2, <1>3, SumPlus
<1>9. (MinersProfit * Whole) * total + (PoolProfit * Whole) * total = (reward + extra) * Wei
  <2>1. /\ Whole \in Int /\ total \in Int /\ reward \in Int /\ extra \in Int
        /\ PoolFee \in Int /\ DonationFee \in Int
    BY RewardsAssumption DEF Types
  <2>2. QED
    BY <2>1, FeesDivide DEF MinersProfit, PoolProfit, Left, Fee, Wei
<1>10. Donation + PoolRest = (PoolProfit * Whole) * total
  <2>1. /\ Whole \in Int /\ total \in Int /\ reward \in Int /\ extra \in Int
        /\ PoolFee \in Int /\ DonationFee \in Int
    BY RewardsAssumption DEF Types
  <2>2. (PoolProfit * DonationFee) * total + (PoolProfit * (Whole - DonationFee)) * total
          = (PoolProfit * Whole) * total
    BY <2>1, FeesDivide DEF PoolProfit, Fee
  <2>3. PoolProfit \in Nat
    BY AmountsAreNat
  <2>4. (PoolProfit * Whole) * total \in Int
    BY <2>1, <2>3
  <2>5. QED
    BY <2>2, <2>4 DEF Donation, PoolRest, Fee, Left
<1>11. (MinersProfit * Whole) * total \in Int /\ Donation \in Int /\ PoolRest \in Int
  BY AmountsAreNat, RewardsAssumption DEF Types
<1>12. Sum(o) = (reward + extra) * Wei - (IF keeps THEN 0 ELSE PoolRest)
  <2> DEFINE a == (MinersProfit * Whole) * total
             b == (PoolProfit * Whole) * total
             z == (reward + extra) * Wei
  <2>1. a + (Donation + PoolRest) = z
    BY <1>9, <1>10
  <2>2. Sum(o) = (a + Donation) + (IF keeps THEN PoolRest ELSE 0)
    BY <1>4, <1>5, <1>6, <1>7, <1>8
  <2> HIDE DEF a, z, Sum, o
  <2>3. a \in Int
    BY <1>11 DEF a
  <2>4. Sum(o) = z - (IF keeps THEN 0 ELSE PoolRest)
    BY <1>11, <2>1, <2>2, <2>3
  <2>5. QED
    BY <2>4 DEF z
<1>13. QED
  BY <1>12

\* What is near for each is near for all.
LEMMA NearTogether ==
  ASSUME NEW S, IsFiniteSet(S), NEW r, NEW o, NEW n, NEW u \in Int,
         \A x \in S : r[x] \in Int /\ o[x] \in Int /\ n[x] \in Int,
         \A x \in S : Within(2 * (r[x] * u - o[x]), n[x] * u)
  PROVE  Within(2 * (SumFunctionOnSet(r, S) * u - SumFunctionOnSet(o, S)),
                SumFunctionOnSet(n, S) * u)
<1> DEFINE Sum(x) == SumFunctionOnSet(x, S)
           R == [x \in S |-> u * r[x]]
           D == [x \in S |-> u * r[x] - o[x]]
           F == [x \in S |-> 2 * (u * r[x] - o[x])]
           G == [x \in S |-> u * n[x]]
           M == [x \in S |-> -1 * (u * n[x])]
<1>1. \A x \in S : u * r[x] \in Int /\ u * n[x] \in Int
  OBVIOUS
<1>2. \A x \in S : R[x] \in Int /\ D[x] \in Int /\ F[x] \in Int /\ G[x] \in Int /\ M[x] \in Int
  BY <1>1
<1>3. \A x \in S : /\ R[x] = u * r[x] /\ R[x] = D[x] + o[x] /\ F[x] = 2 * D[x]
                   /\ G[x] = u * n[x] /\ M[x] = -1 * G[x]
  BY <1>1
<1>4. \A x \in S : M[x] <= F[x] /\ F[x] <= G[x]
  <2>1. SUFFICES ASSUME NEW x \in S PROVE M[x] <= F[x] /\ F[x] <= G[x]
    OBVIOUS
  <2>2. r[x] * u = u * r[x] /\ n[x] * u = u * n[x]
    OBVIOUS
  <2>3. Within(2 * (u * r[x] - o[x]), u * n[x])
    BY <2>2
  <2>4. Within(F[x], G[x])
    BY <2>3
  <2> HIDE DEF F, G, M
  <2>5. QED
    BY <1>2, <1>3, <2>4 DEF Within
<1> HIDE DEF R, D, F, G, M
<1>5. Sum(R) = u * Sum(r)
  BY <1>3, SumTimes
<1>6. Sum(R) = Sum(D) + Sum(o)
  BY <1>2, <1>3, SumPlus
<1>7. Sum(F) = 2 * Sum(D)
  BY <1>2, <1>3, SumTimes
<1>8. Sum(G) = u * Sum(n)
  BY <1>3, SumTimes
<1>9. Sum(M) = -1 * Sum(G)
  <2> DEFINE c == -1
  <2>1. c \in Int /\ \A x \in S : G[x] \in Int /\ M[x] = c * G[x]
    BY <1>2, <1>3
  <2> HIDE DEF c
  <2>2. Sum(M) = c * Sum(G)
    BY <2>1, SumTimes
  <2>3. Sum(G) \in Int
    BY <1>2, SumType
  <2>4. QED
    BY <2>2, <2>3 DEF c
<1>10. Sum(M) <= Sum(F) /\ Sum(F) <= Sum(G)
  BY <1>2, <1>4, SumBound
<1>11. Sum(r) \in Int /\ Sum(o) \in Int /\ Sum(n) \in Int /\ Sum(D) \in Int
  BY <1>2, SumType
<1> HIDE DEF Sum
<1>12. Sum(r) * u = u * Sum(r) /\ Sum(n) * u = u * Sum(n)
  BY <1>11
<1>13. u * Sum(r) \in Int /\ u * Sum(n) \in Int
  BY <1>11
<1>14. 2 * (u * Sum(r) - Sum(o)) = Sum(F)
  BY <1>5, <1>6, <1>7, <1>11, <1>13
<1>15. Within(Sum(F), Sum(G))
  BY <1>7, <1>8, <1>9, <1>10, <1>11, <1>13 DEF Within
<1>16. Within(2 * (Sum(r) * u - Sum(o)), Sum(n) * u)
  BY <1>8, <1>12, <1>14, <1>15
<1>17. QED
  BY <1>16 DEF Sum

\* The invariant is enough: at the end the rewards add up.
LEMMA IInvAddsUp ==
  ASSUME IInv
  PROVE  AddUp
<1>1. SUFFICES ASSUME at = "fee" PROVE AddUp
  BY DEF AddUp
<1>2. Types /\ NearOwed /\ IsFiniteSet(Logins)
  BY RewardsAssumption DEF IInv
<1> DEFINE o == [l \in Logins |-> Owed(l)]
           n == [l \in Logins |-> Amounts(l)]
<1>3. \A l \in Logins : rewards[l] \in Int /\ o[l] \in Int /\ n[l] \in Int
  BY <1>2, OwedType DEF Types
<1>4. Unit \in Int
  BY <1>2, AmountsAreNat
<1>5. \A l \in Logins : Within(2 * (rewards[l] * Unit - o[l]), n[l] * Unit)
  BY <1>2 DEF NearOwed
<1>6. DOMAIN rewards = Logins /\ DOMAIN n = Logins
  BY <1>2 DEF Types
<1>7. SumFunctionOnSet(o, Logins) = (reward + extra) * Wei - (IF keeps THEN 0 ELSE PoolRest)
  BY <1>1, <1>2, OwedTotal
<1>8. SumFunction(rewards) = SumFunctionOnSet(rewards, Logins)
      /\ SumFunction(n) = SumFunctionOnSet(n, Logins)
  BY <1>6 DEF SumFunction
<1> HIDE DEF o, n
<1>9. Within(2 * (SumFunctionOnSet(rewards, Logins) * Unit - SumFunctionOnSet(o, Logins)),
             SumFunctionOnSet(n, Logins) * Unit)
  BY <1>2, <1>3, <1>4, <1>5, NearTogether
<1>10. QED
  BY <1>1, <1>7, <1>8, <1>9 DEF AddUp, n

\* In the end the rewards add up to the block's reward and what its transactions
\* brought, less a rest no address is configured for, but for half a Shannon of
\* each amount (calculateRewards, unlocker.go:445-475).
THEOREM RewardsAddUp == Spec => []AddUp
<1>1. IInv => AddUp
  BY IInvAddsUp
<1>2. QED
  BY <1>1, Invariance, PTL

=============================================================================
