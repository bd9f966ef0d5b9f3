----------------------------- MODULE PoolLedger -----------------------------
(***************************************************************************)
(* The two modules that move money, over the accounts they share: payouts  *)
(* (module Payouts) and the unlocker, as far as its contract with the      *)
(* miners tells (module RewardContract, which Unlocker implements).  They  *)
(* run as processes of their own and meet in one command only: the MULTI   *)
(* of WriteMaturedBlock, which moves the row of a block and adds to the    *)
(* balances that payouts pay out.                                          *)
(***************************************************************************)
EXTENDS Payouts

CONSTANTS
  Blocks,   \* blocks the pool may find
  Share     \* Share[b][l]: the Shannon of b's reward that are l's

ASSUME BlocksAssumption == IsFiniteSet(Blocks) /\ Share \in [Blocks -> Rewards]

VARIABLES
  \* the unlocker's books and the chain, as in RewardContract
  stage, promised, kept

unlocker   == <<stage, promised, kept>>
ledgerVars == <<vars, unlocker>>

Settlement == INSTANCE RewardContract WITH earned <- credited

LedgerInit == Init /\ Settlement!Init

\* Mutant of WriteMaturedBlock: the row stays among the immature ones.
WriteMaturedKeeping(b) ==
  /\ stage[b] = "immature" /\ b \in kept
  /\ Credit(Share[b])
  /\ UNCHANGED unlocker

\* One MULTI of the unlocker: the block's row is matured, its promise taken
\* back, and each of its miners credited.
WriteMaturedBlock(b) == Settlement!Pay(b) /\ Credit(Share[b])

\* Payouts go on while the unlocker rests, and the other way round.
PayoutStep == Payout /\ UNCHANGED unlocker

UnlockerStep == Settlement!Unpaid /\ UNCHANGED vars

LedgerNext ==
  \/ PayoutStep
  \/ /\ Settlement!ChainGrows
     /\ UnlockerStep \/ \E b \in Blocks : WriteMaturedBlock(b)

LedgerSpec == LedgerInit /\ [][LedgerNext]_ledgerVars

\* Nothing makes the unlocker settle a block.
LedgerFairSpec == LedgerSpec /\ Fairness

-----------------------------------------------------------------------------
(* Properties *)

\* What the blocks of the chain have earned a miner for good.
Backing(l) == SumFunctionOnSet([b \in Blocks |-> Share[b][l]], kept)

\* The pool is solvent, whatever fails, but for what went astray: all else it has
\* sent a miner and what it still owes it are covered by the rewards of blocks the
\* chain keeps, and no balance is overdrawn.  It takes both modules: the unlocker
\* to credit each block once, and payouts to send each credit once.
PaymentsAreBacked ==
  \A l \in Logins :
    balance[l] >= 0 /\ sent[l] + balance[l] <= Backing(l) + astray[l]
=============================================================================
