------------------------------ MODULE MCLedger ------------------------------
\* The ledger on a small instance for TLC: each block brings miner a a payment,
\* and both together bring one to b.
EXTENDS PoolLedger, TLC

CONSTANTS a, b, b1, b2

MCShare ==
  [block \in Blocks |-> [l \in Logins |->
    IF l = b THEN 1 ELSE IF block = b1 THEN 2 ELSE 3]]

MCRewards == {MCShare[block] : block \in Blocks}
=============================================================================
