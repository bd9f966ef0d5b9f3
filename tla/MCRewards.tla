----------------------------- MODULE MCRewards -----------------------------
\* The rewards of a block on a small instance for TLC.
EXTENDS Rewards, TLC

CONSTANTS m1, m2, m3
=============================================================================
