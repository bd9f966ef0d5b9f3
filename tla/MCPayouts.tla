----------------------------- MODULE MCPayouts ------------------------------
\* The payouts module on a small instance for TLC.
EXTENDS Payouts, TLC

MCRewards == [Logins -> 0 .. 2] \ {[l \in Logins |-> 0]}

Symmetry == Permutations(Logins)
=============================================================================
