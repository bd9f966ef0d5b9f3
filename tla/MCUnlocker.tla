----------------------------- MODULE MCUnlocker -----------------------------
\* The unlocker on a small instance for TLC: two blocks that compete for one
\* height, at most one at the next, and two accounts with unequal shares.
EXTENDS Unlocker, TLC

CONSTANTS b1, b2, b3, l1, l2

MCHeight == [b \in Blocks |-> IF b = b3 THEN 2 ELSE 1]

MCShare ==
  [b \in Blocks |-> [l \in Logins |->
    CASE b = b1 -> IF l = l1 THEN 1 ELSE 2
      [] b = b2 -> IF l = l1 THEN 3 ELSE 0
      [] OTHER -> IF l = l1 THEN 2 ELSE 5]]
=============================================================================
