----------------------------- MODULE MCPolicy -----------------------------
\* The policy on a small instance for TLC: two sessions of one IP.
EXTENDS Policy, TLC

CONSTANTS p, x1, x2

MCIP == [x \in Sessions |-> p]
=============================================================================
