------------------------------ MODULE MCShares ------------------------------
\* The proxy on a small instance for TLC.
EXTENDS Shares

CONSTANTS m1, m2, s1, s3

MCHeight == <<2, 3, 4>>

MCWork == [s \in Solutions |-> IF s = s1 THEN 1 ELSE 3]

MCMiner == [s \in Solutions |-> IF s = s1 THEN m1 ELSE m2]
=============================================================================
