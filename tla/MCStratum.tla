----------------------------- MODULE MCStratum -----------------------------
\* The Stratum sessions on a small instance for TLC.
EXTENDS Stratum, TLC

CONSTANTS x1, x2
=============================================================================
