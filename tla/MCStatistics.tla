---------------------------- MODULE MCStatistics ----------------------------
\* The statistics on a small instance for TLC.
EXTENDS Statistics, TLC

CONSTANTS l1, l2
=============================================================================
