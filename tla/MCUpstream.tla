----------------------------- MODULE MCUpstream -----------------------------
\* The upstreams on a small instance for TLC.
EXTENDS Upstream, TLC
=============================================================================
