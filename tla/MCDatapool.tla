----------------------------- MODULE MCDatapool -----------------------------
\* Model of Datapool for TLC: the constants are given by MCDatapool.cfg.
EXTENDS Datapool
=============================================================================
