--------------------------- MODULE MCTimerManager ---------------------------
\* Instances of TimerManager for TLC.
EXTENDS TimerManager, TLC

CONSTANTS t1, t2, t3, w1, w2

Symmetric == Permutations(Idlers)
=============================================================================
