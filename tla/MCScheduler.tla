---------------------------- MODULE MCScheduler ----------------------------
\* Instances of Scheduler for TLC: who is pinned where, and what each callback
\* may do.
EXTENDS Scheduler, TLC

CONSTANTS w1, w2, c1, c2, c3, f1, f2, f3

Symmetric == Permutations(Fibers)

\* Nobody is pinned; or two callbacks are pinned to workers and one to the owner.
Unpinned == [c \in Callbacks |-> AnyThread]
PinAll == [c \in Callbacks |->
             IF c = c1 THEN w1 ELSE IF c = c2 THEN Root ELSE w2]

\* c1 may schedule the others from inside; c3, a user's fiber, may yield READY,
\* after which any thread may resume it.
Pooled == [c \in Callbacks |->
             IF c = c1 THEN {"schedule"} ELSE IF c = c3 THEN {"ready"} ELSE {}]

\* Everything callbacks can do on one thread: c1, a user's fiber, yields and
\* waits, c2 does both in the thread's cb_fiber and schedules, c3 may throw.
Cooperative == [c \in Callbacks |->
                  IF c = c1 THEN {"ready", "hold"}
                  ELSE IF c = c2 THEN {"ready", "hold", "schedule"} ELSE {"throw"}]

\* Callbacks that wait and nothing else.
Holds == [c \in Callbacks |-> {"hold"}]
=============================================================================
