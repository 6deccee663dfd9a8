------------------------------ MODULE TaskPool ------------------------------
(***************************************************************************)
(* What a scheduler promises its users, with no threads, queues or fibers: *)
(* every scheduled callback is queued, runs, may be suspended and queued   *)
(* again, and finishes once; stop() returns only when nothing is queued    *)
(* and nothing runs, and after it has returned nothing happens any more.   *)
(***************************************************************************)
CONSTANT Callbacks

VARIABLES
  status,   \* status[c]: where callback c is in its life
  closed    \* TRUE once stop() has returned

pvars == <<status, closed>>

Statuses == {"new", "queued", "running", "suspended", "done"}

\* The life of a callback.  "queued -> running" covers the first start and
\* every resumption: the pool does not tell them apart.
Transitions ==
  { <<"new", "queued">>, <<"queued", "running">>, <<"running", "queued">>,
    <<"running", "suspended">>, <<"suspended", "queued">>,
    <<"running", "done">> }

PoolInit ==
  /\ status = [c \in Callbacks |-> "new"]
  /\ closed = FALSE

Advance(c) ==
  /\ ~closed
  /\ \E s \in Statuses :
       /\ <<status[c], s>> \in Transitions
       /\ status' = [status EXCEPT ![c] = s]
  /\ UNCHANGED closed

Close ==
  /\ ~closed
  /\ \A c \in Callbacks : status[c] \notin {"queued", "running"}
  /\ closed' = TRUE
  /\ UNCHANGED status

PoolNext == Close \/ \E c \in Callbacks : Advance(c)

PoolSpec == PoolInit /\ [][PoolNext]_pvars
=============================================================================
