------------------------------- MODULE MCHook -------------------------------
\* Instances of Hook for TLC.
EXTENDS Hook

\* Two calls on the first socket, the second of which may meet the first one's
\* late timer callback, and one call on its successor.
TwoThenOne == [f \in Fibers |-> IF f[2] = 1 THEN 2 ELSE 1]

\* One call for each fiber.
OneEach == [f \in Fibers |-> 1]

\* The first socket is connected, the second one accepted.
FirstConnects == {f \in Fibers : f[1] = "WRITE" /\ f[2] = 1}
=============================================================================
