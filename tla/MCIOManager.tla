---------------------------- MODULE MCIOManager ----------------------------
\* Instances of IOManager for TLC.
EXTENDS IOManager, TLC

CONSTANTS k1, k2, i1, i2

\* The last descriptor is waited for twice in one direction, so that a report may
\* meet the next registration, and once in the other; the first one, past the end
\* of the initial table as well, once in one direction.
FewAdds ==
  [w \in Waiters |-> CASE w = <<4, "READ">> -> 2
                       [] w \in {<<4, "WRITE">>, <<3, "READ">>} -> 1
                       [] OTHER -> 0]

Symmetric == Permutations(Idlers)
=============================================================================
