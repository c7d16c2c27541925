------------------------ MODULE MCRuntimeActivation ------------------------
(* Instances of RuntimeActivation for TLC: one unit of each manager.       *)
EXTENDS RuntimeActivation

CONSTANTS A, B, C, D, sys, usr, r1, r2, bad

Both(s, u) == [x \in {sys, usr} |-> IF x = sys THEN s ELSE u]

\* B's user service does not come up, and D has none.
FourManifests ==
  [m \in {A, B, C, D} |-> CASE m = A -> Both(r1, r1) [] m = B -> Both(r2, bad)
                            [] m = C -> Both(r2, r2) [] m = D -> Both(r1, None)]
=============================================================================
