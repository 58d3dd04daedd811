--------------------------- MODULE MCInterSatComm ---------------------------
(* Instances of InterSatComm for TLC.                                      *)
EXTENDS InterSatComm, TLC

CONSTANTS c1, c2, x, y, f1, f2

\* Connections, names and descriptors are interchangeable.
Symmetry == Permutations(Conns) \union Permutations(Names) \union Permutations(Fds)
=============================================================================
