----------------------------- MODULE MCPiIndex -----------------------------
(* A small instance of PiIndex for TLC.                                    *)
EXTENDS PiIndex, TLC

CONSTANTS x, y, z, h1

\* Two entries of the first day and one of the second.
MCDays == [e \in {x, y, z} |-> IF e = z THEN 2 ELSE 1]
MCOneDay == [e \in {x, y} |-> 1]

Symmetry == Permutations(Paths) \cup Permutations(Inodes) \cup Permutations({x, y})

\* The last of the writes only on the first day.
MCBound == writes = MaxWrites => today = 1
=============================================================================
