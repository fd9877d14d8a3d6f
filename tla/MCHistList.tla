----------------------------- MODULE MCHistList -----------------------------
(* An instance of HistList in which some commands have the same hash value,  *)
(* and can therefore be exchanged.                                           *)
EXTENDS HistList

CONSTANTS x, y, z
MCHashOf == [w \in Words |-> IF w = z THEN 4 ELSE 3]
Symmetry == Permutations({x, y})
=============================================================================
