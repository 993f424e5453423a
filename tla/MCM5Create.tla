------------------------------ MODULE MCM5Create ------------------------------
(***************************************************************************)
(* Three processes: one that loses, one that wins and one that comes later *)
(***************************************************************************)
EXTENDS M5Create, TLC

CONSTANTS p1, p2, p3

MCProcesses == {p1, p2, p3}

\* No action prefers one process to another.
Symmetry == Permutations(MCProcesses)
=============================================================================
