---------------------------- MODULE MCM6Reservation ----------------------------
(***************************************************************************)
(* Three commands for one run name, new or used before.                      *)
(***************************************************************************)
EXTENDS M6Reservation, TLC

CONSTANTS p1, p2, p3

MCProcesses == {p1, p2, p3}

\* No action prefers one command to another.
Symmetry == Permutations(MCProcesses)
=============================================================================
