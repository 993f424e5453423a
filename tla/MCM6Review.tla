----------------------------- MODULE MCM6Review -----------------------------
(***************************************************************************)
(* One run command and two finalize-review commands on one run.            *)
(***************************************************************************)
EXTENDS M6Review, TLC

CONSTANTS run, f1, f2

MCFinalizers == {f1, f2}

Symmetry == Permutations(MCFinalizers)
=============================================================================
