------------------------------ MODULE MCM6Evidence ------------------------------
(***************************************************************************)
(* Four scenes, six evaluations of them.  Everything holds for the         *)
(* reference evaluation, which qualifies more scenes than are selected; the*)
(* others each differ in their own way: too few responders and a smaller   *)
(* selection, a second pass that differs, a violated gate, no b=4 scene and*)
(* too few for Waymax, and too few scenes for anything.  The caller has the*)
(* reference and one other at hand, or only the sparse one.                *)
(***************************************************************************)
EXTENDS M6Evidence

MCScenes == 1 .. 4
MCRank   == <<2, 4, 1, 3>>
MCGates  == {"sham_legacy_equality", "nested_dose_monotonicity"}

Reference ==
  [eligible |-> 1 .. 4, feasible |-> 1 .. 4, qualified |-> 1 .. 4,
   first |-> 1 .. 3, second |-> 1 .. 3, later |-> 2 .. 3,
   violated |-> {}]

MCFacts ==
  [reference |-> Reference,
   timid     |-> [Reference EXCEPT !.first = 1 .. 2, !.second = 1 .. 2,
                                   !.later = {3}, !.qualified = 2 .. 3],
   unsteady  |-> [Reference EXCEPT !.second = 1 .. 2],
   violating |-> [Reference EXCEPT !.violated = {"sham_legacy_equality"}],
   sparse    |-> [Reference EXCEPT !.eligible = 1 .. 3, !.feasible = {},
                                   !.qualified = 1 .. 1, !.later = {},
                                   !.violated = {"nested_dose_monotonicity"}],
   scarce    |-> [Reference EXCEPT !.eligible = 1 .. 2, !.feasible = {},
                                   !.qualified = 1 .. 1,
                                   !.first = 1 .. 2, !.second = 1 .. 2, !.later = {}]]

MCEvaluations == DOMAIN MCFacts

MCHands == {{"reference", e} : e \in MCEvaluations \ {"reference"}} \union {{"sparse"}}
================================================================================
