------------------------------ MODULE MCM6Waymax ------------------------------
(***************************************************************************)
(* Four transitions of four slots.  The target follows the ego and brakes  *)
(* when it does.  In "plain" a second vehicle follows the target, in       *)
(* "busy" one is born behind it, leaves, and a walker passes, in "parked"  *)
(* one overlaps the target's lane and stays with the log; "gap" and        *)
(* "uneven" do not qualify.  One cohort has a scene too many, one has just *)
(* enough, and one has none, so that its runs only contend.                *)
(***************************************************************************)
EXTENDS M6Waymax

MCAgents == {"ego", "target", "second", "walker"}

Rolling(x, v, from, to) ==
  [k \in 0 .. 4 |-> IF k \in from .. to THEN [x |-> x + v * k, v |-> v, valid |-> TRUE] ELSE Gone]

At(x, v) == [x |-> x, v |-> v, valid |-> TRUE]

Scenario(target, second, walker) ==
  [type |-> [ego |-> "vehicle", target |-> "vehicle", second |-> "vehicle", walker |-> "other"],
   log |-> [k \in 0 .. 4 |->
              [ego |-> Rolling(10, 2, 0, 4)[k], target |-> target[k],
               second |-> second[k], walker |-> walker[k]]],
   brake |-> (0 :> At(10, 2) @@ 1 :> At(11, 1) @@ 2 :> At(11, 0) @@ 3 :> At(11, 0) @@ 4 :> At(11, 0)),
   overlapping |-> {}, even |-> TRUE]

Follows == Rolling(4, 2, 0, 4)
Absent  == [k \in 0 .. 4 |-> Gone]

MCSource ==
  [plain  |-> Scenario(Follows, Rolling(0, 2, 0, 4), Absent),
   busy   |-> Scenario(Follows, Rolling(0, 2, 1, 3), Rolling(20, 1, 2, 4)),
   parked |-> [Scenario(Follows, Rolling(1, 0, 0, 4), Absent) EXCEPT !.overlapping = {"second"}],
   gap    |-> Scenario(Rolling(4, 2, 0, 2), Absent, Absent),
   uneven |-> [Scenario(Follows, Absent, Absent) EXCEPT !.even = FALSE]]

MCHolders ==
  <<"plain", "busy", "parked">> :> {{"official"}, {"pilot"}}
    @@ <<"gap", "parked", "uneven">> :> {{"official"}}
    @@ <<"gap">> :> {{"official", "pilot"}}

MCCohorts == DOMAIN MCHolders
================================================================================
