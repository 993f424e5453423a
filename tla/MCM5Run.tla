------------------------------- MODULE MCM5Run -------------------------------
(***************************************************************************)
(* The official command on a cohort of two members in two shards, one      *)
(* metric key each: an ego, two vehicles and a pedestrian over six frames, *)
(* of which the second is the current one. The cohort indices do not       *)
(* follow the order of the shards.                                         *)
(***************************************************************************)
EXTENDS M5Run

CONSTANTS k1, k2

MCKeys       == {k1, k2}
MCPartFiles  == {"part-00000", "part-00001"}
MCPartNumber == [f \in MCPartFiles |-> IF f = "part-00000" THEN 0 ELSE 1]
MCExpected   == [d \in Datasets |-> IF d = "metric-results" THEN MCKeys ELSE {k1}]
MCCaseKeys   == [f \in MCPartFiles |-> IF f = "part-00000" THEN {k1} ELSE {k2}]
MCShardMembers == <<<<1>>, <<0>>>>

State(valid, pos, spd) == [valid |-> valid, pos |-> pos, spd |-> spd]
Payload == State(FALSE, 1000, 0)

\* An agent that has these speeds, from a position on, and is there at some frames.
Track(start, speeds, validAt) ==
  [t \in 0..LastFrame |->
     IF t \in validAt
     THEN State(TRUE, start + MapThenSumSet(LAMBDA s : 2 * (speeds[s + 1] + speeds[s + 2]),
                                            0..(t - 1)), speeds[t + 1])
     ELSE Payload]

All == 0..LastFrame
Steady == <<2, 2, 2, 2, 2, 2>>
Slowing == <<3, 3, 2, 1, 1, 1>>
Starting == <<1, 1, 2, 3, 3, 3>>
Walking == <<1, 1, 1, 1, 1, 1>>
Scene(lane, turn, ego, first, second, walker) ==
  [log |-> [t \in All |-> (0 :> ego[t]) @@ (1 :> first[t]) @@ (2 :> second[t])
                            @@ (3 :> walker[t])],
   lane |-> lane, turn |-> turn]

Absent == Track(0, Steady, {})
Lead == Track(60, Steady, All)
Following == Scene(TRUE, FALSE, Lead, Track(52, Slowing, All), Absent, Absent)
Crowded == Scene(TRUE, TRUE, Lead, Track(40, Starting, All),
                 Track(20, Slowing, All \ {3}), Track(90, Walking, All))
Born == Scene(FALSE, FALSE, Lead, Track(20, Starting, {1, 2, 3}),
              Track(46, Steady, {3, 4, 5}), Track(70, Walking, {0, 1, 4, 5}))
Fast == Scene(TRUE, FALSE, Lead, Track(30, <<3, 3, 3, 1, 3, 3>>, All), Absent,
              Track(80, Walking, {4, 5}))
\* M4 takes it for a vehicle at two frames; nobody is there for three.
Passing == Scene(TRUE, FALSE, Lead, Track(30, Steady, {1, 2}), Absent, Absent)
Other == Scene(FALSE, FALSE, Absent, Absent, Absent, Absent)

Cohort(a, b) == (0 :> a) @@ (1 :> b)
MCCohorts == {Cohort(Crowded, Born), Cohort(Fast, Following), Cohort(Fast, Passing)}
=============================================================================
