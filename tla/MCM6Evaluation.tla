---------------------------- MODULE MCM6Evaluation ----------------------------
(***************************************************************************)
(* Two cases, each with one scenario of several: an ego, a follower and    *)
(* one other agent over six frames, of which the second is the current one.*)
(***************************************************************************)
EXTENDS M6Official

State(valid, pos, spd) == [valid |-> valid, pos |-> pos, spd |-> spd]
Payload == State(FALSE, 1000, 0)

\* Positions of an agent that has these speeds, from the first of its frames on.
Positions(start, spd) ==
  [t \in 0..LastFrame |->
     start + MapThenSumSet(LAMBDA s : 2 * (spd[s] + spd[s + 1]), 0..(t - 1))]

Track(start, speeds, validAt) ==
  LET spd == [t \in 0..LastFrame |-> speeds[t + 1]]
      pos == Positions(start, spd)
  IN  [t \in 0..LastFrame |->
         IF t \in validAt THEN State(TRUE, pos[t], spd[t]) ELSE Payload]

All == 0..LastFrame
Scenario(ego, follower, other) ==
  [t \in All |-> (0 :> ego[t]) @@ (1 :> follower[t]) @@ (2 :> other[t])]

Egos == {Track(40, <<3, 3, 3, 3, 3, 3>>, All),
         Track(40, <<3, 3, 2, 2, 2, 2>>, All),
         Track(40, <<2, 2, 3, 3, 3, 3>>, All),
         Track(40, <<1, 1, 1, 1, 1, 1>>, All),
         Track(40, <<3, 3, 3, 3, 3, 3>>, 0..(LastFrame - 1))}
Followers == {Track(16, <<3, 3, 3, 3, 3, 3>>, All),
              Track(8, <<3, 3, 3, 2, 2, 2>>, All)}
Others == {Track(2, <<3, 3, 3, 3, 3, 3>>, All \ {2}),
           Track(30, <<3, 3, 3, 3, 3, 3>>, 2..LastFrame),
           Track(60, <<4, 4, 4, 4, 4, 4>>, {0, 1, 2, 4, 5})}

Steady == <<3, 3, 3, 3, 3, 3>>
Behind == Track(16, Steady, All)
MCAlternates == {Scenario(Track(40, Steady, All), Track(12, Steady, All),
                          Track(2, Steady, All))}
MCSources ==
  [c \in Cases |->
     IF c = 1 THEN {Scenario(e, f, o) : e \in Egos, f \in Followers, o \in Others}
     ELSE {Scenario(Track(40, <<1, 1, 1, 1, 1, 1>>, All), Behind, Behind),
           Scenario(Track(40, Steady, All), Behind, Track(2, Steady, 2..LastFrame))}]
=============================================================================
