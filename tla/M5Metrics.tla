------------------------------ MODULE M5Metrics ------------------------------
(***************************************************************************)
(* What is measured of a rollout, and who is asked for it: the thirteen    *)
(* metrics with their eligibility, which is read off the source alone      *)
(* (evalsim/metrics/m5.py), the eight slices (evalsim/slices/m5.py), and   *)
(* the paired cells of the scorecard (evalsim/stats/m5.py).                *)
(*                                                                         *)
(* A scene is a log of RolloutEngine with what the lane leaves out of it:  *)
(* whether its map has a lane and whether the ego has turned. Means are    *)
(* kept as a sum and a count, and times in 1/240 s, in which every time to *)
(* contact below is whole for closing speeds up to six.                    *)
(***************************************************************************)
EXTENDS RolloutEngine, Functions

CONSTANTS
  Current,           \* metadata["current_index"]
  LastFrame,         \* num_steps - 1
  InfeasibleChange,  \* the change of speed in a frame above which it is infeasible
  CrowdedNow, CrowdedEver,  \* 8 and 16
  HistoryFrames,     \* how many observed frames tell whether the ego turns
  LowTime, TimeCap,  \* 3 s and 5 s
  MinimumPaired,     \* the number of pairs, and of pairs that differ, that a
  DescriptivePaired  \* cell must have to be summarized, and to say a direction

ASSUME MetricsAssumption ==
  /\ Current \in Nat /\ LastFrame \in Nat /\ Current < LastFrame
  /\ MinimumPaired \in Nat \ {0} /\ DescriptivePaired \in Nat
  /\ MinimumPaired <= DescriptivePaired

\* The scenes of the source.
Scenarios ==
  [log : [0..LastFrame -> [Agents -> AgentStates]], lane : BOOLEAN, turn : BOOLEAN]

Future == (Current + 1)..LastFrame
Distance(n) == IF n < 0 THEN -n ELSE n
-----------------------------------------------------------------------------
(* The components of a metric: agents at frames, or frames *)

\* Those of S that are there at frame t and at each of the n frames before it.
Windows(frames, S, n) ==
  {w \in Future \X S :
     LET t == w[1]  a == w[2]
     IN  t >= n /\ \A s \in (t - n)..t : frames[s][a].valid}

Pairs(frames, t) ==
  {p \in Valid(frames[t]) \X Valid(frames[t]) : p[1] < p[2]}
PairFrames(frames) == {t \in Future : Pairs(frames, t) # {}}

Apart(frames, t, a, b) == Distance(frames[t][a].pos - frames[t][b].pos)
Closing(frames, t, a, b) ==
  IF frames[t][a].pos < frames[t][b].pos
  THEN frames[t][a].spd - frames[t][b].spd ELSE frames[t][b].spd - frames[t][a].spd

\* The time until two agents touch that keep their speeds.
ConstantVelocityTtc(frames, t, a, b) ==
  LET gap == Apart(frames, t, a, b) - AgentLength
      closing == Closing(frames, t, a, b)
  IN  CASE gap <= 0 -> 0
        [] gap > 0 /\ closing <= 0 -> TimeCap
        [] gap > 0 /\ closing > 0 -> Min({TimeCap, (60 * gap) \div closing})

Overlaps(frames, t, a) ==
  \E b \in Valid(frames[t]) \ {a} : Apart(frames, t, a, b) < AgentLength

SpeedChange(frames, t, a) == frames[t][a].spd - frames[t - 1][a].spd

\* What an agent's position and speeds disagree about.
Residual(frames, t, a) ==
  frames[t][a].pos - frames[t - 1][a].pos - 2 * (frames[t][a].spd + frames[t - 1][a].spd)

\* The agents of the scene: an agent is one that is ever there.
Retained(log) == {a \in World : \E t \in DOMAIN log : log[t][a].valid}

\* How often an agent comes back after the current frame.
Reentries(frames, a) ==
  Cardinality({t \in Future : /\ frames[t][a].valid /\ ~frames[t - 1][a].valid
                              /\ \E s \in Current..(t - 1) : frames[s][a].valid})
-----------------------------------------------------------------------------
(* The metrics: the value of every component, for the log of a scene and the *)
(* frames of a rollout of it                                                 *)

Primary == {"position_error", "speed_error", "overlap_rate", "kinematic_infeasibility"}
Minima == {"minimum_center_distance", "constant_velocity_ttc"}
LaneMetrics == {"lane_center_distance", "lane_heading_disagreement"}
Neutral == Minima \union LaneMetrics \union {"lifecycle_reentry"}
Metrics == Primary \union Neutral
             \union {"acceleration_error", "jerk_error", "yaw_rate_error",
                     "continuity_residual"}

\* Those that are zero for an exact replay of the log.
Oracle == {"position_error", "speed_error", "acceleration_error", "jerk_error",
           "yaw_rate_error"}

PositionError(log, frames) ==
  [c \in Windows(log, World, 0) \intersect Windows(frames, World, 0) |->
     Distance(frames[c[1]][c[2]].pos - log[c[1]][c[2]].pos)]

SpeedError(log, frames) ==
  [c \in Windows(log, World, 0) |->
     Distance(frames[c[1]][c[2]].spd - log[c[1]][c[2]].spd)]

\* The rates are of what the rollout has, not of the log.
OverlapRate(frames) ==
  [c \in Windows(frames, World, 0) |-> IF Overlaps(frames, c[1], c[2]) THEN 1 ELSE 0]

KinematicInfeasibility(frames) ==
  [c \in Windows(frames, Vehicles, 1) |->
     IF Distance(SpeedChange(frames, c[1], c[2])) > InfeasibleChange THEN 1 ELSE 0]

AccelerationError(log, frames) ==
  [c \in Windows(log, World, 1) |->
     Distance(SpeedChange(frames, c[1], c[2]) - SpeedChange(log, c[1], c[2]))]

JerkError(log, frames) ==
  LET Jerk(f, t, a) == SpeedChange(f, t, a) - SpeedChange(f, t - 1, a)
  IN  [c \in Windows(log, World, 2) |->
         Distance(Jerk(frames, c[1], c[2]) - Jerk(log, c[1], c[2]))]

ContinuityResidual(log, frames) ==
  [c \in Windows(log, World, 1) |-> Distance(Residual(frames, c[1], c[2]))]

\* Nobody turns on a straight lane.
YawRateError(log) == [c \in Windows(log, World, 1) |-> 0]

\* Every vehicle is on the lane and along it, where there is one.
LaneDistribution(scene) ==
  [c \in (IF scene.lane THEN Windows(scene.log, Vehicles, 0) ELSE {}) |-> 0]

MinimumCenterDistance(log, frames) ==
  [t \in PairFrames(log) |->
     Min({Apart(frames, t, p[1], p[2]) : p \in Pairs(log, t)})]

ConstantVelocityTtcCap(log, frames) ==
  [t \in PairFrames(log) |->
     Min({ConstantVelocityTtc(frames, t, p[1], p[2]) : p \in Pairs(log, t)})]

LifecycleReentry(log) == [a \in Retained(log) |-> Reentries(log, a)]

Distribution(metric, scene, frames) ==
  LET log == scene.log
  IN  CASE metric = "position_error" -> PositionError(log, frames)
        [] metric = "speed_error" -> SpeedError(log, frames)
        [] metric = "overlap_rate" -> OverlapRate(frames)
        [] metric = "kinematic_infeasibility" -> KinematicInfeasibility(frames)
        [] metric = "acceleration_error" -> AccelerationError(log, frames)
        [] metric = "jerk_error" -> JerkError(log, frames)
        [] metric = "yaw_rate_error" -> YawRateError(log)
        [] metric = "continuity_residual" -> ContinuityResidual(log, frames)
        [] metric = "minimum_center_distance" -> MinimumCenterDistance(log, frames)
        [] metric = "constant_velocity_ttc" -> ConstantVelocityTtcCap(log, frames)
        [] metric \in LaneMetrics -> LaneDistribution(scene)
        [] metric = "lifecycle_reentry" -> LifecycleReentry(log)

\* The result: valid if there is a component, and its value, a mean or the
\* smallest, as a fraction.
Result(metric, scene, frames) ==
  LET distribution == Distribution(metric, scene, frames)
      n == Cardinality(DOMAIN distribution)
  IN  [valid |-> n > 0, components |-> n,
       num |-> IF metric \in Minima /\ n > 0 THEN Min(Range(distribution))
               ELSE SumFunction(distribution),
       den |-> IF n = 0 \/ metric \in Minima THEN 1 ELSE n]
-----------------------------------------------------------------------------
(* Eligibility, of the source alone *)

\* One of S is there at a future frame and at the one n frames before it.
Somewhere(log, S, n) ==
  \E t \in Future, a \in S :
    n <= t /\ log[t][a].valid /\ log[t - n][a].valid

\* Faulty: nobody asks whether the map has a lane.
LaneEligibleFaulty(scene) == Somewhere(scene.log, Vehicles, 0)

LaneEligible(scene) == scene.lane /\ Somewhere(scene.log, Vehicles, 0)

Eligibility(metric, scene) ==
  LET log == scene.log
  IN  CASE metric \in {"position_error", "speed_error", "overlap_rate"} ->
             Somewhere(log, World, 0)
        [] metric = "kinematic_infeasibility" -> Somewhere(log, Vehicles, 1)
        [] metric \in {"acceleration_error", "yaw_rate_error", "continuity_residual"} ->
             Somewhere(log, World, 1)
        [] metric = "jerk_error" -> Windows(log, World, 2) # {}
        [] metric \in Minima -> \E t \in Future : Cardinality(Valid(log[t])) > 1
        [] metric \in LaneMetrics -> LaneEligible(scene)
        [] metric = "lifecycle_reentry" -> Retained(log) # {}
-----------------------------------------------------------------------------
(* The slices, of the source alone *)

Slices == {"all", "vru_present_current", "current_world_count", "retained_world_count",
           "observed_ego_turn", "low_current_cv_ttc", "future_lifecycle_change",
           "supported_lane_available"}

PresentNow(scene) == World \intersect Valid(scene.log[Current])
ObservedEgo(scene) ==
  {t \in Max({0, Current - HistoryFrames + 1})..Current : scene.log[t][Ego].valid}

SliceEligible(slice, scene) ==
  CASE slice = "observed_ego_turn" -> Cardinality(ObservedEgo(scene)) > 1
    [] slice = "low_current_cv_ttc" ->
         scene.log[Current][Ego].valid /\ PresentNow(scene) # {}
    [] OTHER -> TRUE

SliceHolds(slice, scene) ==
  LET log == scene.log
  IN  CASE slice = "all" -> TRUE
        [] slice = "vru_present_current" -> PresentNow(scene) \ Vehicles # {}
        [] slice = "current_world_count" -> Cardinality(PresentNow(scene)) >= CrowdedNow
        [] slice = "retained_world_count" ->
             Cardinality(Retained(log)) >= CrowdedEver
        [] slice = "observed_ego_turn" -> scene.turn
        [] slice = "low_current_cv_ttc" ->
             \E a \in PresentNow(scene) :
               ConstantVelocityTtc(log, Current, Ego, a) <= LowTime
        [] slice = "future_lifecycle_change" ->
             \E a \in World, t \in Future : log[t][a].valid # log[t - 1][a].valid
        [] slice = "supported_lane_available" -> scene.lane

Membership(scene) ==
  {s \in Slices : SliceEligible(s, scene) /\ SliceHolds(s, scene)}
-----------------------------------------------------------------------------
(* The paired cells: two policies' results of one metric, by cohort index *)

\* A multiple of the difference, with its sign.
Effect(x, y) == x.num * y.den - y.num * x.den

PairingComplete(a, b) ==
  \A i \in DOMAIN a : a[i].valid = b[i].valid /\ a[i].components = b[i].components

Enough(paired) == Cardinality(paired) >= MinimumPaired

\* The cell, with the stability bands at their widest, the hull of the effects.
AnalyzePairedCell(metric, slice, a, b) ==
  LET paired == {i \in DOMAIN a : a[i].valid /\ b[i].valid}
      effects == [i \in paired |-> Effect(a[i], b[i])]
      nonzero == Cardinality({i \in paired : effects[i] # 0})
      primary == metric \in Primary /\ slice = "all"
      complete == PairingComplete(a, b)
      excludesZero == \/ \A i \in paired : effects[i] > 0
                      \/ \A i \in paired : effects[i] < 0
      status == CASE ~complete -> "pairing_incomplete"
                  [] complete /\ ~Enough(paired) -> "insufficient_n"
                  [] complete /\ Enough(paired) /\ primary
                       /\ nonzero < MinimumPaired -> "event_sparse"
                  [] complete /\ Enough(paired)
                       /\ (Cardinality(paired) < DescriptivePaired
                             \/ nonzero < MinimumPaired)
                       /\ ~(primary /\ nonzero < MinimumPaired) -> "small_or_sparse"
                  [] OTHER -> "descriptive"
  IN  [cohort |-> Cardinality(DOMAIN a), paired |-> Cardinality(paired),
       missing |-> Cardinality({i \in DOMAIN a : ~a[i].valid /\ ~b[i].valid}),
       nonzero |-> IF Enough(paired) THEN nonzero ELSE 0,
       status |-> status,
       directional |-> /\ status = "descriptive" /\ metric \notin Neutral
                       /\ excludesZero]
=============================================================================
