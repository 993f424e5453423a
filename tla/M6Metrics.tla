------------------------------ MODULE M6Metrics ------------------------------
(***************************************************************************)
(* The measures of a pair of rollouts, of which the second has a brake     *)
(* pulse of the ego (evalsim/metrics/m6.py). They are about one follower   *)
(* of the ego, the target, over the window of the analysis. A transition   *)
(* lasts one second, so that an integral over time is a sum.               *)
(***************************************************************************)
EXTENDS RolloutEngine

CONSTANTS
  Current,           \* metadata["current_index"]
  Window,            \* M6_ANALYSIS_TRANSITIONS
  ResponseThreshold, \* how much harder than the baseline a response brakes
  Persistence,       \* for how many transitions on end
  HardBrakingLimit   \* M6_HARD_BRAKING_THRESHOLD_MPS2, without its sign

Stop == Current + Window
Frames == Current..Stop
Scored == (Current + 1)..Stop
Transitions == Current..(Stop - 1)

ASSUME WindowAssumption ==
  /\ Current \in Nat /\ Window \in Nat \ {0, 1} /\ Persistence \in 1..Window
  /\ ResponseThreshold \in Nat \ {0} /\ HardBrakingLimit \in Nat \ {0}

Acceleration(frames, a, t) == frames[t + 1][a].spd - frames[t][a].spd
Jerk(frames, a, t) == Acceleration(frames, a, t) - Acceleration(frames, a, t - 1)
Magnitude(n) == Max({n, -n})
-----------------------------------------------------------------------------
(* The primary measures *)

ExtraBraking(base, treated, a, t) ==
  Max({0, Acceleration(base, a, t) - Acceleration(treated, a, t)})

Impulse(base, treated, a) ==
  SumFunction([t \in Transitions |-> ExtraBraking(base, treated, a, t)])

\* The transitions that end a persistent response. The first transition acts on
\* the ego that has not changed yet and is no part of one.
Responses(base, treated, a) ==
  {t \in Transitions :
     /\ t - Persistence >= Current
     /\ \A s \in (t - Persistence + 1)..t :
          ExtraBraking(base, treated, a, s) >= ResponseThreshold}

\* What is left of the window after the first response, and when that was. An
\* answer at the end of the window leaves as little as none at all.
NoLatency == -1
Latency(responses) ==
  IF responses = {} THEN NoLatency ELSE Min(responses) + 1 - Current

Answered(responses) == IF responses = {} THEN "censored" ELSE "responded"

Timeliness(responses) == IF responses = {} THEN 0 ELSE Window - Latency(responses)

\* The smallest gap to the ego changes with the ego, whatever the target does.
MinimumGapOf(frames, a) == Min({Gap(frames[t], a, Ego) : t \in Scored})
GapChange(base, treated, a) == MinimumGapOf(treated, a) - MinimumGapOf(base, a)

ProgressLoss(base, treated, a) == base[Stop][a].pos - treated[Stop][a].pos
-----------------------------------------------------------------------------
(* The secondary measures *)

\* The mean displacement, times the number of frames.
Displacement(base, treated, a) ==
  SumFunction([t \in Scored |-> Magnitude(treated[t][a].pos - base[t][a].pos)])

SpeedReduction(base, treated, a) ==
  Max({base[t][a].spd - treated[t][a].spd : t \in Scored})

ExtraJerk(base, treated, a) ==
  SumFunction([t \in Transitions \ {Current} |->
                 Max({0, Magnitude(Jerk(treated, a, t)) - Magnitude(Jerk(base, a, t))})])

Exposure(frames, a) ==
  Cardinality({t \in Transitions : Acceleration(frames, a, t) <= -HardBrakingLimit})
ExtraExposure(base, treated, a) == Exposure(treated, a) - Exposure(base, a)
-----------------------------------------------------------------------------
(* The results of a pair, in the order of the registry *)

PrimaryMetrics == <<"impulse", "timeliness", "gap", "loss">>

PrimaryResults(base, treated, a) ==
  LET responses == Responses(base, treated, a)
      Plain(value) == [value |-> value, answer |-> "none", latency |-> NoLatency]
  IN  [impulse |-> Plain(Impulse(base, treated, a)),
       timeliness |-> [value |-> Timeliness(responses), answer |-> Answered(responses),
                       latency |-> Latency(responses)],
       gap |-> Plain(GapChange(base, treated, a)),
       loss |-> Plain(ProgressLoss(base, treated, a))]

SecondaryResults(base, treated, a) ==
  [displacement |-> Displacement(base, treated, a),
   reduction |-> SpeedReduction(base, treated, a),
   jerk |-> ExtraJerk(base, treated, a),
   exposure |-> ExtraExposure(base, treated, a)]

\* The world of the two rollouts is the same after the current frame.
WorldAgrees(base, treated) ==
  \A t \in Scored, a \in World : base[t][a] = treated[t][a]

ExactlyNonreactive(base, treated, a) ==
  LET results == PrimaryResults(base, treated, a)
  IN  /\ WorldAgrees(base, treated)
      /\ \A metric \in {"impulse", "timeliness", "loss"} : results[metric].value = 0
=============================================================================
