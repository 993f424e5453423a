---------------------------- MODULE RolloutEngine ----------------------------
(***************************************************************************)
(* One transition of the closed-loop rollout: the world policies, the      *)
(* point-mass dynamics, the assembly of the next frame and the execution   *)
(* trace that must reproduce it (evalsim/rollout/engine.py, dynamics.py,   *)
(* trace.py and evalsim/simulators/).                                      *)
(*                                                                         *)
(* Traffic moves along one straight lane, so that headings, yaw rates and  *)
(* lateral offsets are left out: an agent at a frame has its validity, a   *)
(* position and a speed. One transition lasts one second, speeds are whole *)
(* metres per second and positions quarters of a metre, in which every     *)
(* travel below is a whole number.                                         *)
(***************************************************************************)
EXTENDS Integers, FiniteSets, FiniteSetsExt

CONSTANTS
  Ego,               \* the agent whose motion the engine owns
  World,             \* the agents a policy moves, named by their ids
  Vehicles,          \* those of them that are vehicles
  MaxAcceleration,   \* DynamicsLimits
  MaxDeceleration,
  MaxSpeed,
  AgentLength,       \* of every agent, in quarters of a metre
  DesiredSpeed,      \* IDMParameters
  MinimumGap,
  HardBraking        \* what IDM asks for when it is much too close

Agents == {Ego} \union World

\* The travels of Travel are whole quarters for these limits.
ASSUME LimitsAssumption ==
  /\ MaxAcceleration \in 1..2 /\ MaxDeceleration \in 1..2
  /\ MaxSpeed \in Nat \ {0}
  /\ World \subseteq Nat /\ IsFiniteSet(World) /\ Ego \in Nat \ World
  /\ Vehicles \subseteq World
  /\ {AgentLength, DesiredSpeed, HardBraking} \subseteq Nat

\* What an agent is at a frame.
AgentStates == [valid : BOOLEAN, pos : Int, spd : Nat]

Valid(frame) == {a \in Agents : frame[a].valid}
-----------------------------------------------------------------------------
(* The dynamics *)

ClampKinds == {"acceleration", "deceleration", "speed", "reverse_prevented"}
NoClamps == [k \in ClampKinds |-> 0]
AddClamps(c, d) == [k \in ClampKinds |-> c[k] + d[k]]

Clip(n, low, high) == IF n < low THEN low ELSE IF n > high THEN high ELSE n

BoundedAcceleration(raw) == Clip(raw, -MaxDeceleration, MaxAcceleration)
CurrentSpeed(state) == Clip(state.spd, 0, MaxSpeed)
ProposedSpeed(state, raw) == CurrentSpeed(state) + BoundedAcceleration(raw)
NextSpeed(state, raw) == Clip(ProposedSpeed(state, raw), 0, MaxSpeed)

\* An agent that would reverse stops inside the interval and stays; one that
\* would pass the limit reaches it and cruises.
Travel(state, raw) ==
  LET v == CurrentSpeed(state)
      a == BoundedAcceleration(raw)
  IN  CASE ProposedSpeed(state, raw) < 0 -> (2 * v * v) \div (-a)
        [] ProposedSpeed(state, raw) > MaxSpeed ->
             4 * MaxSpeed - (2 * (MaxSpeed - v) * (MaxSpeed - v)) \div a
        [] OTHER -> 2 * (v + NextSpeed(state, raw))

\* How often each guard of the dynamics changed what the agents in S proposed.
Clamps(frame, acceleration, S) ==
  LET Count(P(_)) == Cardinality({a \in S : P(a)})
      Faster(a) == acceleration[a] > MaxAcceleration
      Slower(a) == acceleration[a] < -MaxDeceleration
      TooFast(a) == frame[a].spd > MaxSpeed
      WouldPass(a) == ProposedSpeed(frame[a], acceleration[a]) > MaxSpeed
      WouldReverse(a) == ProposedSpeed(frame[a], acceleration[a]) < 0
  IN  [acceleration |-> Count(Faster), deceleration |-> Count(Slower),
       speed |-> Count(TooFast) + Count(WouldPass),
       reverse_prevented |-> Count(WouldReverse)]

Integrated(frame, acceleration, S) ==
  [a \in Agents |->
     IF a \in S
     THEN [frame[a] EXCEPT !.pos = @ + Travel(frame[a], acceleration[a]),
                           !.spd = NextSpeed(frame[a], acceleration[a])]
     ELSE frame[a]]
-----------------------------------------------------------------------------
(* The policies *)

Policies == {"log_replay", "constant_velocity", "idm"}
Privileged == {"log_replay"}
Nonreactive == {"log_replay", "constant_velocity"}

\* A step without an absolute override.
Unforced(acceleration, frame) ==
  [acceleration |-> acceleration, mask |-> {}, override |-> frame]

\* The agents ahead of a, at the bumper gap each leaves it.
Gap(frame, a, b) == frame[b].pos - frame[a].pos - AgentLength
Ahead(frame, a) == {b \in Valid(frame) \ {a} : frame[b].pos > frame[a].pos}
NearestLeader(frame, a) ==
  CHOOSE b \in Ahead(frame, a) :
    \A c \in Ahead(frame, a) :
      \/ Gap(frame, a, b) < Gap(frame, a, c)
      \/ Gap(frame, a, b) = Gap(frame, a, c) /\ b <= c

\* The gap IDM wants grows with the speed and with the closing speed.
DesiredGap(v, leaderSpeed) ==
  4 * (MinimumGap + Max({0, v + v * (v - leaderSpeed)}))

FreeRoadAcceleration(v) ==
  CASE v < DesiredSpeed -> 1 [] v = DesiredSpeed -> 0 [] v > DesiredSpeed -> -1

\* The acceleration IDM asks for, rounded to whole units: the free-road one, or
\* braking when the gap is short, harder when it is less than half of the wanted.
IdmAcceleration(frame, a) ==
  LET v == frame[a].spd
      leader == NearestLeader(frame, a)
      gap == Gap(frame, a, leader)
      wanted == DesiredGap(v, frame[leader].spd)
  IN  CASE Ahead(frame, a) = {} -> FreeRoadAcceleration(v)
        [] Ahead(frame, a) # {} /\ 2 * gap < wanted -> -HardBraking
        [] Ahead(frame, a) # {} /\ gap < wanted /\ wanted <= 2 * gap -> -1
        [] OTHER -> FreeRoadAcceleration(v)

\* What the policy proposes from the realized frame. A history-only policy is
\* given nothing after the current frame; log replay has the whole log.
PolicyStep(policy, log, frame, next) ==
  LET coast == [a \in Agents |-> 0]
      follow == [a \in Agents |->
                   IF a \in Vehicles /\ frame[a].valid
                   THEN IdmAcceleration(frame, a) ELSE 0]
  IN  CASE policy = "log_replay" ->
             [acceleration |-> coast, mask |-> World, override |-> log[next]]
        [] policy = "constant_velocity" -> Unforced(coast, frame)
        [] policy = "idm" -> Unforced(follow, frame)
-----------------------------------------------------------------------------
(* The engine *)

\* The engine takes the step only if its overrides keep to the lifecycle, and
\* none comes from a history-only policy.
StepAccepted(policy, step, reference) ==
  /\ policy \notin Privileged => step.mask = {}
  /\ \A a \in step.mask \ {Ego} : step.override[a].valid = reference[a].valid

Continuing(frame, next) == {a \in World : frame[a].valid /\ next[a].valid}
Births(frame, next) == {a \in World : ~frame[a].valid /\ next[a].valid}

\* The agents integrated: those that go on and are not placed by the policy.
Kinematic(frame, next, step) == Continuing(frame, next) \ step.mask

\* Faulty: the births come first, and are integrated like the others.
NextFrameFaulty(frame, reference, step, egoNext) ==
  LET start == [a \in Agents |-> IF a \in Births(frame, reference)
                                 THEN reference[a] ELSE frame[a]]
      present == {a \in World : reference[a].valid}
      moved == Integrated(start, step.acceleration, present \ step.mask)
      State(a) == CASE a = Ego -> egoNext
                    [] a \in step.mask \ {Ego} -> step.override[a]
                    [] OTHER -> moved[a]
  IN  [a \in Agents |-> [State(a) EXCEPT !.valid = reference[a].valid]]

\* The next frame: integration, then overrides, then births from the log, then
\* the ego. Every agent has the validity the log gives it.
NextFrame(frame, reference, step, egoNext) ==
  LET moved == Integrated(frame, step.acceleration,
                          Kinematic(frame, reference, step))
      State(a) ==
        CASE a = Ego -> egoNext
          [] a \in Births(frame, reference) -> reference[a]
          [] a \in (step.mask \ {Ego}) \ Births(frame, reference) -> step.override[a]
          [] OTHER -> moved[a]
  IN  [a \in Agents |-> [State(a) EXCEPT !.valid = reference[a].valid]]
-----------------------------------------------------------------------------
(* The trace *)

\* What the trace keeps of a transition: the step, and the categories of agents
\* read off the log the run started from.
TraceRow(step, log, t) ==
  [acceleration |-> step.acceleration,
   mask |-> step.mask \ {Ego},
   override |-> [a \in step.mask \ {Ego} |-> step.override[a]],
   effective |-> Continuing(log[t], log[t + 1]),
   births |-> Births(log[t], log[t + 1])]

\* The row reproduces the transition from frame to next of the rollout.
RowBinds(row, frame, next) ==
  LET kinematic == row.effective \ row.mask
      replayed == Integrated(frame, row.acceleration, kinematic)
  IN  /\ row.effective = Continuing(frame, next)
      /\ row.births = Births(frame, next)
      /\ \A a \in row.mask : row.override[a].valid = next[a].valid
      /\ \A a \in row.mask \intersect row.effective : row.override[a] = next[a]
      /\ \A a \in kinematic : replayed[a] = next[a]

RowClamps(row, frame) ==
  Clamps(frame, row.acceleration, row.effective \ row.mask)

\* The clamps the rows of a trace replay, up to but without frame stop.
ReplayedClamps(trace, frames, start, stop) ==
  [k \in ClampKinds |->
     SumFunction([t \in start..(stop - 1) |-> RowClamps(trace[t], frames[t])[k]])]

TraceBinds(trace, rollout, start, stop) ==
  /\ \A t \in start..(stop - 1) :
       RowBinds(trace[t], rollout.frames[t], rollout.frames[t + 1])
  /\ ReplayedClamps(trace, rollout.frames, start, stop) = rollout.clamps
=============================================================================
