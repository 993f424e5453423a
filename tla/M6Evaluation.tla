----------------------------- MODULE M6Evaluation -----------------------------
(***************************************************************************)
(* The paired counterfactual evaluation (evalsim/evaluation/m6.py): every  *)
(* eligible source is rolled out under each policy without a plan, with    *)
(* the identity plan and with a brake pulse of the ego, each rollout is    *)
(* bound to its trace, the runs are held against each other by gates, the  *)
(* pairs are measured and the matrix of the measures computed, all of it   *)
(* is reconstructed from the evidence kept, and the result returned        *)
(* (evalsim/contracts/counterfactual, evalsim/perturb/m6). RolloutEngine   *)
(* is the engine, M6Metrics and M6Statistics are what is computed.         *)
(*                                                                         *)
(* The scenarios stay the caller's, whose threads may change one of them   *)
(* between any two steps. The cases are copied, and compared with what the *)
(* caller has, one after the other.                                        *)
(***************************************************************************)
EXTENDS M6Statistics

CONSTANTS
  Cases,             \* the cohort indices, 1..n
  Sources,           \* Sources[c]: the scenarios the caller may pass as case c
  Alternates,        \* what it may change one of them to
  MaxChanges,        \* a bound on the number of such changes
  LastFrame,         \* num_steps - 1
  Pulse,             \* BRAKE_PULSE_DURATION_S
  PrimaryDose, SecondaryDose,
  MinimumEgoSpeed, MinimumFollowerGap, MaximumFollowerGap

ASSUME HorizonAssumption ==
  /\ Cases \in SUBSET Nat /\ IsFiniteSet(Cases) /\ Cases # {}
  /\ LastFrame \in Nat /\ Stop <= LastFrame /\ Pulse \in 1..Window
  /\ MaxChanges \in Nat /\ PrimaryDose \in Nat \ {0}
  /\ SecondaryDose \in Nat /\ PrimaryDose <= SecondaryDose

\* A scenario: what every agent is at every frame.
Logs == [0..LastFrame -> [Agents -> AgentStates]]

ASSUME ScenarioAssumption ==
  \A s \in (UNION {Sources[c] : c \in Cases}) \union Alternates : s \in Logs

VARIABLES
  caller,     \* the scenarios as the caller has them now
  changes,    \* how many times it has changed one
  late,       \* the cases it changed after the last comparison began
  source,     \* the snapshots the evaluation works on
  stage,      \* how far the evaluation is
  todo,       \* the cases still to be copied, or compared, in order
  prepared,   \* the cases and the policies still to be run, in order
  severe,     \* the eligible cases that can be slowed by the higher dose
  condition,  \* the condition being executed
  run,        \* the rollout under way: its frames and clamps, and its trace
  products,   \* the traced rollouts of this case and policy, by condition
  rows, severeRows, \* the scene results for the two doses
  matrix      \* the primary matrix

callerVars == <<caller, changes, late>>
caseVars == <<source, todo>>
planVars == <<prepared, severe>>
resultVars == <<rows, severeRows, matrix>>
vars == <<callerVars, caseVars, stage, planVars, condition, run, products,
          resultVars>>
-----------------------------------------------------------------------------
(* Plans: the ego's states at the frames Current..Stop of a scenario's log *)

LogEgo(log) == [t \in Frames |-> log[t][Ego]]
Segment(log, t) == log[t + 1][Ego].pos - log[t][Ego].pos

\* Faulty: the pulse of the higher dose is as much shorter.
DeficitFaulty(dose, t) == dose * Min({t - Current, Pulse \div dose})

\* The speed the pulse has taken away by frame t, which is not given back.
Deficit(dose, t) == dose * Min({t - Current, Pulse})

Lost(log, dose, t) ==
  Min({Segment(log, t), 2 * (Deficit(dose, t) + Deficit(dose, t + 1))})

BrakePlan(log, dose) ==
  [t \in Frames |->
     [valid |-> log[t][Ego].valid,
      pos |-> log[Current][Ego].pos
              + SumFunction([s \in Current..(t - 1) |->
                               Segment(log, s) - Lost(log, dose, s)]),
      spd |-> Max({0, log[t][Ego].spd - Deficit(dose, t)})]]

\* The feasibility audit: bounds on speed and acceleration, and a displacement
\* that fits the speeds within a tenth.
Audit(plan) ==
  /\ \A t \in Frames : plan[t].spd \in 0..MaxSpeed
  /\ \A t \in Transitions :
       LET displacement == plan[t + 1].pos - plan[t].pos
           trapezoid == 2 * (plan[t].spd + plan[t + 1].spd)
       IN  /\ plan[t + 1].spd - plan[t].spd \in -MaxDeceleration..MaxAcceleration
           /\ displacement <= trapezoid
           /\ 10 * (trapezoid - displacement) <= trapezoid
-----------------------------------------------------------------------------
(* Eligibility, from the source alone *)

PathIsStrict(log) == \A t \in Transitions : Segment(log, t) > 0
EgoStaysUntil(log, stop) == \A t \in Current..stop : log[t][Ego].valid

StableFollowers(log) ==
  {a \in Vehicles :
     /\ \A t \in Frames : log[t][a].valid
     /\ log[Current][Ego].pos > log[Current][a].pos}
FollowerGap(log, a) == Gap(log[Current], a, Ego)
Targets(log) ==
  {a \in StableFollowers(log) :
     /\ FollowerGap(log, a) \in MinimumFollowerGap..MaximumFollowerGap
     /\ NearestLeader(log[Current], a) = Ego}

Eligible(log) ==
  /\ EgoStaysUntil(log, Stop)
  /\ log[Current][Ego].spd >= MinimumEgoSpeed
  /\ PathIsStrict(log)
  /\ Audit(LogEgo(log)) /\ Audit(BrakePlan(log, PrimaryDose))
  /\ \A a \in StableFollowers(log) : FollowerGap(log, a) >= 0
  /\ Targets(log) # {}

\* The follower with the smallest gap, and of these the one with the lowest id.
Target(log) ==
  CHOOSE a \in Targets(log) :
    \A b \in Targets(log) :
      \/ FollowerGap(log, a) < FollowerGap(log, b)
      \/ FollowerGap(log, a) = FollowerGap(log, b) /\ a <= b

SevereFeasible(log) == Audit(BrakePlan(log, SecondaryDose))
-----------------------------------------------------------------------------
(* The case and the policy at hand, and the plan of the condition *)

PolicyRuns(c) == [i \in 1..Len(PolicyOrder) |-> [case |-> c, policy |-> PolicyOrder[i]]]

Case == Head(prepared).case
Policy == Head(prepared).policy
Log == source[Case]

Plan(log) == CASE condition = "identity" -> LogEgo(log)
               [] condition = "primary" -> BrakePlan(log, PrimaryDose)
               [] condition = "secondary" -> BrakePlan(log, SecondaryDose)
Dose == IF condition = "secondary" THEN SecondaryDose ELSE PrimaryDose

\* The legacy path has no plan and runs to the end of the source.
RunStop == IF condition = "legacy" THEN LastFrame ELSE Stop
LastDone(frames) == Max(DOMAIN frames)

\* The engine demands a valid ego for as long as it runs, and a plan that is
\* what the registered compiler makes of the source.
EngineAccepts(log) ==
  /\ EgoStaysUntil(log, RunStop)
  /\ condition # "legacy" => Audit(Plan(log))

\* Where the ego is put at frame t: on its log or on the plan.
EgoAt(log, t) == IF condition = "legacy" THEN log[t][Ego] ELSE Plan(log)[t]

\* Faulty: the ego has already made its next move.
ObservedFaulty(log, t) == [run.frames[t] EXCEPT ![Ego] = EgoAt(log, t + 1)]

\* The realized frame that the policy looks at.
Observed(log, t) == run.frames[t]

NoRun == [frames |-> <<>>, clamps |-> NoClamps, trace |-> <<>>]
-----------------------------------------------------------------------------
(* The gates *)

Prefix(frames, t) == [s \in 0..t |-> frames[s]]

\* The sham run is the legacy run up to its end: the same frames and the same rows
\* of the trace. Their clamps agree where both end together; where the legacy run
\* is longer, those its trace gives for the shorter horizon do.
ShamClampsHold(runs) ==
  LET legacy == runs["legacy"]
      sham == runs["identity"]
  IN  IF Stop = LastFrame THEN sham.clamps = legacy.clamps
      ELSE /\ sham.clamps = ReplayedClamps(legacy.trace, legacy.frames, Current, Stop)
           /\ sham.clamps = ReplayedClamps(sham.trace, sham.frames, Current, Stop)

ShamHolds(runs) ==
  /\ \A t \in 0..Stop : runs["identity"].frames[t] = runs["legacy"].frames[t]
  /\ \A t \in Transitions : runs["identity"].trace[t] = runs["legacy"].trace[t]
  /\ ShamClampsHold(runs)

\* A run of a pair keeps the log up to the current frame and its lifecycle after
\* it, and its ego follows the plan.
HistoryHolds(log, frames) == \A t \in 0..Current : frames[t] = log[t]
LifecycleHolds(log, frames) == \A t \in 0..Stop : Valid(frames[t]) = Valid(log[t])
PlanHolds(plan, frames) == \A t \in Frames : frames[t][Ego] = plan[t]

\* The world of a pair differs from Current + 2 on only.
FloorHolds(base, treated) ==
  \A t \in 0..(Current + 1), a \in World : base[t][a] = treated[t][a]

PairHolds(log, base, treated, dose) ==
  /\ HistoryHolds(log, base) /\ HistoryHolds(log, treated)
  /\ LifecycleHolds(log, base) /\ LifecycleHolds(log, treated)
  /\ FloorHolds(base, treated)
  /\ PlanHolds(LogEgo(log), base) /\ PlanHolds(BrakePlan(log, dose), treated)

\* A policy that cannot react did not.
NonreactivityHolds(policy, log, base, treated) ==
  policy \in Nonreactive => ExactlyNonreactive(base, treated, Target(log))

GateHolds ==
  LET base == products["identity"].frames
      treated == products[condition].frames
  IN  CASE condition = "legacy" -> TRUE
        [] condition = "identity" -> ShamHolds(products)
        [] condition \in {"primary", "secondary"} ->
             /\ PairHolds(Log, base, treated, Dose)
             /\ NonreactivityHolds(Policy, Log, base, treated)
-----------------------------------------------------------------------------
(* Scene results *)

\* What is kept of a pair: the runs behind it, and its measures.
Scene(case, policy, log, runs, treatment) ==
  LET base == runs["identity"].frames
      treated == runs[treatment].frames
  IN  [case |-> case, policy |-> policy, target |-> Target(log),
       legacy |-> runs["legacy"], baseline |-> runs["identity"],
       treated |-> runs[treatment],
       primary |-> PrimaryResults(base, treated, Target(log)),
       secondary |-> SecondaryResults(base, treated, Target(log))]

\* The measures, the pair and the sham gate again, from the runs that were kept.
SceneHolds(scene, dose) ==
  LET log == source[scene.case]
      base == scene.baseline.frames
      treated == scene.treated.frames
  IN  /\ ShamHolds([legacy |-> scene.legacy, identity |-> scene.baseline])
      /\ \A kept \in {scene.baseline, scene.treated} :
           TraceBinds(kept.trace, kept, Current, Stop)
      /\ TraceBinds(scene.legacy.trace, scene.legacy, Current, LastFrame)
      /\ PairHolds(log, base, treated, dose)
      /\ scene.primary = PrimaryResults(base, treated, Target(log))
      /\ scene.secondary = SecondaryResults(base, treated, Target(log))
      /\ NonreactivityHolds(scene.policy, log, base, treated)
-----------------------------------------------------------------------------
(* Actions *)

CaseOrder == Ascending(Cases)

Init ==
  /\ caller \in {s \in [Cases -> UNION {Sources[c] : c \in Cases}] :
                   \A c \in Cases : s[c] \in Sources[c]}
  /\ changes = 0 /\ late = {} /\ source = <<>> /\ todo = CaseOrder
  /\ stage = "copy" /\ prepared = <<>> /\ severe = {} /\ condition = "legacy" /\ run = NoRun
  /\ products = <<>> /\ rows = <<>> /\ severeRows = <<>> /\ matrix = <<>>

Ended == stage \in {"published", "blocked", "failed"}

\* The caller changes a scenario, or changes it back.
CallerChanges(c) ==
  /\ ~Ended /\ changes < MaxChanges
  /\ \E s \in (Alternates \union {source[k] : k \in {c} \intersect DOMAIN source})
                \ {caller[c]} :
       caller' = [caller EXCEPT ![c] = s]
  /\ changes' = changes + 1
  /\ late' = IF stage = "compare_result" THEN late \union {c} ELSE late
  /\ UNCHANGED <<caseVars, stage, planVars, condition, run, products, resultVars>>

\* The cases are copied, and when the last one is, they are compared.
CopyCase ==
  /\ stage = "copy"
  /\ LET c == Head(todo)
     IN  source' = [k \in DOMAIN source \union {c} |-> IF k = c THEN caller[c] ELSE source[k]]
  /\ IF Len(todo) = 1 THEN stage' = "compare_copies" /\ todo' = CaseOrder
     ELSE todo' = Tail(todo) /\ UNCHANGED stage
  /\ UNCHANGED <<callerVars, planVars, condition, run, products, resultVars>>

\* Faulty: only the cases that are evaluated are compared.
SameAsCallerFaulty(c) == Eligible(source[c]) => caller[c] = source[c]

SameAsCaller(c) == caller[c] = source[c]

\* A comparison of all cases ends in the stage that waits for it.
Compared == [compare_copies |-> "validated", compare_blocked |-> "blocked",
             compare_result |-> "published"]

CompareCase ==
  /\ stage \in DOMAIN Compared
  /\ todo' = Tail(todo)
  /\ stage' = IF ~SameAsCaller(Head(todo)) THEN "failed"
              ELSE IF Len(todo) = 1 THEN Compared[stage] ELSE stage
  /\ UNCHANGED <<callerVars, source, planVars, condition, run, products, resultVars>>

\* The ledger of eligible cases. With too few of them no outcome is computed; the
\* plans of the others, and who of them can have the higher dose, are settled
\* before the first policy runs.
EligibleCases == Ascending({c \in Cases : Eligible(source[c])})
SevereCases ==
  Ascending({c \in Cases : Eligible(source[c]) /\ SevereFeasible(source[c])})
RunsOf(cases) == FlattenSeq([i \in 1..Len(cases) |-> PolicyRuns(cases[i])])

Classify ==
  /\ stage = "validated"
  /\ IF Len(EligibleCases) < MinimumPairs
     THEN stage' = "compare_blocked" /\ todo' = CaseOrder /\ UNCHANGED planVars
     ELSE /\ stage' = "ready" /\ UNCHANGED todo
          /\ prepared' = RunsOf(EligibleCases)
          /\ severe' = Range(SevereCases)
  /\ UNCHANGED <<callerVars, source, condition, run, products, resultVars>>

\* The engine starts the run of a condition: the logged frames are its history.
StartRun ==
  /\ stage = "ready"
  /\ IF EngineAccepts(Log)
     THEN /\ stage' = "running"
          /\ run' = [frames |-> Prefix(Log, Current), clamps |-> NoClamps,
                     trace |-> <<>>]
     ELSE stage' = "failed" /\ UNCHANGED run
  /\ UNCHANGED <<callerVars, caseVars, planVars, condition, products, resultVars>>

\* One transition: observe, let the policy propose, check, assemble and record.
Transition ==
  /\ stage = "running" /\ LastDone(run.frames) < RunStop
  /\ LET t == LastDone(run.frames)
         frame == run.frames[t]
         step == PolicyStep(Policy, Log, Observed(Log, t), t + 1)
         next == NextFrame(frame, Log[t + 1], step, EgoAt(Log, t + 1))
         kinematic == Kinematic(frame, Log[t + 1], step)
     IN  IF StepAccepted(Policy, step, Log[t + 1])
         THEN /\ run' = [frames |-> [s \in 0..(t + 1) |->
                                       IF s <= t THEN run.frames[s] ELSE next],
                         clamps |-> AddClamps(run.clamps,
                                      Clamps(frame, step.acceleration, kinematic)),
                         trace |-> [s \in Current..t |->
                                      IF s < t THEN run.trace[s]
                                      ELSE TraceRow(step, Log, t)]]
              /\ UNCHANGED stage
         ELSE stage' = "failed" /\ UNCHANGED run
  /\ UNCHANGED <<callerVars, caseVars, planVars, condition, products, resultVars>>

\* The finished run is kept if its trace binds to it.
BindTrace ==
  /\ stage = "running" /\ LastDone(run.frames) = RunStop
  /\ stage' = IF TraceBinds(run.trace, run, Current, RunStop) THEN "gate" ELSE "failed"
  /\ products' = [k \in DOMAIN products \union {condition} |->
                    IF k = condition THEN run ELSE products[k]]
  /\ run' = NoRun
  /\ UNCHANGED <<callerVars, caseVars, planVars, condition, resultVars>>

\* The gate of the condition, and the next condition if it holds; the condition
\* for the higher dose is left out where the source cannot be slowed that much.
NextCondition ==
  CASE condition = "legacy" -> "identity"
    [] condition = "identity" -> "primary"
    [] condition = "primary" /\ Case \in severe -> "secondary"
    [] OTHER -> "none"

PassGate ==
  /\ stage = "gate"
  /\ IF ~GateHolds
     THEN stage' = "failed" /\ UNCHANGED condition
     ELSE IF NextCondition = "none"
     THEN stage' = "analyse" /\ UNCHANGED condition
     ELSE stage' = "ready" /\ condition' = NextCondition
  /\ UNCHANGED <<callerVars, caseVars, planVars, run, products, resultVars>>

\* The measures of the pairs of a case and a policy. A scene result holds against
\* the runs it keeps.
Analyse ==
  /\ stage = "analyse"
  /\ LET scene == Scene(Case, Policy, Log, products, "primary")
         severeScenes == IF Case \in severe
                         THEN <<Scene(Case, Policy, Log, products, "secondary")>>
                         ELSE <<>>
     IN  IF /\ SceneHolds(scene, PrimaryDose)
            /\ \A s \in Range(severeScenes) : SceneHolds(s, SecondaryDose)
         THEN /\ rows' = Append(rows, scene)
              /\ severeRows' = severeRows \o severeScenes
              /\ prepared' = Tail(prepared) /\ condition' = "legacy"
              /\ products' = <<>>
              /\ stage' = IF Len(prepared) = 1 THEN "statistics" ELSE "ready"
         ELSE /\ stage' = "failed"
              /\ UNCHANGED <<rows, severeRows, prepared, condition, products>>
  /\ UNCHANGED <<callerVars, caseVars, severe, run, matrix>>

\* The matrix of the primary measures, of the lower dose alone.
AnalyseMatrix ==
  /\ stage = "statistics"
  /\ IF MatrixAccepted(CellInputs(rows))
     THEN stage' = "result" /\ matrix' = Matrix(CellInputs(rows))
     ELSE stage' = "failed" /\ UNCHANGED matrix
  /\ UNCHANGED <<callerVars, caseVars, planVars, condition, run, products, rows,
                 severeRows>>

\* The result is built if what it holds can be had from the sources again: who is
\* eligible and who can have the higher dose, the scenes in their order, and the
\* matrix. It is returned if the last comparison finds no change.
InOrder(results, cases) ==
  LET order == RunsOf(cases)
  IN  /\ Len(results) = Len(order)
      /\ \A i \in 1..Len(order) :
           results[i].case = order[i].case /\ results[i].policy = order[i].policy

ResultHolds ==
  /\ Len(EligibleCases) >= MinimumPairs
  /\ InOrder(rows, EligibleCases) /\ InOrder(severeRows, SevereCases)
  /\ severe = Range(SevereCases)
  /\ \A scene \in Range(rows) : SceneHolds(scene, PrimaryDose)
  /\ \A scene \in Range(severeRows) : SceneHolds(scene, SecondaryDose)
  /\ MatrixAccepted(CellInputs(rows)) /\ matrix = Matrix(CellInputs(rows))

BuildResult ==
  /\ stage = "result"
  /\ IF ResultHolds THEN stage' = "compare_result" /\ todo' = CaseOrder
     ELSE stage' = "failed" /\ UNCHANGED todo
  /\ UNCHANGED <<callerVars, source, planVars, condition, run, products, resultVars>>

Evaluate ==
  \/ CopyCase \/ CompareCase \/ Classify \/ StartRun \/ Transition
  \/ BindTrace \/ PassGate \/ Analyse \/ AnalyseMatrix \/ BuildResult

Next == Evaluate \/ \E c \in Cases : CallerChanges(c)
Spec == Init /\ [][Next]_vars
-----------------------------------------------------------------------------
(* Properties *)

\* No gate of the evaluation refuses what the engine did: traces bind to their
\* rollouts, the identity run is the prefix of the run without a plan, the world
\* answers a brake pulse no sooner than two frames later, log replay and constant
\* velocity do not answer it at all. An evaluation fails only if its caller
\* changed a scenario, or if the ego of an eligible source leaves the log after
\* the window, where the run without a plan still needs it.
GatesRefuseNoHonestRun ==
  stage = "failed" =>
    \/ changes > 0
    \/ \E c \in Cases : Eligible(source[c]) /\ ~EgoStaysUntil(source[c], LastFrame)

\* In every rollout, finished or under way, an agent of the world that was there
\* a frame ago is no farther than the limits allow, unless it is replayed; one
\* that was not is where the log puts it. The payload of an invalid frame is
\* never taken for a state, and nothing an agent was before a gap survives it.
SegmentsStartFromTheLog ==
  \A rollout \in {run} \union {products[k] : k \in DOMAIN products} :
    \A t \in DOMAIN rollout.frames \ {0}, a \in World :
      LET now == rollout.frames[t][a]
          before == rollout.frames[t - 1][a]
      IN  now.valid =>
            IF before.valid /\ t > Current /\ Policy \notin Privileged
            THEN /\ now.pos - before.pos \in 0..(4 * MaxSpeed)
                 /\ now.spd \in 0..MaxSpeed
                 /\ now.spd - CurrentSpeed(before) \in -MaxDeceleration..MaxAcceleration
            ELSE now = Log[t][a]
=============================================================================
