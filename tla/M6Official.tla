------------------------------ MODULE M6Official ------------------------------
(***************************************************************************)
(* The evaluation as the official M6 command uses it: when the result is   *)
(* returned, the adapter derives the tables of the store from it, which    *)
(* are issued if they are complete and agree with what the sources say     *)
(* (evalsim/evaluation/m6_official.py).                                    *)
(*                                                                         *)
(* The adapter evaluates its snapshots of the cases twice and compares the *)
(* tables. The evaluation is a function of the sources, so that a second   *)
(* one in the model would give the same tables.                            *)
(***************************************************************************)
EXTENDS M6Evaluation

VARIABLE issued     \* the tables, or <<>> before they are issued

officialVars == <<vars, issued>>
-----------------------------------------------------------------------------
(* The tables *)

\* The disposition of every case. Whether it can have the higher dose is asked of
\* the sources again, and is a null for an ineligible one.
EligibilityRow(c) ==
  [case |-> c, eligible |-> c \in Range(EligibleCases),
   severe |-> IF c \in Range(EligibleCases)
              THEN IF SevereFeasible(source[c]) THEN "yes" ELSE "no"
              ELSE "null"]
EligibilityRows == [i \in 1..Len(CaseOrder) |-> EligibilityRow(CaseOrder[i])]

\* A row for every measure of every scene, from its pair anew.
ScalarRow(scene, metric) ==
  LET base == scene.baseline.frames
      treated == scene.treated.frames
      result == PrimaryResults(base, treated, scene.target)[metric]
  IN  [case |-> scene.case, policy |-> scene.policy, metric |-> metric,
       value |-> result.value, answer |-> result.answer, latency |-> result.latency]
ScalarRows(scenes) ==
  FlattenSeq([i \in 1..Len(scenes) |->
                [j \in 1..Len(PrimaryMetrics) |->
                   ScalarRow(scenes[i], PrimaryMetrics[j])]])

KeyOf(row) == [case |-> row.case, policy |-> row.policy, metric |-> row.metric]
KeysOf(cases) ==
  FlattenSeq([i \in 1..Len(RunsOf(cases)) |->
                [j \in 1..Len(PrimaryMetrics) |->
                   [case |-> RunsOf(cases)[i].case, policy |-> RunsOf(cases)[i].policy,
                    metric |-> PrimaryMetrics[j]]]])

\* The scenes that are tabulated again agree with what they say of themselves, and
\* the table has the keys of its cases in their order.
ScalarRowsHold(scenes, cases) ==
  /\ \A scene \in Range(scenes) :
       scene.primary = PrimaryResults(scene.baseline.frames, scene.treated.frames,
                                      scene.target)
  /\ [i \in 1..Len(ScalarRows(scenes)) |-> KeyOf(ScalarRows(scenes)[i])]
       = KeysOf(cases)
-----------------------------------------------------------------------------
(* The observations that must not be made *)

\* A stronger pulse is nowhere faster and nowhere farther.
Progress(plan, t) ==
  SumFunction([s \in Current..(t - 1) |-> plan[s].spd + plan[s + 1].spd])
NestedPlansMonotone(log) ==
  LET weak == BrakePlan(log, PrimaryDose)
      strong == BrakePlan(log, SecondaryDose)
  IN  /\ weak[Current] = strong[Current]
      /\ \A t \in Scored : /\ strong[t].spd <= weak[t].spd
                           /\ Progress(strong, t) <= Progress(weak, t)

SceneOf(c, policy) == CHOOSE s \in Range(rows) : s.case = c /\ s.policy = policy

\* The gates with the policies they are about, in the order of the table. The last
\* two are about the plans.
NegativeGates ==
  <<[gate |-> "world_equality", policies |-> <<"log_replay">>],
    [gate |-> "world_equality", policies |-> <<"constant_velocity">>],
    [gate |-> "sham_equality", policies |-> PolicyOrder],
    [gate |-> "response_floor", policies |-> PolicyOrder],
    [gate |-> "plan_feasibility", policies |-> <<"none">>],
    [gate |-> "nested_doses", policies |-> <<"none">>]>>

Passed(gate, c, policy) ==
  LET scene == SceneOf(c, policy)
      base == scene.baseline.frames
      treated == scene.treated.frames
  IN  CASE gate = "world_equality" -> WorldAgrees(base, treated)
        [] gate = "sham_equality" ->
             ShamHolds([legacy |-> scene.legacy, identity |-> scene.baseline])
        [] gate = "response_floor" -> FloorHolds(base, treated)
        [] gate = "plan_feasibility" -> Audit(BrakePlan(source[c], PrimaryDose))
        [] gate = "nested_doses" -> NestedPlansMonotone(source[c])

Observations(g, cases) ==
  FlattenSeq([i \in 1..Len(cases) |->
    [j \in 1..Len(g.policies) |->
       [gate |-> g.gate, case |-> cases[i], policy |-> g.policies[j],
        violation |-> ~Passed(g.gate, cases[i], g.policies[j])]]])

NegativeRows ==
  FlattenSeq([i \in 1..Len(NegativeGates) |->
    Observations(NegativeGates[i],
                 IF NegativeGates[i].gate = "nested_doses" THEN SevereCases
                 ELSE EligibleCases)])

NegativeRowsHold == Len(NegativeRows) = 9 * Len(EligibleCases) + Len(SevereCases)
-----------------------------------------------------------------------------
(* Actions *)

\* The result is validated again, the tables are derived and issued.
IssueRows ==
  /\ stage = "published" /\ issued = <<>>
  /\ IF /\ ResultHolds
        /\ severe = {row.case : row \in {r \in Range(EligibilityRows) : r.severe = "yes"}}
        /\ ScalarRowsHold(rows, EligibleCases)
        /\ ScalarRowsHold(severeRows, SevereCases)
        /\ NegativeRowsHold
     THEN /\ issued' = [eligibility |-> EligibilityRows, primary |-> ScalarRows(rows),
                        secondary |-> ScalarRows(severeRows),
                        negative |-> NegativeRows]
          /\ UNCHANGED stage
     ELSE stage' = "failed" /\ UNCHANGED issued
  /\ UNCHANGED <<callerVars, caseVars, planVars, condition, run, products, resultVars>>

OfficialInit == Init /\ issued = <<>>
OfficialNext == (Next /\ UNCHANGED issued) \/ IssueRows
OfficialSpec == OfficialInit /\ [][OfficialNext]_officialVars
-----------------------------------------------------------------------------
(* Properties *)

\* What is returned belongs to the scenarios the caller has, but for those it
\* changed while they were compared for the last time: an eligible one is in the
\* rows, once under each policy, with the target its log gives, an ineligible one
\* is not, and under log replay the target ends where the log does.
RowsAreOfTheCaller ==
  stage = "published" =>
    LET RowsOf(results, c, p) ==
          {r \in Range(results) : r.case = c /\ r.policy = p}
        Expected(yes) == IF yes THEN 1 ELSE 0
    IN  /\ Len(rows) = Cardinality(Range(rows))
        /\ \A c \in Cases \ late, p \in Policies :
             LET log == caller[c]
             IN  /\ Cardinality(RowsOf(rows, c, p)) = Expected(Eligible(log))
                 /\ Cardinality(RowsOf(severeRows, c, p))
                      = Expected(Eligible(log) /\ SevereFeasible(log))
                 /\ \A r \in RowsOf(rows, c, p) :
                      /\ r.target = Target(log)
                      /\ p = "log_replay" =>
                           r.baseline.frames[Stop][r.target] = log[Stop][r.target]

\* A response is braking that is in the impulse, speed is not given up otherwise,
\* and where the world does not answer the gap changes with the ego alone, which
\* is never ahead of where it was.
MeasuresAgree ==
  \A scene \in Range(rows) \union Range(severeRows) :
    LET primary == scene.primary
    IN  /\ scene.secondary.reduction <= primary.impulse.value
        /\ primary.timeliness.answer = "responded" =>
             primary.impulse.value >= Persistence * ResponseThreshold
        /\ scene.policy \in Nonreactive =>
             primary.gap.value <= 0 /\ scene.secondary.displacement = 0

\* A cell sums up the rows of its policy and measure. No more cases leave time
\* than answered, and no more answered than braked. Under a policy that cannot answer
\* only the gap is given a direction, and that is downwards.
CellsCountTheRows ==
  \A cell \in Range(matrix.cells) :
    LET Of(metric) == CHOOSE other \in Range(matrix.cells) :
                        other.policy = cell.policy /\ other.metric = metric
        table == {i \in DOMAIN issued.primary :
                    /\ issued.primary[i].policy = cell.policy
                    /\ issued.primary[i].metric = cell.metric}
    IN  /\ cell.pairs = Cardinality({r \in Range(issued.eligibility) : r.eligible})
        /\ cell.sum = SumFunction([i \in table |-> issued.primary[i].value])
        /\ Of("timeliness").events <= Of("timeliness").responders
        /\ Of("timeliness").responders <= Of("impulse").events
        /\ cell.policy \in Nonreactive /\ cell.sign # "none" =>
             cell.metric = "gap" /\ cell.sign = "negative"

\* The tables that are issued say one thing: the measures of a pair fit together,
\* the cells of the matrix count the rows, and no observation is a violation.
TablesAgree ==
  issued # <<>> =>
    /\ MeasuresAgree /\ CellsCountTheRows
    /\ \A row \in Range(issued.negative) : ~row.violation
=============================================================================
