----------------------------- MODULE M5Evaluation -----------------------------
(***************************************************************************)
(* The evaluation of the accepted M4 cohort inside the official M5         *)
(* command: its members are reloaded shard by shard, rolled out under the  *)
(* three policies and by the exact-log reference of Waymax, measured twice,*)
(* compared with the native metrics where selected, and summed up in the   *)
(* paired cells of the scorecard (evalsim/evaluation/m5.py, m5_waymax.py,  *)
(* evalsim/sources/m5_m4_reuse.py and _visit_and_evaluate of               *)
(* evalsim/cli/m5_official.py). M5Metrics is what is measured; M5Run puts  *)
(* the evaluation into the command, which writes a part after each member. *)
(*                                                                         *)
(* At most once something goes wrong: a shard or the accepted run changes  *)
(* on disk, or Waymax answers wrongly or writes into the state it was      *)
(* given.                                                                  *)
(***************************************************************************)
EXTENDS M5Metrics, Sequences, TLC

CONSTANTS
  Cohorts,        \* the cohorts M4 may have accepted: scenes by cohort index
  ShardMembers,   \* the cohort indices in each shard, in the order of M4_SHARD_SUFFIXES
  ParityMembers,  \* the indices selected for the comparison with native metrics
  OtherScene      \* what a record or a state is after it changed

Members == UNION {Range(ShardMembers[i]) : i \in DOMAIN ShardMembers}

\* The source predicate of the M4 cohort.
AcceptedByM4(scene) ==
  /\ \A t \in Current..LastFrame : scene.log[t][Ego].valid
  /\ \E a \in Vehicles : scene.log[Current][a].valid /\ scene.log[Current + 1][a].valid

ASSUME CohortAssumption ==
  /\ ParityMembers \subseteq Members
  /\ \A c \in Cohorts :
       /\ c \in [Members -> Scenarios]
       /\ \A i \in Members : AcceptedByM4(c[i]) /\ c[i] # OtherScene

\* M4 accepts a record once and has one of every shard.
ASSUME ShardAssumption ==
  /\ ShardMembers \in Seq(Seq(Nat)) /\ \A s \in DOMAIN ShardMembers : ShardMembers[s] # <<>>
  /\ \A s, t \in DOMAIN ShardMembers :
       \A k \in DOMAIN ShardMembers[s], l \in DOMAIN ShardMembers[t] :
         ShardMembers[s][k] = ShardMembers[t][l] => s = t /\ k = l

VARIABLES
  accepted,    \* the accepted cohort, as the preflight verified it
  source,      \* the records on disk
  artifacts,   \* the files of the accepted run: "accepted" or "changed"
  stage,       \* what the evaluation does next
  shards,      \* the shards still to be reloaded
  queue,       \* the reloaded records of the current shard
  case,        \* the member under evaluation: its index, scene and native state
  measured,    \* its results and slices, once evaluated
  scalars,     \* the results that the scorecard accumulator keeps, by cohort index
  members,     \* the slices it keeps, by cohort index
  parity,      \* the members whose native comparison was accepted
  cells,       \* the paired cells, once finalized
  fault        \* what went wrong, if anything

evaluation == <<accepted, source, artifacts, stage, shards, queue, case, measured,
               scalars, members, parity, cells, fault>>
memberVars == <<case, measured>>
sums == <<scalars, members, parity, cells>>
disks == <<accepted, source, artifacts>>

Nothing == <<>>
-----------------------------------------------------------------------------
(* The rollouts *)

\* The frames of a rollout without a plan: the ego replays its log, the policy
\* moves the world to the end of the source.
Rollout(log, policy) ==
  LET frames[t \in 0..LastFrame] ==
        LET before == frames[t - 1]
        IN  IF t <= Current THEN log[t]
            ELSE NextFrame(before, log[t], PolicyStep(policy, log, before, t), log[t][Ego])
  IN  frames

\* Waymax's rollout, which is taken only if it is the log.
Reference == "waymax_exact_log"
Executions == Policies \union {Reference}

\* The function f itself; the comparison makes TLC tabulate it, once.
Tabulated(f) == CHOOSE g \in {f} : g = f

\* The rollouts of a scene are a function of it, and so are their results.
Scenes == (UNION {Range(c) : c \in Cohorts}) \union {OtherScene}
Rollouts ==
  Tabulated([scene \in Scenes |-> Tabulated([e \in Executions |->
     IF e = Reference THEN scene.log ELSE Rollout(scene.log, e)])])
Results ==
  Tabulated([scene \in Scenes |-> Tabulated([e \in Executions |->
     Tabulated([m \in Metrics |-> Result(m, scene, Rollouts[scene][e])])])])

\* One fault, of a kind, in the step it is a conjunct of.
Fails(kind) == fault = "none" /\ fault' = kind
Honest == UNCHANGED fault

\* A call of Waymax: its answer is right or not, and it leaves the state it was
\* given alone or not.
Answered(right, after) ==
  /\ case' = [case EXCEPT !.state = after]
  /\ IF right /\ after = case.state THEN Honest ELSE Fails("waymax")
-----------------------------------------------------------------------------
(* The actions *)

EvaluationInit ==
  /\ accepted \in Cohorts /\ source = accepted /\ artifacts = "accepted"
  /\ stage = "reload" /\ shards = ShardMembers /\ queue = <<>>
  /\ case = Nothing /\ measured = Nothing
  /\ scalars = Nothing /\ members = Nothing /\ parity = {} /\ cells = Nothing
  /\ fault = "none"

Pass(next) == stage' = next
Abort == stage' = "failed"

\* A record on disk changes, while the shards may still be read, or a file of the
\* accepted run does.
DiskChanges ==
  \/ /\ stage \notin {"failed", "finalize", "finalized", "over"}
     /\ Fails("record")
     /\ \E i \in Members : source' = [source EXCEPT ![i] = OtherScene]
     /\ UNCHANGED <<accepted, artifacts, stage, shards, queue, memberVars, sums>>
  \/ /\ Fails("artifacts") /\ artifacts' = "changed"
     /\ UNCHANGED <<accepted, source, stage, shards, queue, memberVars, sums>>

\* The selected records of the next shard are read.
ReloadShard ==
  /\ stage = "reload" /\ queue = <<>> /\ shards # <<>>
  /\ queue' = [k \in DOMAIN Head(shards) |->
                 [index |-> Head(shards)[k], scene |-> source[Head(shards)[k]]]]
  /\ shards' = Tail(shards)
  /\ Pass("member") /\ Honest
  /\ UNCHANGED <<disks, memberVars, sums>>

\* A reloaded record must be the one that was accepted, and is visited once.
TakeMember ==
  /\ stage = "member" /\ queue # <<>>
  /\ LET record == Head(queue)
     IN  IF record.scene = accepted[record.index] /\ record.index \notin DOMAIN scalars
         THEN /\ Pass("reference")
              /\ case' = [index |-> record.index, scene |-> record.scene,
                          state |-> record.scene]
         ELSE Abort /\ UNCHANGED case
  /\ queue' = Tail(queue) /\ Honest
  /\ UNCHANGED <<disks, shards, measured, sums>>

\* Faulty: the fingerprint is taken once.
UntouchedFaulty(before, after) == TRUE

\* The state given to Waymax has the fingerprint it had before.
Untouched(before, after) == before = after

\* The compact result of Waymax is the log of the state, the state has the history
\* of the scene, and the rollout made of it is the scene's log.
ValidatedCompact(frames, state) == frames = state.log
HistoryBinds(state, scene) == \A t \in 0..Current : state.log[t] = scene.log[t]
ExactMapping(frames, scene) == frames = scene.log

\* The exact-log reference: Waymax replays the state.
RunReference ==
  /\ stage = "reference"
  /\ \E frames \in {case.state.log, OtherScene.log}, after \in {case.state, OtherScene} :
       /\ Answered(frames = case.state.log, after)
       /\ IF /\ ValidatedCompact(frames, case.state)
             /\ HistoryBinds(case.state, case.scene) /\ ExactMapping(frames, case.scene)
             /\ Untouched(case.state, after)
          THEN Pass("evaluate") ELSE Abort
  /\ UNCHANGED <<disks, shards, queue, measured, sums>>

SameLifecycle(scene, frames) ==
  \A t \in DOMAIN frames : Valid(frames[t]) = Valid(scene.log[t])

\* A result is there exactly when the source is eligible.
AgreesWithSource(scene, results) ==
  \A e \in Executions, m \in Metrics : results[e][m].valid = Eligibility(m, scene)

\* All executions are measured alike, and the reference is log replay.
Paired(results) ==
  \A e, f \in Executions, m \in Metrics :
    results[e][m].components = results[f][m].components

ReferenceIsReplay(results) == results[Reference] = results["log_replay"]

\* An error metric of log replay must be there, and zero.
ZeroOracleHolds(results) ==
  \A m \in Oracle : results["log_replay"][m].valid /\ results["log_replay"][m].num = 0

\* Whether a case is evaluated without an error: the second pass repeats the first.
Evaluable ==
  Tabulated([scene \in Scenes |->
     LET results == Results[scene]
     IN  /\ \A e \in Executions : SameLifecycle(scene, Rollouts[scene][e])
         /\ AgreesWithSource(scene, results) /\ ZeroOracleHolds(results)
         /\ Paired(results) /\ ReferenceIsReplay(results)])

EvaluateCase ==
  /\ stage = "evaluate"
  /\ IF Evaluable[case.scene]
     THEN /\ Pass(IF case.index \in ParityMembers THEN "parity" ELSE "write")
          /\ measured' = [results |-> [p \in Policies |-> Results[case.scene][p]],
                          slices |-> Membership(case.scene)]
     ELSE Abort /\ UNCHANGED measured
  /\ Honest
  /\ UNCHANGED <<disks, shards, queue, case, sums>>

\* The native metrics that have a counterpart here, and how they may compare with
\* it, component by component: at most one of them differs.
Anchors == {"log_divergence", "overlap", "kinematic_infeasibility"}
Comparisons ==
  {[m \in Anchors |-> IF m = odd THEN answer ELSE "equal"] :
     odd \in Anchors, answer \in {"equal", "another_value", "other_components"}}

\* A row over other components is never built; a value that differs rejects it.
ParityRow(answer) ==
  CASE answer = "equal" -> "accepted"
    [] answer = "another_value" -> "rejected"
    [] answer = "other_components" -> "raised"

\* The accumulator takes accepted rows only.
RowsAccepted(answers) == \A m \in Anchors : ParityRow(answers[m]) = "accepted"

\* The member is the selected one, and the slots of its state hold its scene.
SelectedMember(c) == accepted[c.index] = c.scene
SlotsHoldScene(state, scene) == state = scene

\* The native metrics of the policies' rollouts, put into the slots of the state
\* that hold the agents of the scene.
CompareNative ==
  /\ stage = "parity"
  /\ \E answers \in Comparisons, after \in {case.state, OtherScene} :
       /\ Answered(\A m \in Anchors : answers[m] = "equal", after)
       /\ IF /\ SelectedMember(case) /\ SlotsHoldScene(case.state, case.scene)
             /\ RowsAccepted(answers) /\ Untouched(case.state, after)
          THEN Pass("write") /\ parity' = parity \union {case.index}
          ELSE Abort /\ UNCHANGED parity
  /\ UNCHANGED <<disks, shards, queue, measured, scalars, members, cells>>

\* Faulty: the slices are kept in the order of the visits.
SliceKeyFaulty(index) == Cardinality(DOMAIN scalars)

\* The results and the slices of a member are kept under its cohort index.
SliceKey(index) == index

\* What is known by index, and one thing more.
With(known, index, fact) ==
  [i \in DOMAIN known \union {index} |-> IF i \in DOMAIN known THEN known[i] ELSE fact]

\* What follows the write of the member's part.
AddCase ==
  /\ stage = "write"
  /\ scalars' = With(scalars, case.index, measured.results)
  /\ members' = With(members, SliceKey(case.index), measured.slices)
  /\ Pass(IF queue # <<>> THEN "member" ELSE IF shards # <<>> THEN "reload" ELSE "close")
  /\ case' = Nothing /\ measured' = Nothing /\ Honest
  /\ UNCHANGED <<disks, shards, queue, parity, cells>>

\* The end of the visit: the shards and the accepted run are what they were, every
\* member was seen, and every selected one compared.
ShardsUnchanged == source = accepted
AcceptedRunUnchanged == artifacts = "accepted"

CloseVisit ==
  /\ stage = "close"
  /\ IF /\ ShardsUnchanged /\ AcceptedRunUnchanged
        /\ DOMAIN scalars = Members /\ parity = ParityMembers
     THEN Pass("finalize") ELSE Abort
  /\ Honest
  /\ UNCHANGED <<disks, shards, queue, memberVars, sums>>

Contrasts == {<<"constant_velocity", "log_replay">>, <<"idm", "log_replay">>,
              <<"idm", "constant_velocity">>}

\* The cells of the scorecard: of the members of a slice, two policies' results.
Cell(results, slices, metric, slice, contrast) ==
  LET inSlice == {i \in DOMAIN slices : slice \in slices[i]}
      Rows(p) == [i \in inSlice |-> results[i][p][metric]]
  IN  AnalyzePairedCell(metric, slice, Rows(contrast[1]), Rows(contrast[2]))

FinalizeStatistics ==
  /\ stage = "finalize"
  /\ IF DOMAIN scalars = Members /\ DOMAIN members = Members
     THEN /\ Pass("finalized")
          /\ cells' = [k \in Metrics \X Slices \X Contrasts |->
                         Cell(scalars, members, k[1], k[2], k[3])]
     ELSE Abort /\ UNCHANGED cells
  /\ Honest
  /\ UNCHANGED <<disks, shards, queue, memberVars, scalars, members, parity>>

\* The evaluation is over, well or not: what it holds is gone.
Discard ==
  /\ Pass("over") /\ shards' = <<>> /\ queue' = <<>>
  /\ accepted' = Nothing /\ source' = Nothing
  /\ case' = Nothing /\ measured' = Nothing
  /\ scalars' = Nothing /\ members' = Nothing /\ parity' = {} /\ cells' = Nothing
  /\ UNCHANGED artifacts /\ Honest

\* The steps that do not touch the store.
EvaluationStep ==
  \/ ReloadShard \/ TakeMember \/ RunReference \/ EvaluateCase
  \/ CompareNative \/ CloseVisit \/ FinalizeStatistics
-----------------------------------------------------------------------------
(* Properties *)

\* The evaluation of an accepted cohort fails only when something went wrong, or
\* over a scene that M4 accepts and the zero oracle cannot judge: none of its
\* agents is there for three frames on end. The rule of eligibility, which never
\* sees a rollout, and the thirteen metrics, which do, agree about every scene.
HonestCohortIsEvaluated ==
  stage = "failed" /\ fault = "none" => Windows(case.scene.log, World, 2) = {}

\* What the scorecard sums up of a member is what its accepted scene gives, whatever
\* the order in which the shards were read, and how many pairs a cell has is a fact
\* of the sources alone: the members of its slice that are eligible for its metric.
\* No cell misses one side of a pair.
EveryCellIsPaired ==
  stage = "finalized" =>
    /\ \A i \in Members : members[i] = Membership(accepted[i])
    /\ \A i \in Members, p \in Policies :
         scalars[i][p] = Results[accepted[i]][p]
    /\ \A m \in Metrics :
         LET eligible == {i \in Members : Eligibility(m, accepted[i])}
         IN  \A s \in Slices, contrast \in Contrasts :
               LET cell == cells[<<m, s, contrast>>]
               IN  /\ cell.paired = Cardinality({i \in eligible : s \in members[i]})
                   /\ cell.status # "pairing_incomplete"
=============================================================================
