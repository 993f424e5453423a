# EvalSim: a verification development

EvalSim evaluates driving simulators offline and publishes the outcome as
*evidence runs*: write-once directories whose bytes, terminal markers and
provenance a reader can verify without trusting the process that wrote them.
Two things about it are hard. The publication of a run is a state machine spread
over files, processes, descriptors and threads, where a wrong interleaving or an
ill-timed error would make a failed run look like a success. And the evaluation
before it is a chain of strict gates: each derives again, from the bytes it was
given, what an earlier stage claims, so a gate that is laxer or stricter than the
stage it checks either lets a wrong result through or refuses an honest one. This
project models both, model-checks them with TLC, and proves central results with
TLAPS.

Paths below are relative to `src/evalsim/`.

## 1. Inventory

| Part | State it keeps | Operations | Correct when | Model |
|---|---|---|---|---|
| M5 result store and verifier, `results/m5.py` | the run directory; in memory the registered artifacts, keys, row counts, terminal bits, the prepared capability | `write_*` (seven), `prepare_finalization`, `mark_committed_for_verification`, `commit_finalization`, `abort_finalization`, `fail`; the verifier's one read | what commits is what the verifier accepts; a failed run never succeeds; a run is decided once | `M5Store` |
| M5 store creation, `create`, `_rollback_fresh_result_store` | `outputs/`, `outputs/m5/`, the run directory | create, roll back | at most one process holds a run; a leftover is marked as failed | `M5Create` |
| Official M5 command, `cli/m5_official.py` | holder, exit code, status line, the accumulators of the visit | `run_official`, the visit of the cohort, `_arm_verified_success`, `_promote_success`, `_persist_failure`, `main` | exit 0 only for an accepted run over an unchanged cohort; every failure recorded; the command ends | `M5Official`, `M5Run` |
| M4 reuse, `sources/waymax_m4.py`, `waymax_loader.py` | none | check the accepted M4 run, open shards again | the members evaluated are the members accepted | `M5Evaluation`, `M6Campaign` |
| M5 evaluation, `evaluation/m5.py`, `m5_waymax.py`, `metrics/m5.py`, `slices/m5.py`, `statistics/m5.py` | per member: rollouts, results, slices, native comparison | rollout, zero oracle, metrics, native parity, paired cells | cells pair exactly what the sources make eligible | `M5Metrics`, `M5Evaluation` |
| Terminal capture, `cli/_terminal.py` | descriptors 1 and 2, a pipe, the drain thread, the bounded transcript | `capture_terminal`, the drain loop | the irreversible commit happens only if nothing was and nothing can be printed | `TerminalCapture` |
| M6 result store, `results/m6.py` | the run directory with PENDING, AWAITING_REVIEW, COMMITTED, TERMINAL_* markers; the evidence held so far | create, adopt, write (some twenty writers), verify, seal, review, commit, mark success, fail | what is sealed is one evaluation; a claim is earned; as M5, with other processes that finish the run | `M6Reservation` (creation), `M6Evidence` (writers), `M6Review` (end of a run) |
| Official M6 commands, `cli/m6_official.py` | one-use reservation, the store, the live receipts | eligibility run, pilot, official run, finalize-review, verify | a reservation is used once; a run rests on its predecessors; exit 0 only for an accepted run | `M6Reservation`, `M6Campaign`, `M6Review` |
| M6 bootstrap, `cli/m6_bootstrap.py` | the isolated child interpreter | start, authenticate, deliver status, invalidate | a status that was not delivered leaves no success behind | `M6Reservation`, `M6Review` |
| M6 campaign, `evaluation/m6_official.py`, `m6_waymax_official.py` (collector) | the resident scenes, eligibility rows, pilot timings | collect, preregister, pilot, gate | the residents are the best scenes of the cohort; a run is chained to accepted predecessors | `M6Campaign` |
| Rollout engine, dynamics, trace, `rollout/` | the state of every agent, per step; recorded actions | birth, synchronous update, gap, end, clamps; record, replay | every agent is driven from the state all had before the step; replay is the recorded rollout | `RolloutEngine` |
| M6 evaluation, `evaluation/m6.py`, `perturb/m6.py`, `contracts/counterfactual.py` | cases, runs per case and condition, gates | copy, classify, roll out, gate, analyse, issue | the gates accept what the engine did; rows are those of the caller's scenarios | `M6Evaluation`, `M6Metrics`, `M6Statistics`, `M6Official` |
| Waymax evaluation, `evaluation/m6_waymax_official.py`, `m6_waymax_metrics.py`, `simulators/waymax_m6.py` | a one-shot authority, four executors, frozen buffers | authorize, execute, compare, freeze, issue | one run per authority; what is issued is what was computed | `M6Waymax` |
| Cohort selection, `sources/waymax_cohort.py` | a stream of candidates, quotas | select, redistribute, fall back | exactly the target, no duplicates, short only when it must be | `M4Acceptance` |
| M4 command, `sources/waymax_m4_cli.py` | a worker process and a pipe, a pending report | scan, visit, benchmark, poll, reap, kill, publish | a report rests on an unchanged cohort and a worker that ended cleanly; no worker is left | `M4Acceptance` |
| Synthetic runs, report, visualisation, stress suite, recordings | immutable values | pure functions | numeric or formatting | see "Not modelled" |

### How the parts interact

The M4 command selects a cohort and publishes an acceptance report. M5 and M6
never trust a cohort they did not see: both open the shards again, compare every
record with the accepted report, and check files, code and report once more before
their result can count (`M5Evaluation`, `M6Campaign`).

The official M5 command creates the store (`M5Create`), runs one callback inside
`capture_terminal` (`TerminalCapture`), and in that callback visits the cohort
(`M5Evaluation` inside `M5Run`), writes artifacts, prepares finalization and arms
success (`M5Official` driving `M5Store`). The callback has no way to make the run
succeed: it returns a capability, and only the `terminal_commit` that
`capture_terminal` calls, when the transcript turned out empty and every
descriptor was put away, creates SUCCESS. On any other path `_persist_failure`
sees to a failure record. Status line and exit code come last. Readers look at the
run directory at any time, from other processes, through the verifier.

M6 is three runs over one cohort: an eligibility run, a pilot and the official run,
each of which names the accepted ones before it (`M6Campaign`). Each reserves its
name once (`M6Reservation`). The pilot and the official run evaluate their scenes
twice with the reference engine (`RolloutEngine`, `M6Evaluation`, `M6Official`) and
once with Waymax (`M6Waymax`), hand the result to the writers of the store
(`M6Evidence`) and seal it with AWAITING_REVIEW. The marker carries the capability,
so any later finalize-review command can adopt the run, add the reviewers'
decisions, commit and write TERMINAL_SUCCESS, or record a rejection. Nothing but
exclusive file creation keeps two such commands apart (`M6Review`). The commands
run under the bootstrap, which delivers the status and, for every exit code but 0,
calls the invalidator.

### What is hard about it

* Every file is created once, with `O_EXCL`, written, fsynced, and its directory
  fsynced; each of these steps can raise after it took effect. The markers
  `COMMITTED` and `SUCCESS` are *reconciled*: a raised write counts as done if
  the exact bytes are read back, because a reader may have seen them.
* A crash can happen inside any write, and a power cut can take back what was
  not fsynced, also what a reconciled write left.
* A store is used by a caller that may call its methods in any order, with the
  results of different evaluations, and go on after an exception.
* Something outside the program can change bytes between two checks: files of the
  run, shards, the accepted report, the code itself.
* A caller can go on changing a scenario that is being evaluated, and native code
  can hand out a buffer it will write into later.
* A thread or child process that outlives the callback holds the pipe open; end
  of file never comes, or comes at the moment the grace period ends. A benchmark
  worker answers at the moment its time is up, or dies after it answered.
* Several processes may create the same run name, or adopt the same M6 run; what
  one of them finds on disk may be the other's, and its failure record goes into
  the other's run.
* Agents come and go: an agent that is not there now and is in the next frame
  starts from the log. The rule is written once in the engine, and again in the
  trace, the gates, the metrics, the slices and the Waymax kernels, and all of
  them must agree about gaps, births and the last frame.

The `hazards` list in `PROJECT.json` names these points line by line, with the
property that covers each.

## 2. Modules

Each component has a module; an `MC` module gives its constants values for TLC; a
`Proofs` module holds its theorems (`M5Proofs` those of the M5 store, its creation and
the M5 command, `M6CampaignProofs` also those of the capture, `M6EvaluationProofs` those
of `M6Evaluation` and `M6Official`). How they build on each other:

    RunVerdict   <- M5Store (refinement)   M5Store <- M5Official <- M5Run
    RolloutEngine <- M5Metrics <- M5Evaluation <- M5Run
    RolloutEngine <- M6Metrics <- M6Evaluation ;  M6Evaluation, M6Statistics <- M6Official
    alone: TerminalCapture, M5Create, M6Reservation, M6Campaign, M6Evidence,
           M6Review, M6Waymax, M4Acceptance

### RunVerdict: the abstract specification

Three states, *open*, *accepted* and *closed*, each decision made once and for
good; only harm from outside takes an acceptance back, and nothing reopens a
run. It knows neither files nor markers.

### M5Store: the result store and its verifier

| Model | Code (`results/m5.py`) |
|---|---|
| `disk` | the run directory: for each path nothing, the intended bytes or other bytes, and whether bytes and name are fsynced |
| `registered`, `keys`, `rows` | `_artifacts` with the two other registries, `_keys`, `_row_counts` |
| `failed`, `finalizing`, `committed`, `successful`, `capability` | the terminal bits and `_prepared_finalization` |
| `manifest` | what `evaluation-manifest.json` lists |
| `call` | where inside `prepare_finalization` or `commit_finalization` the process is |
| `WriteMetricResultsPart` ... `WriteHumanReadableScorecard` | the seven artifact writers; each either publishes or poisons |
| `BeginFinalization`, `PublishManifest`, `ConfirmPrepared` | `prepare_finalization`, cut where a crash or interference matters |
| `MarkCommittedForVerification` | the method of that name, with the reconciliation of its raised write |
| `SealBytes`, `WriteSuccess` | `commit_finalization`: the byte seal, then SUCCESS |
| `AbortFinalization`, `Fail` | the methods of those names |
| `Verifies(state)` | `_verify_m5_result_store` for prepared, committed and success |
| `Crash`, `PowerLoss`, `Tamper` | the environment |

`Landings` is what one exclusive write may leave behind when it raises: nothing,
torn bytes, or the whole bytes without one or both of the fsyncs. `Poison` is
the failure record, itself written by such a write, whose errors are swallowed
by the code. `outcome`, `tampered`, `powerLost`, `reconciled` and `misordered`
only record what happened; no guard of a program step reads them.

### M5Official, M5Metrics, M5Evaluation, M5Run: the official M5 command

`M5Official` EXTENDS `M5Store`; each step of the command is a store action, a check
that leaves the store alone, or an exception. `pc` follows the callback from
`created` on, where `create` has returned (`_arm_verified_success` at its end), then
`collect` (what the capture found), `promote` / `success` / `returned` (the terminal
commit), `persist` and `read` (`_persist_failure` and the path of the failure record),
and `emit`. `held` is what the holder has: nothing, `holder.store` (`HoldStore`), or `holder.prepared` as
well (`HoldPrepared`). An exception may leave the callback at any point, and an
interrupt may leave `_persist_failure` (`InterruptPersist`), which swallows an
`Exception` only: `main` then rejects the command. `interrupted` says that an interrupt
came where it keeps the failure from being recorded.

`M5Evaluation` is the visit of the cohort, one member at a time, and `M5Run` puts
it into the place of the command's visit, so the fate of the store and of the
evaluation are one behaviour.

| Model | Code |
|---|---|
| `accepted`, `source`, `artifacts` | the accepted M4 cohort, the shards and the accepted run's files now |
| `ReloadShard`, `TakeMember`, `ShardsUnchanged`, `AcceptedRunUnchanged`, `CloseVisit` | the guarded visit, `cli/m5_official.py`, `sources/waymax_loader.py` |
| `ValidatedCompact`, `HistoryBinds`, `ExactMapping` | the compact scene against its native record, `evaluation/m5_waymax.py` |
| `RunReference`, `ReferenceIsReplay`, `ZeroOracleHolds`, `EvaluateCase` | `evaluation/m5.py`: rollouts of the three policies, log replay as the oracle whose errors are all zero |
| `CompareNative`, `ParityRow`, `SlotsHoldScene` | native parity of the selected members |
| `Result`, one operator per metric of the thirteen; `Eligibility` | `metrics/m5.py` |
| `SliceHolds`, `SliceEligible`, `Membership` | `slices/m5.py` |
| `AnalyzePairedCell`, `PairingComplete`, `Enough` | `statistics/m5.py`, but for the bootstrap |

Eligibility is written twice in the code, over the source alone and inside each
metric over source and rollout, and the model keeps both: their agreement is what
`HonestCohortIsEvaluated` and `EveryCellIsPaired` are about.

### TerminalCapture: descriptors, pipe, drain thread

Three kinds of actors: the main thread (`pc` follows `capture_terminal` line by
line, every system call may fail), the drain thread (`DrainRead`,
`DrainReachesEnd`, `DrainGivesUp`), and writers nobody controls: a thread of the
process that is caught inside `write(2)`, and a child that inherited the pipe.
`PipeHeld` says who keeps end of file away.

### M5Create: creation and rollback by several processes

The path-based steps of `create` by each process: look and make for the two
parent directories, probe and `mkdir` of the run, its layout, and on any failure
the rollback (`Undo...`, `LookAgain`, `RecordFailure`). Every step acts on
whatever directory has the path at that moment; `maker` remembers whose it is.

### M4Acceptance: the whole M4 command

| Model | Code |
|---|---|
| `Prepare` | the runtime and source checks before the first pass, `sources/waymax_m4_cli.py` |
| `OpenShard`, `DecodeRecord`, `CloseShard`, `NextPass`, `EndScan`, `EndVisit` | five passes over the shards: two scans that must give the same manifest, two visits of the cohort, one of the IDM subset; a shard is hashed, decoded record by record, and its identity checked again |
| `Selection`, `Selectable`, `Needed`, `Redistributed`, `FallbackUsed` | `sources/waymax_cohort.py`: quotas by rank, redistribution of what a shard is short of, fallback |
| `IDMSubset` | the nested subset of the IDM pass |
| `StartWorker`, `Poll`, `Receive`, `Terminate`, `Join`, `Kill`, `Reap`, `Answer`, `ExitWorker` | the benchmark worker and its pipe |
| `Measure`, `CloseCapture`, `CheckSource`, `LinkReport`, `UnlinkPending`, `DeliverStatus` | the transcript's size, the last check of the checkout, the report written beside and linked to its name |
| `Interrupt`, `Crash`, `Drift`, `ReplaceShard`, `WorkerPrints`, `RuntimePrints` | the environment |

### M6Reservation: from a run name to a store

Several commands ask for one run name. Each takes the steps of
`prepare_m6_official_run` under the bootstrap: `Start` and `CheckGitInvisible`, the
parent directories, `ProbeRun`, `MakeRun`, `WritePending`, `Register`; then
`AuthenticateEnvironment`, `Consume`, `AdoptPending`, `FillStore`. Whatever goes
wrong, the handle the command has at that point decides who records it:
`FailReservation`, `FailStore`, `ViewFailedCreation` (nothing but a name), and the
bootstrap's `Invalidate`. The name may have been used by a run that reviewers
rejected (`RejectedRun`), and a stranger may plant a file in the new directory.

### M6Campaign: eligibility run, pilot and official run

Three runs over one cohort. Each does its preflight (`Prepare`, `GateAccepts`),
reads a shard record by record (`OpenShard`, `DecodeRecord`), looks at the file
again (`CheckFile`), and only then hands its records one by one to the collectors
(`Deliver`, `CloseShard`), of which the Waymax collector keeps the best scenes
within the cap (`Collect`, `Evict`; `seen` is what reached it, `residents` what it
keeps). Then it seals ledger and selection (`Preregister`), checks the chain behind
it before its first outcome (`BeginOutcomes`), evaluates and ends (`Commit`,
`Recheck`, `Terminalize`; `FinalizeReview` for the official run). The evaluation of
an official run is one step here (`ExecuteOfficial`); a pilot goes through its
phases on the clock (`PilotPhase`), each of which adds a duration to the spans it
belongs to (`timing`: the whole, NumPy, Waymax), rounded up to milliseconds of its
own, and ends with `VerifyPilot`, which compares every sum with the duration of its
span. The code, the accepted M4 run and every shard can change between any two
steps, and change back.

### RolloutEngine, M6Metrics, M6Evaluation, M6Statistics, M6Official

| Model | Code |
|---|---|
| `Births`, `Continuing`, `PolicyStep`, `NextFrame` | `rollout/engine.py`: birth from the log, synchronous update, privileged overrides |
| `Clip`, `NextSpeed`, `Travel`, `Clamps` | `rollout/dynamics.py` over integers; positions in halves of a unit |
| `IdmAcceleration`, `NearestLeader`, `Unforced` | `simulators/`: IDM, constant velocity, log replay |
| `TraceRow`, `TraceBinds`, `ReplayedClamps` | `rollout/trace.py` with the legacy comparison of clamps |
| `Segment`, `StableFollowers`, `Target`, `SevereFeasible`, `BrakePlan`, `Audit` | `perturb/m6.py` |
| `CopyCase`, `CompareCase`, `Classify`, `StartRun`, `Transition`, `BindTrace`, `NextCondition`, `PassGate`, `BuildResult` | `evaluation/m6.py`: the snapshots, the four conditions of each case and policy, the comparison with the caller before the result counts |
| `ShamHolds`, `HistoryHolds`, `LifecycleHolds`, `PlanHolds`, `PairHolds`, `NonreactivityHolds` | the gates, `contracts/counterfactual.py` and `evaluation/m6.py` |
| `PrimaryMetrics`, `SecondaryResults` and the measures they are made of | `metrics/m6.py` |
| `Counts`, `Status`, `Sign`, `Cell`, `Matrix` | `statistics/m6.py` |
| `EligibilityRows`, `ScalarRows`, `Observations`, `IssueRows` | the rows of the official evaluation, `evaluation/m6_official.py` and `evaluation/m6.py` |

`M6Evaluation` runs one rollout at a time, a frame per step, and the caller can
change a scenario between any two steps.

### M6Waymax: the one-shot Waymax evaluation

Two runs hold one authority (`ValidateInputs`, `RevalidateClaim`,
`RevalidateExecutors`, `Claim`, `SetFlag`, with `issuance_lock` and the two places
that say it is consumed). The one that gets it makes the grid of calls (`Execute`):
scene, bundle, condition and pass; all passes of a cell must give the same output,
a pilot compares them at once, an official run when its table is made. `buffer`, `checked`, `priors`, `heap` and `frozen` are the life
of a returned array from the executor to the immutable copy. `Quirks` is how the
simulator may deviate in every call, and the faults are a different computation, an
old buffer handed out again, a late write into one, and a source that is written
into. What is issued is said to be witnessed after one fault at most: two equal ones in
both passes of a cell look like a quirk. `PairCalls`, `Scalars` and `Measures` are the metrics, `Issue` the bundle.

### M6Evidence: the writers of an M6 run

The writers of `results/m6.py` in the order its phases allow, called with the
results of any of several evaluations. `tables` is what is sealed; `live` the
evidence the writer still has in memory, which a finalizer has not. The three
layers of the verification before a review are `MechanicallyVerified`,
`GatesAreGood` with `TablesReproduce` (the NumPy matrices in `MatricesReproduce`,
the Waymax tables in `WaymaxReproduces`), and `SemanticallyVerified` (with
`SelectionHolds`, `ReviewIsBound`, `SummaryReproduces` and `ReleaseStands`), which
the committed run is verified by. While the writer lives, the selection is compared
with the one it holds; a finalizer can only ask whether the stored one is
consistent (`StoredSelectionHolds`). `ScalarsFit`, `ComparisonsFit`,
`AccountingHolds`, `ObservationsCover` and `PilotHolds` are the normalizers that
both the writers and the verifiers call.

### M6Review: one M6 run, its run command and its finalizers

| Model | Code |
|---|---|
| `disk`, `author` | the run directory; of each file nothing, torn, whole but unsynced, or exact bytes; and which process wrote a file whose content depends on it |
| `reviews` | what the reviewers told each finalize-review command |
| `pc`, `stage`, `held` | the next step of each command; whether main or the bootstrap asked for the failure record; `holder.store` |
| `FillStore`, `SealAwaitingReview` | `_write_mode_artifacts`, `seal_awaiting_review` |
| `AdoptAwaitingReview`, `ReviewSteps` | `finalize_m6_review` with `adopt_awaiting_review`, `write_review_decisions`, `write_execution_summary` |
| `Commit`, `CollectTranscript`, `Authorize`, `MarkTerminalSuccess` | `commit`, the capture, `_finalize_and_terminalize`, `mark_terminal_success` |
| `EmitStatus` | `_emit_status` and the end of `_bootstrap` |
| `LookForMarkers`, `WriteFailure` | `_poison`, cut between its look and its write |
| `RecordRejection`, `Diagnose`, `Invalidate` | `_fail_rejected_review`, `_persist_failure_diagnostic`, `_invalidate_terminal_status_failure` |
| `Verifies`, `RejectionVerifies`, `Adoptable` | the verifiers of committed, successful and rejected runs, and the checks of adoption |
| `Crash`, `PowerLoss` | the environment |

Every check that a method makes before it creates a file is a step of its own, so
another process can act in between. Two simplifications shorten the model without
hiding an interleaving. Attempts at a failure record that follow each other with
nothing in between (a method poisons, then main does) are one attempt. And of the
verifications between COMMITTED and the success marker only the last is a step:
each may fail for a reason of its own anyway, and files are only added.

`contended` (two live commands held the run at once), `unrecorded` (the last
failure record left no file) and `powerLost` record what happened; no guard of a
program step reads them. The check of eligibility rows by which a review is refused
today (finding `m6_campaign_review`) is in `M6Campaign`; `M6Review` and
`M6Evidence` show what the store promises if that check passes.

## 3. Runs

| Run | What it asks |
|---|---|
| `m5_store` | Any order of calls, any raised write, crash, power cut, one act of interference: is what commits what the verifier accepts, is a failure final, does a run get decided once (a refinement of `RunVerdict`)? |
| `m5_official` | The command with its evaluation, from the first record to the exit code: is exit 0 an accepted run over an unchanged cohort, does the evaluation refuse no honest cohort, does every cell pair what the sources make eligible, is every failure recorded, does the command end? |
| `terminal_capture` | Is a commit silent; does output reach the terminal it must not; does the capture end? |
| `m5_create` | Does at most one process get the run, is a leftover marked? |
| `m4_acceptance` | Is a cohort exactly what quotas and files allow, does a report rest on an unchanged cohort and a clean worker, does the command end? |
| `m6_reservation` | Three commands and one run name: whose run is it, who marks it, what does a failed command leave, what is exit 0? |
| `m6_campaign` | Three runs over one changing world: are the residents the best scenes, is what is sealed what the accepted run contains, has an official outcome its chain, are honest timings accepted? |
| `m6_campaign_review` | A violation: does the review of an unchanged official run go through? |
| `m6_evaluation` | Every scenario, policy, dose and condition while the caller changes its input: do the gates refuse honest rollouts, do agents start from the log, are rows those of the caller, do tables agree with each other? |
| `m6_waymax` | Two runs with one authority, misbehaving executors: is one run authorized, is issued evidence computed, is an honest execution refused? |
| `m6_evidence` | Any order of writers with the results of several evaluations: is what is sealed one evaluation, is a claim earned, do only reviewers decide after the seal? |
| `m6_review` | Two finalizers on one M6 run: what do exit codes 0 and 1 promise, can a run be a mixture of two finalizers' work? |

`CHECK_DEADLOCK FALSE` in every run: a run, a command and a capture end, and then
nothing is left to do.

### Bounds, and why they are enough

* `MCM5Store`: two metric parts and two metric keys, one key in each other
  dataset. Two parts allow a gap in the numbering, an overlap of keys and a part
  written after another; two keys allow a short row matrix and a duplicate that
  would make up for it. More parts only repeat these situations; the theorems hold
  for any number of both. At most one act of interference and one power cut, at any
  point; interference is assumed durable.
* `MCM5Run`: two members in two shards, visited in the order 1, 0, so that cohort
  index, part and order of the visit are three different things; one member is
  selected for native parity. An ego, two vehicles and a pedestrian over six
  frames, of which the second is the current one, in three cohorts: with gaps,
  births, a missing lane, agents of every class, and a scene in which nobody stays
  for three frames. `MinimumPaired` 1 and `DescriptivePaired` 2 let a cell have too few
  pairs, too few that differ, and enough of both. One fault of Waymax, a shard or the
  accepted run; an interrupt at any step. 560,917 states.
* `TerminalCapture`: the pipe holds 2 bytes, a read takes 2, the transcript
  retains 2, and at most `MaxWritten` = 4 bytes are written: enough to fill the
  pipe while the transcript is full, to exceed the retention within one chunk and
  across two, and to write on after that. One thread and one child; a second
  one of either would only hold the pipe as the first does.
* `MCM5Create`, `MCM6Reservation`: three processes, with symmetry (no liveness
  property is checked there): two race for a run while a third arrives in the
  middle of a rollback, or of the record of a failure. The theorems about the
  reservation hold for any number.
* `MCM4Acceptance`: two shards of three records, quotas 2 and 1, target 3, floor
  2, nested subset 2 with floor 1. Four versions of a shard make none, one, two or
  all of its records eligible, so each shard can be short, exact or have to spare;
  the target is met, missed or out of reach. `MaxDrift` 1: one change of a file or
  of the checkout at any moment of the five passes; `MaxOutput` 1: one line from
  the worker or the runtime.
* `MCM6Campaign`: five members in two shards, one of them out of cohort order, cap
  3, selection of at least 2, floor of 3 eligible scenes: more qualified scenes
  than the cap, exactly as many, and too few. `MaxDrift` 2: one change and the
  change back, which is the case that fools a comparison of contents. A phase
  takes 1 or 7 ticks, 7 of which are a millisecond: the two ends of a rounding, of
  which the first adds up to more than the enclosing duration. 341,262 states.
* `MCM6Evaluation`: two cases, an ego and two agents, six frames, current frame 1,
  window 3, pulse 1, doses 1 and 2. The 60 pairs of scenarios have gaps, births,
  a speed above the limit, a slow ego, an ego that leaves after the window. Two
  changes by the caller: one that is undone, and one of each case. With the
  thresholds 1, 1 and 2 there are cells that are sparse, small, descriptive,
  positive and negative, and an answer in the last transition. 33,741 states.
* `MCM6Waymax`: four transitions and four slots, persistence 2, five scenes in
  three cohorts: one with a scene too many, one with just enough, one with none,
  where both runs contend. Four quirks, one fault, late writes into one of the last
  two buffers. 50,135 states.
* `MCM6Evidence`: four scenes and six evaluations, each of which differs from the
  reference in its own way (other bytes, unsteady, a gate violated, too few
  eligible scenes, too few for a claim); the caller has the reference and one other
  at hand. Two gates, one that looks at a scene and one that only warns; two
  reviewers' roles; a selection of 2 to 3 scenes, so the cap bites, and 3 eligible
  ones for a claim. 618,329 states.
* `MCM6Review`: one run command and two finalizers, with symmetry: one can win
  while the other loses at any of its exclusive creates. A third would lose as the
  second does. One power cut, after which a finalizer that has not begun may still
  begin. Both modes (with and without review) and every combination of review
  outcomes. 1,298,062 states.

### Fairness

* `M5Run` has weak fairness of `RunCommand` and `M4Acceptance` of `Command`: one
  sequential program whose steps wait for nobody, or with a limit. The M4 command's
  polls and joins have timeouts; the only wait without one is the join after
  SIGKILL, which the kernel ends. Crash, interference, an interrupt of the M5 failure
  path, the worker and its output are not fair: the worker may hang for ever.
* `TerminalCapture` has weak fairness of `CaptureTerminal` (both joins have a
  timeout, so the main thread is never blocked by another actor; the callback is
  assumed to return) and of `Drain` (a daemon thread that the scheduler runs; an
  error of its own, `DrainGivesUp` before it is told to stop, is not fair). The
  other writers are not fair: a child may keep the pipe open for ever, which is
  the case `CaptureEnds` is about.
* The other modules state none: callers may stop at any time, and only safety is
  claimed.

### What the runs show

All properties hold, apart from one place where code and documentation disagree:

* `UnchangedRunFinalizes` is violated. `_reverify_awaiting_review_precursor` is to
  "rebind the sealed precursor to fresh provenance and predecessors"
  (`cli/m6_official.py:5789`) and compares the stored eligibility rows of the three
  runs one by one (line 5836). A run of mode `eligibility_only` has to store null as
  `secondary_b4_feasible`, a pilot and an official run a Boolean for every eligible
  scene. So the review of every unchanged official run is refused, after the command
  has adopted the run, and the run gets TERMINAL_FAILURE.

Observations that have no run of their own:

* **Review race.** The bootstrap calls the invalidator for every exit code but 0
  (`cli/m6_bootstrap.py:1048`), so a finalize-review command that fails because
  another one won puts TERMINAL_FAILURE beside the other's TERMINAL_SUCCESS
  (`results/m6.py:4155`). In the design (`docs/plans`, the M6 plan, lines 1072 to
  1078) the success marker is a last state. The error is on the safe side: the run
  verifies no longer, and the work is lost. `OneFinalizer` shows that it is never a
  mixture. This is what `contended` in `ExitZeroMeansAccepted` excepts.
* **Rollback race.** `_rollback_fresh_result_store` works by path: after its own
  `rmdir` it looks whether the path exists (`results/m5.py:4100`) and, if so,
  records a failure there. Another process's fresh run can get it. `OneStore` still
  holds; the other's store is poisoned, never shared.
* **Failed creation view.** After a failed creation the M6 command adds
  `failure-diagnostic.log` beside a TERMINAL_FAILURE that an earlier run may have
  left (`cli/m6_official.py:6094`). Markers stay the maker's (`OnlyMakerMarks`).
* **Eligible for one, not for the other.** The legacy run wants the ego valid until
  the end of the source (`rollout/engine.py:130`), eligibility only through the
  window (`perturb/m6.py:301`). An eligible source whose ego leaves in between
  aborts the evaluation: the exception in `GatesRefuseNoHonestRun`.
* **Accepted, but not measurable.** M4 accepts a scene whose agents are never there
  for three frames on end; the zero oracle then has no value for an error metric and
  the whole M5 run fails (`evaluation/m5.py:1550`): the exception in
  `HonestCohortIsEvaluated`.
* **Late changes.** What a caller changes during the last comparison of
  `evaluation/m6.py` is not noticed if its case was compared already (`late`).
* **Timeliness at the end.** An answer in the last transition leaves a timeliness of
  0, as no answer does; the event count and the count of responders differ then
  (`CellsCountTheRows`).
* **Unreachable.** The acceleration clamp never acts under the registered policies,
  because they clip before. Every disagreement of the Waymax passes raises before
  evidence exists, so the rows with status "failed" that the store provides for are
  never written. A pilot that failed is committed, but cannot be marked a success
  (`TerminalGate`).
* **A lock of half a check.** The revalidation of the Waymax authority reads the set
  of consumed capabilities under the lock and compares `_consumed` outside it. Only
  which error the loser gets depends on it (`OneRun`).

Limits of the guarantees that are part of the properties and came out of the runs:

* `CommitSound` and the M5 `ExitZeroMeansAccepted` except a power cut after a
  reconciled marker write: the marker's bytes were read back, but its fsync had
  failed.
* `FailureIsRecorded` excepts an interrupt in three places of `cli/m5_official.py`. After
  `create` returned and before `holder.store` is assigned (lines 1339-1349), nobody has
  the store. After `prepare_finalization` returned and before `holder.prepared` is
  assigned (line 1282), the store is finalizing, `fail` refuses it, and nobody holds the
  capability `abort` needs. And in `_persist_failure` before it has failed the store
  (lines 1455-1474), `except Exception` does not swallow the interrupt: it leaves
  `run_official`, and `main` (line 1656) exits with 1 and says `rejected`. In each case the
  run is not accepted, but has no failure record. An interrupt once the store has been
  failed changes only what the status line says.
* `FailureLeavesRecord` excepts an interrupt in one of the two gaps where an M6
  command has made a run and has no handle of it yet (`orphaned`).
* A status line that cannot be delivered gives exit code 1 for a run that is
  accepted; the converse, exit 0 for a run that is not, cannot happen.
* M6 `ExitZeroMeansAccepted` and `ClosedRunStands` also except `MarkerLost`: the run
  command died after writing AWAITING_REVIEW and before its fsync; adoption reads
  the marker but does not sync it, so a power cut can take it out of a finished
  run.

## 4. Proofs

Each module states its inductive invariant as a conjunction of named parts, one
lemma per kind of step, and at its end the theorems; a theorem holds for every value
of the constants that the named assumption of the module allows. TLC checks the same
properties, and checked each inductive invariant on the run's instance before it was
proved.

### M5Proofs

**The store.** For every finite key set, every set of part files with every numbering,
and every expected row matrix (`StoreAssumption`: keys are finite, part names differ from
the fixed file names, part numbers are naturals, expected rows are keys):

| Theorem | Says |
|---|---|
| `TypeCorrect` | `TypeOK`, including that the two accounts of rows agree |
| `SealIsInvariant` | `SealInvariant`, the inductive invariant |
| `CommitIsSound` | `CommitSound` |
| `FailureStays` | `FailureIsPermanent` (an action property) |
| `ParityFirst` | `ParityPrecedesMetrics` |
| `AcceptedRunsAreComplete` | `AcceptedIsComplete` |
| `StoreImplementsVerdict` | the refinement `ImplementsRunVerdict` |

*The argument for `CommitSound`.* It is not inductive: it says nothing about a
run that is not yet committed, so nothing would stop the step that creates
SUCCESS from creating it over a wrong run. `SealInvariant` adds what the code
has established on the way there.
`RegisteredIsKept`: what is registered is durable.
`FlagsAgree`: how the terminal bits and the progress of a call go together; in
particular the byte seal is followed by SUCCESS only while the store has not
failed and the caller's capability is live.
`ManifestIsFinal`: once `prepare_finalization` has begun, the artifacts and rows
are complete and no longer change, and the manifest lists exactly them.
`CommittedIsKept`: only a reconciled fsync error makes COMMITTED less than
durable.
`SealStays`: from the byte seal on the run holds exactly the sealed files with
exactly their bytes, whatever crashes or power cuts follow.
`SuccessNeedsSeal`: the exact SUCCESS marker has one author.
Each is needed by the others; together they are preserved by every action, and
with SUCCESS on disk they give `Accepted` (`SealGivesAcceptance`).

`FailureStays` rests on `OneAuthor` (only `WriteSuccess` and a crash inside it
create the exact SUCCESS) and `SealSawNoFailure` (the seal, which demands exact
membership, has seen that there is no failure record). `ParityFirst` uses
`MisorderedIsStuck` (once metric rows preceded the receipt, the receipt can no
longer be published, so preflight refuses); `AcceptedRunsAreComplete` uses
`KeysAreExpected` (no row outside the expected matrix is counted) with `TypeOK`:
as many distinct keys as expected, all of them expected, are all of them.

*The argument for the refinement.* A program step may take the verdict from open to
accepted or to closed and never anywhere else; a crash may only close; harm may take
an acceptance back and must not create one. The last two need more than the seal:
`OwnSuccess` (whoever wrote an exact SUCCESS and lives, knows it, so *open* and
*accepted* exclude each other) and `StraysStay` (a file that does not belong to a
sealed run is durable, so no power cut removes it and turns a refused run into an
accepted one).

**The command with its evaluation.** For every cohort, every assignment of members to parts, every metric and slice
(`StoreAssumption`, `OfficialAssumption`: a part has rows of the expected matrix,
`CohortAssumption`: the accepted M4 run has accepted its members, which are scenes of
the source; `ShardAssumption`: it accepts a member once and has one of every shard, what
`sources/m5_m4_reuse.py:559` refuses otherwise):

| Theorem | Says |
|---|---|
| `ExitZeroIsAccepted` | `ExitZeroMeansAccepted` |
| `EveryFailureIsRecorded` | `FailureIsRecorded` |
| `FaultsAreWitnessed` | `EvaluationIsWitnessed` |
| `CellsArePaired` | `EveryCellIsPaired` |
| `HonestCohortSafety` | `HonestCohortIsEvaluated` |

The first step is `RunImplementsStore`: every step of the command with its evaluation
is a step of `M5Store` or leaves the store alone, so all theorems about the store
hold of this caller. `CommandInv` then says what the command knows of it: which call
is under way at which step (`Progress`), that the callback goes on only while nothing
failed, who has the store and who is left to give up a finalization that was begun
(`Holding`), that success
is reported only after the commit returned (`Reporting`), and that without harm from
outside the files say no more than the writer knows (`Recording`). With `CommitSound`
this gives the first theorem, alone the second.
`EvaluationIsWitnessed` needs that a fault stays visible until something looks:
`FaultIsVisible` (a changed record differs from the accepted one until the visit has
compared all, a wrong Waymax answer fails at once, a changed accepted run stays
changed) and `FaultIsCaught` (past the visit only the accepted run can be at fault,
past the last check nothing).
`EveryCellIsPaired` needs `MembersAreAccepted` (what was added under an index is what
the accepted scene of that index gives) and `CellsAreOfMembers`; that a cell pairs the
members the sources make eligible follows from what the evaluation of a case checks of
its own results (`EvaluableIsPaired`).

`HonestCohortIsEvaluated` is about two accounts of one scene. A rollout has the lifecycle
of its log, and log replay is the log (`RolloutIs`, by induction over the frames with
`NextFrameIs`; `RolloutFollows` shows first that the recursion over frames has a
solution). So where a metric has a component is a fact of the source, the same for every
policy (`MeasuredByParts`, `ResultIs`), and it is what eligibility asks for
(`EligibleHaveParts`); a distribution of zeros sums up to zero (`NothingAddsUp`, by
induction over its components), so log replay has no error (`ReplayHasNoError`).
Therefore a scene that some agent stays in for three frames on end is evaluable
(`JudgedIsEvaluable`).
The visit adds its order: each member is added, under evaluation, read or still to be
read, and only one of these (`EachInItsPlace`); what is read is what was accepted
(`AsAccepted`); results, slices and comparisons are kept of the members that were added
(`KeptSoFar`). So a visit without a fault has every member when it closes, and both
totals that it compares are right. `HonestInv` is the conjunction, with the fact that a
changed accepted run is a fault.

**Creation.** For any set of processes:

| Theorem | Says |
|---|---|
| `StoreSafety` | `OneStore` |
| `LeftoverSafety` | `LeftoverIsMarked` |

`Owned`: only the process that made the present directory is at a step that uses or
removes it, and while the directory is there that process is past `mkdir`. So a
rollback removes only its own. `Closed`: no directory is there without its parent, so
the last `rmdir` of a rollback finds what it expects or fails.

### M6ReservationProofs

For any set of processes (`ReservationAssumption`: none of them is called as the
two names the model uses for the earlier run and for nobody):

| Theorem | Says |
|---|---|
| `TypeSafety` | `TypeOK` |
| `HolderSafety` | `OneHolder` |
| `MarkerSafety` | `OnlyMakerMarks` |
| `ExitZeroSafety` | `ExitZeroOwnsRun` |
| `FailureSafety` | `FailureLeavesRecord` |

`OneWrite` says what one exclusive write can do, raised or not: it changes one file
at most, from absent, and what it leaves is the writer's. Everything rests on it and
on `mkdir` being exclusive. `Ownership` adds to `OneHolder` and `OnlyMakerMarks` that
a command past `mkdir` is in a run of its own and beyond that has a handle of it, so a
marker it writes is in its own run. `Success` follows a run nothing has gone wrong
with: no failure record, the reservation consumed, a store that saw no stranger.
`Closing` is about the others: a command that has made a run either has a handle that
can still write the record and an invalidator that will ask for it, or the record is
there, or one of the two excuses holds (`RecordsStay`: a record never goes away).

### M6CampaignProofs

**The campaign.** For any cohort, shards, caps, number of runs and number of changes of the world
(`CampaignAssumption`: members are finitely many naturals, each in a shard; modes,
ranks and facts have their types; caps, and ticks of a clock, are positive):

| Theorem | Says |
|---|---|
| `SealedSafety` | `SealedIsAccepted` |
| `ChainSafety` | `OutcomesHaveChain` |
| `ResidentSafety` | `ResidentsAreBest` |
| `TimingSafety` | `GenuineTimingsAccepted` |

`SealedIsAccepted` needs to know what has been read before the seal. `ReadSoFar`: the
records of finished shards are those of the accepted content. `OpenShardIsAccepted`:
for the open shard the same holds as long as the file is the one that was hashed,
which is what `CheckFile` asks for; a file that was replaced and put back has
another identity. `ChainInv` carries what the gate found (`Link`: both predecessors
ended, with the same provenance and the same receipt) through every change of the
world, because a run that has ended no longer moves (`DoneStays`), and `Agreed` from
the preregistration on.

`ResidentsAreBest` is about the collector after every record, so no induction over a
sequence is needed: `Keeps` says that the residents are within the cap, all there are
or exactly as many as the cap, and before everything that was thrown away. One record
keeps it (`CollectKeeps`); that a set of scenes has a last one comes from the finiteness
of the cohort (`LastExists`); and `KeepsTheBest` turns `Keeps` into the count of scenes
that are before.

`GenuineTimingsAccepted` rests on `Rounded`: in every span the whole milliseconds
exceed the true length by less than one per part. `Punctual` counts the parts that a
pilot has had at each stage, so the span of n NumPy scenes and w Waymax scenes has n +
w + 3 parts, and `RoundedIsBounded` gives the overage of n + w + 2 that the code
allows for. With one less the run finds a refused honest pilot.

**Capture.** For every capacity of the pipe, size of a read and of the transcript
(`CaptureAssumption`: they are positive):

| Theorem | Says |
|---|---|
| `CommitSafety` | `CommitWasSilent` |
| `TerminalSafety` | `TerminalIsGuarded` |

`Conserved` counts bytes: written is what is in the pipe, what was retained and what
was dropped, and nothing is dropped before something is retained. `Sealed` is the
heart: a drain thread that ended without a failure saw the pipe empty and held by
nobody, and nobody can take hold of it again. So at the commit an empty transcript
means that nothing was written, and that nothing will be (`Settled`, `Silent`).
`Guarded` follows descriptors 1 and 2 through every failing call, and `OnTrack` says
what each step has achieved when no call failed.

### M6EvaluationProofs

For any cases with any logs, any changes of the caller, any agents, horizon, window,
doses, limits and thresholds:

| Theorem | Says |
|---|---|
| `TypesAndRunsHold` | `EvaluationInv`, the inductive invariant |
| `GatesRefuseNoHonestRunTheorem` | `GatesRefuseNoHonestRun` |
| `SegmentsStartFromTheLogTheorem` | `SegmentsStartFromTheLog` |
| `RowsSafety` | `RowsAreOfTheCaller` |
| `TablesSafety` | `TablesAgree` |

The assumptions are those of the modules: scenarios are logs over a finite world
(`ScenarioAssumption`), the window fits the log (`HorizonAssumption`,
`WindowAssumption`), the secondary dose is at least the primary one, as in
`evalsim/perturb/m6.py:34-35`, limits are positive and lengths and target speeds are naturals
(`LimitsAssumption`), thresholds count something (`SampleAssumption`).

*The invariant.* Nothing about rows or gates is inductive, because a gate compares whole
rollouts that were made many steps ago from a scenario the caller may have changed since.
`EvaluationInv` says what each of them is: a run under way or kept is exactly what the
engine makes of the snapshot, frame by frame (`Executed`, in `RunsHold`); the prepared
runs are the rest of the order (`TodoHolds`); snapshots, plans and rows belong to the
cases that have been reached (`CopiesHold`, `PlansHold`, `RowsHold`, `MatrixHolds`).

*The gates.* Two runs of one source agree as far as their plans do
(an induction over frames). So the sham run is the run without a plan up to the end of
the window, and the world of a braked run first differs two frames after the current
one; log replay and constant velocity never look at the ego, so the world they make is
the same in both. Each gate is one of these facts. What is left as an excuse in the
statement is what the code really refuses: a case the caller changed, and an eligible one
whose ego leaves before the end of the log.

*The rows.* `ComparedHold` says what the last comparison has established of the cases it
has passed. A case the caller changes after it was passed is in `late`, and
`RowsAreOfTheCaller` claims nothing of it.

*The tables.* `IssuedHold`: tables are derived from a result that no longer changes. That
they agree follows from what the rows are made of: a response in time needs an impulse of its
own size; a braking ego is nowhere ahead of where it was without braking
(`PlanBehind`), so under a policy that does not answer the gap can only shrink; and a cell
of the matrix counts the rows of its policy and measure, each once (`TableAddsUp`).

*Sums and induction.* The library's induction theorems cannot be used, but the
well-founded facts they rest on can where the induction is over a set:
`UpFromZero` and `UpThrough` go up the naturals for a subset of them, `UpFromEmpty`
up the finite sets. `SumExists` and `SumIs` give a sum over a finite family by its
recursive equation (`Additive`), and `SumRenamed`, `SumOfPart` and `SumGrows` are the
three things a table does with one. For this the models sum with `SumFunction`, order a
set with `Ascending` and write functions out, where folds, sorts and `@@` have
definitions the prover cannot use.

*What an attempt showed.* `SegmentsStartFromTheLog` once bounded the change of speed of
a simulated agent by the limits alone. That is false for a log that is above the limit:
the code clips to the limit first (`evalsim/rollout/dynamics.py:164`), so the drop can exceed the
greatest deceleration. The property now compares with the clipped speed.

### M6WaymaxProofs

For any number of agents, transitions and scenes, any logs, pulses and cohorts, and any
number of misdeeds (`WaymaxAssumption`: there are at least one transition, one transition
of persistence and one scene to select; a plan starts at the logged ego, and both are
valid throughout, as `WaymaxEgoPlanView` demands; cohorts are of the given scenes;
somebody holds each authority):

| Theorem | Says |
|---|---|
| `OneRunSafety` | `OneRun` |
| `HonestRunSafety` | `HonestRunIsIssued` |
| `EvidenceSafety` | `EvidenceIsWitnessed` |

*The authority.* This part is about any set of runs. `MarksAgree`: the lock is held
exactly between the two marks of a claim, the consumed
capability and the flag, so whoever finds them apart has overlapped with a claim.
`SeenIsPast`: what a revalidation has read is never ahead of the marks, and the holder's
own later one finds both. `OneClaims` makes the run past the claim unique, and with
`RefusedAfter` a refusal always has another run behind it.

*What is executed.* Here a run is official or a pilot (`KindsAssumption`). `KernelIs` turns
the recursive function of a kernel into its frames; from that an honest output passes the
check of an output (`HonestIsCompact`: nobody moves but whom the masks say, and who
comes and goes does so with the log), two of them that of a pair (`HonestIsPaired`), and
their measures show no response where there can be none (`NoResponse`). The calls of a run
are the scenes in order, each with its cells and passes (`CallsOfRun`): no call comes
twice, and what a comparison needs has come before it (`PassesCalled`, `PairsCalled`).

`ExecutionInv` is the inductive invariant. Before a run opens the executors there is
nothing (`Untouched`), and by `OneClaims` only one opens them. While it executes, `Shape`
says how the calls that are done, the buffers, the copies and the list of earlier buffers
fit together, and in which of three states the last buffer is; `Compared` which
comparisons are past. `Truth` is what the two theorems need beyond that: without a
misdeed everything is honest, so no check has a reason to refuse; and after one misdeed at
most one call shows anything, and even there either the output that was computed is
honest, or buffer and copy tell what was computed. When a table is made all passes of a
cell agree, so the odd call agrees with an honest one.

`EvidenceIsWitnessed` is about at most one misdeed beyond the quirk, whatever the bound
`MaxFaults` allows: if both passes of a cell are altered alike, that looks like a quirk, and no
comparison of passes can tell.

### M6EvidenceProofs

For any population, any evaluations and gates, any caller and any cap and floor
(`EvidenceAssumption`: rows are of the scenes an evaluation has, ranks differ, a
selection needs at least one scene):

| Theorem | Says |
|---|---|
| `SealedSafety` | `SealedIsOneEvaluation` |
| `ReleaseSafety` | `ReleaseIsEarned` |
| `DecisionSafety` | `ReviewsDecide` |

Before the request nothing says that the tables belong together, but for those that
come from one Waymax bundle (`OneBundle`). `Verified` is what the mechanical
verification has found when the request is there, said without the bundle it was found
with, because a finalizer has only the files. `FindingsStay`: none of it depends on an
artifact that is written later, so every later writer keeps it. `Stages` bounds what a
run under review can hold, which is why a finalizer's verification finds nothing new
and only the reviewers decide. The proof needs a selection of at least one scene: with
none a selection could be stored that no bundle supports.

### M6ReviewProofs

For any set of finalize-review commands (`ReviewAssumption`: the run command is not
one of them):

| Theorem | Says |
|---|---|
| `FinalizerSafety` | `OneFinalizer` |
| `ExitZeroSafety` | `ExitZeroMeansAccepted` |
| `ClosedRunSafety` | `ClosedRunStands` |

`OwnWork`: a command that gets on has written the files of the steps behind it, and
they are its own, because each was created exclusively. `MarkedByOne` is this for the
last of them, the success marker. The other two theorems need that a command was alone:
`InOneHand` (a run that was never contended is in the hand of one live command, and
nobody takes up a run that is finished) and `OnlyOwnWork` (the directory then holds what
that command has written and nothing else, up to an AWAITING_REVIEW that was never
synced). `Closing` is the failure record of each command that fails, and
`RejectedForGood` says that whoever still holds a rejected run has nothing left to do
to it but look.

### M4AcceptanceProofs

For any number of shards, any records, contents, quotas, targets, rankings and number
of changes of the world (`M4Assumption`: rankings tell all records apart, the quotas
add up to the target):

| Theorem | Says |
|---|---|
| `ReportSafety` | `ReportIsEarned` |
| `CohortSafety` | `CohortIsExact` |

`OpenShardIsHashed` is why a report rests on one version of every shard: what was read
of the open shard is of the content that was hashed, as long as the file is the one that
was opened. With it `EventsAreTrue` (what a scan records is what the digest's content
makes of the record) and `VisitsAreDue` (how far each of the three visits has come, and
that it saw the content of the manifest) are kept by the step that closes a shard.
`EndIsEarned` is about the other end: an aggregate is pending only over a worker that
answered and is gone, so nobody can add to the transcript after it was measured.

`CohortIsExact` is a fact of `Selection` for every set of eligible records
(`SelectionIsExact`). `FirstSize` counts the first n of a ranked set: the number of
records before each one is an injection into the numbers below the size of the set, so
all these numbers occur. `SumAddsUp` makes the library's sum over a function usable:
that a function with its recursive equation exists is shown by one, the size of a heap of
as many pairs, and then `SubsetInduction` (over the well-founded order of subsets) gives
`QuotasAddUp`: what the shards give first and what they lack are together the target.
So the redistribution fills the cohort exactly, and where it gives a shard more than its
quota there is something missing elsewhere.

### Model-checked only

Every safety invariant and action property that a passing run checks has a theorem. What
is left:

* `CommandEnds` of M4 and M5 and `CaptureEnds`: liveness under fairness, outside the
  reach of the prover.
* `UnchangedRunFinalizes` is false (see the findings).

## 5. What the models leave out

In the stores and commands:

* Row contents of the M5 store: schemas, key domains and the derivation of scorecards
  and parity summaries are abstracted to the set of row keys a part contributes. A
  caller only ever hands in keys of the expected matrix; anything else raises in the
  code before a row counts, which is the failing branch of the same action.
* Provenance checks and checks of source files outside the run may fail at any
  time; that is the failing branch of each check.
* Outside interference writes other bytes. Removing a file and restoring the
  intended bytes are not modelled.
* The optional `failure-details.log` and the preflight of the M5 command before a
  store exists; neither touches the run's verdict.
* An interrupt inside `_write_dataset` of M5 between the registration of a part and the
  update of its keys (the store is poisoned then anyway).
* The callback is assumed to return.
* In `M6Review` the artifacts written before the review are one file (their order is
  the subject of `M6Evidence`), and the data-free mode is never promoted.
* In `M6Campaign` what a record is found to be (`Facts`) is given for each version of
  code and content; in `M4Acceptance` likewise which records are eligible.
* In `M6Campaign` the time between two phases of a pilot is left out; it would only
  make the enclosing span longer.
* `M6Evidence` gives each table the evaluation it comes from and what the verifier
  derives again, not its rows.

In the evaluations:

* One straight lane: positions and speeds along it, no headings, no yaw rate clamps.
  Whether a scene has a lane or a turn is a fact of the scene.
* Integers: a position is in halves of a unit, so the trapezoidal step is exact; IDM
  is rounded to whole units, its shape (free road, desired gap, leader) kept.
* The bootstrap: resampling and confidence bands. A band is taken at its widest, the
  hull of the effects, so a sign is given where every value has it.
* Plans that brake along a curve; the comparison table between NumPy and Waymax rows
  beyond whose rows they are; digests of native state; the second NumPy pass, which
  is the same function of the same input.
* In `M6Waymax` IDM is coarse (a vehicle slows down behind a near or a slower one),
  outputs are compared for equality, and late writes reach the last `Reach` buffers.

### Not modelled

* Formatting and plotting: `report/`, `viz.py`. No state, no property but layout.
* The stress suite and synthetic scenario sources: pure generators of scenarios over
  real numbers, with no state between calls.
* Scenario recordings and manifests (`sources/`): parsing of files into immutable
  values; what a reader of them sees is an input of the models here.
* Synthetic M5 and M6 commands: they use the capture and the writers that are
  modelled, but the visit of the synthetic cases is not.
* In the M5 store the scan of a finished run that derives every scorecard again from
  its rows (`results/m5.py`, `_scan_official_artifacts` and what it calls).
* In `evaluation/m6_waymax_metrics.py` the comparison of fields and the tables made
  of them, beyond the scalars.
* TFRecord decoding and the JAX simulator behind the Waymax adapters: external.

## 6. Plan

1. Done: the M5 store and its command, creation and capture; the M5 evaluation; M4;
   M6 reservation, campaign, evaluation, Waymax, evidence and review. Theorems about
   the M5 store with its refinement, the M5 command with its evaluation, creation,
   capture, the M4 command with its cohort, reservation, campaign, the M6 evaluation
   with its gates and tables, the Waymax authority with its execution, evidence and review.
2. Modelling: the scan of a finished M5 run; the field comparisons of the Waymax
   metrics; the synthetic commands and `evaluation/m6_synthetic.py`; the rest of
   `contracts/counterfactual.py` and of `simulators/waymax_reference.py`.
