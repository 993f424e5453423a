------------------------------ MODULE M6Campaign ------------------------------
(***************************************************************************)
(* The three M6 runs that build on each other: eligibility_only, then      *)
(* compute_pilot, then official, and the review of the official run        *)
(* (evalsim/cli/m6_official.py).  Each run visits the accepted M4 cohort   *)
(* shard by shard (evalsim/sources/m5_m4_reuse.py, waymax_loader.py),      *)
(* keeps the best qualified scenes (evalsim/evaluation/                    *)
(* m6_waymax_official.py), seals what it found before any outcome, and     *)
(* must agree with the runs it names.  Meanwhile the approved code, the    *)
(* accepted M4 run and the shard files may change under it.                *)
(*                                                                         *)
(* How one run directory is written is the subject of M6Review and         *)
(* M6Reservation; here a run is what it has sealed.                        *)
(***************************************************************************)
EXTENDS Naturals, FiniteSets, Sequences, SequencesExt

CONSTANTS
  Runs,       \* run names
  Mode,       \* the mode of each
  Named,      \* the predecessors that the command of each is given
  Members,    \* cohort indices, 0..127 in the code
  Shards,     \* the frozen shards, a sequence in the order of their suffixes
  ShardOf,    \* where each member is
  Codes, Contents,  \* versions of the approved source and of a shard file
  Facts,      \* what the source gates say of a member, by code and content
  Rank,       \* of a member, the order of m6_waymax_rank_sha256
  MaxScenes, MinScenes,  \* 16 and 8
  EligibleFloor,         \* 10
  TicksPerMs, Measured,  \* of a clock, and what it may have measured of a phase
  MaxDrift    \* a bound of the model

ASSUME CampaignAssumption ==
  /\ Mode \in [Runs -> {"eligibility_only", "compute_pilot", "official"}]
  /\ Named \in [Runs -> [eligibility : Runs, pilot : Runs]]
  /\ Members \subseteq Nat /\ IsFiniteSet(Members)
  /\ "unread" \notin Contents
  /\ Len(Shards) \in Nat /\ DOMAIN Shards = 1 .. Len(Shards)
  /\ ShardOf \in [Members -> DOMAIN Shards]
  /\ Rank \in [Members -> Nat]
  /\ MaxScenes \in Nat \ {0} /\ MinScenes \in Nat \ {0}
  /\ TicksPerMs \in Nat \ {0} /\ Measured \subseteq Nat \ {0}
  /\ Facts \in [Codes -> [Contents -> [Members ->
       [verdict : {"eligible", "no_target", "no_room"},
        qualified : BOOLEAN, feasible : BOOLEAN]]]]

VARIABLES
  code, manifest, shards, drifts,  \* the world: HEAD and its tag, the M4 run
  stage,      \* how far each run is
  local,      \* what its preflight observed, the provenance it seals
  closed,     \* how many shards its visit has finished
  opened,     \* the identity of the shard being read
  read,       \* the content each member was decoded from
  seen,       \* the members that reached the collectors
  residents,  \* the scenes the Waymax collector keeps
  sealed,     \* eligibility ledger and selection, once preregistered
  outcomes,   \* holder.outcome_started
  passed,     \* the verdict in the pilot summary
  timing      \* the durations a pilot has taken so far

world == <<code, manifest, shards, drifts>>
visit == <<closed, opened, read, seen, residents>>
vars  == <<world, stage, local, visit, sealed, outcomes, passed, timing>>

Unread  == "unread"
Nothing == << >>

-----------------------------------------------------------------------------
(* Source facts *)

\* What the gates of code c say of the members as they were read.
Verdicts(c, from) == [m \in Members |-> Facts[c][from[m]][m]]

\* m6_eligibility_rows: eligibility_only leaves the b=4 status open.
EligibilityRows(mode, facts) ==
  [m \in Members |->
     [verdict   |-> facts[m].verdict,
      secondary |-> IF mode = "eligibility_only" \/ facts[m].verdict # "eligible"
                    THEN "null"
                    ELSE IF facts[m].feasible THEN "yes" ELSE "no"]]

Eligible(rows)  == {m \in Members : rows[m].verdict = "eligible"}
Secondary(rows) == {m \in Members : rows[m].secondary = "yes"}
ReasonCount(rows, reason) == Cardinality({m \in Members : rows[m].verdict = reason})

\* Only primary-eligible members get a Waymax qualification.
Qualifies(fact)  == fact.verdict = "eligible" /\ fact.qualified
Qualified(facts) == {m \in Members : Qualifies(facts[m])}

Before(a, b) == Rank[a] < Rank[b] \/ (Rank[a] = Rank[b] /\ a < b)

\* _canonical_selection_members and select_m6_waymax_subset.
SelectSubset(facts) ==
  LET ranked == SetToSortSeq(Qualified(facts), Before)
      supported == Len(ranked) >= MinScenes
  IN [domain    |-> {m \in Members : facts[m].verdict = "eligible"},
      qualified |-> Qualified(facts),
      supported |-> supported,
      members   |-> IF ~supported THEN << >>
                    ELSE SubSeq(ranked, 1,
                                IF Len(ranked) < MaxScenes THEN Len(ranked)
                                                           ELSE MaxScenes)]

\* Faulty: whoever comes last has to go.
EvictFaulty(all, m) == all \ {m}

Evict(all, m) == all \ {CHOOSE w \in all : \A k \in all \ {w} : Before(k, w)}

\* M6WaymaxOfficialCollector.__call__ for member m: at most one native state more
\* than the cap, and then the worst one goes.
Collect(kept, m, fact) ==
  IF ~Qualifies(fact) THEN kept
  ELSE IF Cardinality(kept \union {m}) <= MaxScenes THEN kept \union {m}
  ELSE Evict(kept \union {m}, m)

-----------------------------------------------------------------------------
(* Control *)

Goto(r, next) == stage' = [stage EXCEPT ![r] = next]

Fails(r) == Goto(r, "failed")

Quiet == UNCHANGED world

\* preflight_repository and preflight_local_inputs: the approved code, the
\* accepted M4 run, and the identities of the shard files.
Observed ==
  [code |-> code, manifest |-> manifest,
   stamps |-> [i \in DOMAIN Shards |-> shards[i].stamp]]

Observations ==
  [code : Codes, manifest : [DOMAIN Shards -> Contents],
   stamps : [DOMAIN Shards -> Nat]]

\* Typed provenance, mode and context apart, has no shard identity.
SameProvenance(a, b) == a.code = b.code /\ a.manifest = b.manifest

-----------------------------------------------------------------------------
(* _build_m6_predecessor_gate *)

Eligibility(r) == Named[r].eligibility
Pilot(r)       == Named[r].pilot

Predecessors(r) ==
  CASE Mode[r] = "eligibility_only" -> {}
    [] Mode[r] = "compute_pilot"    -> {Eligibility(r)}
    [] Mode[r] = "official"         -> {Eligibility(r), Pilot(r)}

SameReceipt(a, b) ==
  /\ Eligible(a.rows) = Eligible(b.rows)
  /\ \A reason \in {"no_target", "no_room"} :
       ReasonCount(a.rows, reason) = ReasonCount(b.rows, reason)
  /\ a.selection = b.selection

\* verify_m6_result_store accepts the run.
EndedWell(p) == stage[p] = "success"

\* Faulty: the provenance of a predecessor is not compared.
GateOpensFaulty(r, here) ==
  /\ \A p \in Predecessors(r) : EndedWell(p)
  /\ Mode[r] # "eligibility_only" => Mode[Eligibility(r)] = "eligibility_only"
  /\ Mode[r] = "official" =>
       /\ Mode[Pilot(r)] = "compute_pilot" /\ passed[Pilot(r)]
       /\ SameReceipt(sealed[Pilot(r)], sealed[Eligibility(r)])

GateOpens(r, here) ==
  /\ \A p \in Predecessors(r) : EndedWell(p) /\ SameProvenance(local[p], here)
  /\ Mode[r] # "eligibility_only" => Mode[Eligibility(r)] = "eligibility_only"
  /\ Mode[r] = "official" =>
       /\ Mode[Pilot(r)] = "compute_pilot" /\ passed[Pilot(r)]
       /\ SameReceipt(sealed[Pilot(r)], sealed[Eligibility(r)])

\* prepare_m6_official_run up to the executor.
Prepare(r) ==
  /\ stage[r] = "new"
  /\ local' = [local EXCEPT ![r] = Observed]
  /\ IF GateOpens(r, Observed) THEN Goto(r, "shard") ELSE Fails(r)
  /\ Quiet /\ UNCHANGED <<visit, sealed, outcomes, passed, timing>>

\* The gate that preregister calls with the rows and the selection of this run.
GateAccepts(r, new) ==
  /\ Mode[r] # "eligibility_only" => SameReceipt(new, sealed[Eligibility(r)])
  /\ Mode[r] = "official" =>
       Secondary(new.rows) = Secondary(sealed[Pilot(r)].rows)

-----------------------------------------------------------------------------
(* visit_accepted_m4_cohort *)

Current(r) == closed[r] + 1

\* reload_m4_waymax_records: the digest of the shard, with the identity of the
\* file it was taken from.
OpenShard(r) ==
  /\ stage[r] = "shard" /\ closed[r] < Len(Shards)
  /\ IF shards[Current(r)].content = local[r].manifest[Current(r)]
     THEN /\ opened' = [opened EXCEPT ![r] = shards[Current(r)].stamp]
          /\ Goto(r, "decode")
     ELSE Fails(r) /\ UNCHANGED opened
  /\ Quiet
  /\ UNCHANGED <<local, closed, read, seen, residents, sealed, outcomes, passed, timing>>

Pending(r) == {m \in Members : ShardOf[m] = Current(r) /\ read[r][m] = Unread}

\* The next record is decoded from whatever the file holds by now.
DecodeRecord(r) ==
  /\ stage[r] = "decode"
  /\ \E m \in Pending(r) :
       /\ \A k \in Pending(r) : m <= k
       /\ read' = [read EXCEPT ![r][m] = shards[Current(r)].content]
  /\ Quiet
  /\ UNCHANGED <<stage, local, closed, opened, seen, residents, sealed, outcomes,
                 passed, timing>>

FactOf(r, m) == Facts[local[r].code][read[r][m]][m]

\* Faulty: the file is not looked at again after it was read.
FileIsSameFaulty(r) == TRUE

\* _assert_file_identity.
FileIsSame(r) == shards[Current(r)].stamp = opened[r]

\* The records of a shard are handed on only when the file is still the one that
\* was hashed.
CheckFile(r) ==
  /\ stage[r] = "decode" /\ Pending(r) = {}
  /\ IF FileIsSame(r) THEN Goto(r, "deliver") ELSE Fails(r)
  /\ opened' = [opened EXCEPT ![r] = 0]
  /\ Quiet
  /\ UNCHANGED <<local, closed, read, seen, residents, sealed, outcomes, passed, timing>>

Undelivered(r) == {m \in Members : ShardOf[m] = Current(r)} \ seen[r]

\* _visit_reloaded_member: the next record, in cohort order, reaches the collectors.
Deliver(r) ==
  /\ stage[r] = "deliver"
  /\ \E m \in Undelivered(r) :
       /\ \A k \in Undelivered(r) : m <= k
       /\ residents' = [residents EXCEPT ![r] = Collect(@, m, FactOf(r, m))]
       /\ seen' = [seen EXCEPT ![r] = @ \union {m}]
  /\ Quiet
  /\ UNCHANGED <<stage, local, closed, opened, read, sealed, outcomes, passed, timing>>

CloseShard(r) ==
  /\ stage[r] = "deliver" /\ Undelivered(r) = {}
  /\ closed' = [closed EXCEPT ![r] = @ + 1]
  /\ Goto(r, "shard")
  /\ Quiet
  /\ UNCHANGED <<local, opened, read, seen, residents, sealed, outcomes, passed, timing>>

\* _verify_shards_unchanged and reverify_accepted_m4_run.
SourceUnchanged(r) ==
  /\ \A i \in DOMAIN Shards : shards[i].content = local[r].manifest[i]
  /\ manifest = local[r].manifest

-----------------------------------------------------------------------------
(* Preregistration and outcomes *)

Collected(r) == Verdicts(local[r].code, read[r])

\* M6WaymaxOfficialCollector.finalize: the residents are the selection.
ResidentsAreSelection(r, selection) ==
  selection.supported => residents[r] = ToSet(selection.members)

\* The pilot asks for ten eligible scenes and needs eight to run on.
FloorIsMet(r) ==
  Mode[r] = "compute_pilot" =>
    Cardinality(Eligible(Collected(r))) >= EligibleFloor

\* The end of the visit, the floor, the gate, and the two receipts.
Preregister(r) ==
  LET new == [rows      |-> EligibilityRows(Mode[r], Collected(r)),
              selection |-> SelectSubset(Collected(r))]
  IN /\ stage[r] = "shard" /\ closed[r] = Len(Shards)
     /\ IF seen[r] = Members /\ SourceUnchanged(r)
           /\ ResidentsAreSelection(r, new.selection)
           /\ FloorIsMet(r) /\ GateAccepts(r, new)
        THEN /\ sealed' = [sealed EXCEPT ![r] = new]
             /\ Goto(r, IF Mode[r] = "eligibility_only" THEN "artifacts" ELSE "begin")
        ELSE Fails(r) /\ UNCHANGED sealed
     /\ read' = [read EXCEPT ![r] = [m \in Members |-> Unread]]
     /\ seen' = [seen EXCEPT ![r] = {}]
     /\ residents' = [residents EXCEPT ![r] = {}]
     /\ Quiet /\ UNCHANGED <<local, closed, opened, outcomes, passed, timing>>

BeginOutcomes(r) ==
  /\ stage[r] = "begin"
  /\ outcomes' = [outcomes EXCEPT ![r] = TRUE]
  /\ Goto(r, "execute")
  /\ Quiet /\ UNCHANGED <<local, visit, sealed, passed, timing>>

-----------------------------------------------------------------------------
(* The pilot and its timings *)

\* _positive_elapsed_ms: a duration in whole milliseconds, rounded up.
ElapsedMs(ticks) == (ticks + TicksPerMs - 1) \div TicksPerMs

\* A span of time that is measured in parts: how many, the sum of their whole
\* milliseconds, and its true length. Time between two parts would only make the
\* span longer, and is left out.
NoTime == [parts |-> 0, ms |-> 0, ticks |-> 0]

Timed(span, ticks) ==
  [parts |-> span.parts + 1,
   ms    |-> span.ms + ElapsedMs(ticks),
   ticks |-> span.ticks + ticks]

Untimed == [wall |-> NoTime, numpy |-> NoTime, waymax |-> NoTime]

\* Faulty: one rounding less is allowed for.
OverageFaulty(n, w) == n + w + 1

\* _m6_compute_pilot_rounding_overage_ms.
Overage(n, w) == n + w + 2

\* The comparisons of run_m6_compute_pilot_execution and of
\* write_compute_pilot_summary, for n scenes through NumPy and w through Waymax.
TimingsAgree(d, n, w) ==
  /\ d.numpy.ms <= ElapsedMs(d.numpy.ticks) + n - 1
  /\ d.waymax.ms <= ElapsedMs(d.waymax.ticks) + w
  /\ d.wall.ms <= ElapsedMs(d.wall.ticks) + Overage(n, w)

\* A pilot always runs MinScenes scenes through NumPy, with their plans, under each
\* policy, and as many through Waymax if the selection is supported.
WaymaxScenes(r) == IF sealed[r].selection.supported THEN MinScenes ELSE 0

\* One phase of the pilot on the clock, and the spans that it belongs to.
Phase(r, at, due, spans, next) ==
  /\ stage[r] = at /\ due
  /\ \E t \in Measured :
       timing' = [timing EXCEPT ![r] =
                    [s \in DOMAIN @ |-> IF s \in spans THEN Timed(@[s], t) ELSE @[s]]]
  /\ Goto(r, next)
  /\ Quiet /\ UNCHANGED <<local, visit, sealed, outcomes, passed>>

\* The phases of the pilot: from its inputs to the sealed receipts, the scenes
\* through NumPy, the validation of the Waymax authority and its scenes.
PilotPhase(r) ==
  LET numpy  == timing[r].numpy.parts
      waymax == timing[r].waymax.parts
  IN \/ Phase(r, "execute", Mode[r] = "compute_pilot", {"wall"}, "numpy")
     \/ Phase(r, "numpy", numpy < MinScenes, {"wall", "numpy"}, "numpy")
     \/ Phase(r, "numpy", numpy = MinScenes, {"wall", "waymax"}, "waymax")
     \/ Phase(r, "waymax", waymax <= WaymaxScenes(r), {"wall", "waymax"}, "waymax")

\* The verification is the last phase; then the durations are compared. A pilot
\* over its limits is complete all the same, and can be committed.
VerifyPilot(r) ==
  /\ stage[r] = "waymax" /\ timing[r].waymax.parts > WaymaxScenes(r)
  /\ \E t \in Measured :
       LET d == [timing[r] EXCEPT !.wall = Timed(@, t)]
       IN  IF TimingsAgree(d, MinScenes, WaymaxScenes(r))
           THEN /\ Goto(r, "artifacts")
                /\ \E b \in BOOLEAN : passed' = [passed EXCEPT ![r] = b]
           ELSE Goto(r, "mistimed") /\ UNCHANGED passed
  /\ timing' = [timing EXCEPT ![r] = Untimed]
  /\ Quiet /\ UNCHANGED <<local, visit, sealed, outcomes>>

\* The official outcomes, and the precursor that waits for its reviewers.
ExecuteOfficial(r) ==
  /\ stage[r] = "execute" /\ Mode[r] = "official"
  /\ Goto(r, "awaiting")
  /\ Quiet /\ UNCHANGED <<local, visit, sealed, outcomes, passed, timing>>

Commit(r) ==
  /\ stage[r] = "artifacts"
  /\ Goto(r, "committed")
  /\ Quiet /\ UNCHANGED <<local, visit, sealed, outcomes, passed, timing>>

-----------------------------------------------------------------------------
(* _finalize_and_terminalize *)

Recheck(r, at, holds, next) ==
  /\ stage[r] = at
  /\ IF holds THEN Goto(r, next) ELSE Fails(r)
  /\ Quiet /\ UNCHANGED <<local, visit, sealed, outcomes, passed, timing>>

FilesUntouched(r) == \A i \in DOMAIN Shards : shards[i].stamp = local[r].stamps[i]

\* _assert_m6_terminal_mode_gate.
TerminalGate(r) == Mode[r] = "compute_pilot" => passed[r]

\* reverify_repository_preflight, reverify_local_inputs,
\* _reverify_accepted_shards, and the marker.
Terminalize(r) ==
  \/ Recheck(r, "committed", code = local[r].code, "recheck_local")
  \/ Recheck(r, "recheck_local",
             FilesUntouched(r) /\ manifest = local[r].manifest, "recheck_shards")
  \/ Recheck(r, "recheck_shards",
             /\ \A i \in DOMAIN Shards : shards[i].content = local[r].manifest[i]
             /\ FilesUntouched(r), "mark")
  \/ Recheck(r, "mark", TerminalGate(r), "success")

\* A status that cannot be delivered puts a failure record beside the success.
Invalidate(r) ==
  /\ stage[r] = "success"
  /\ Goto(r, "invalidated")
  /\ Quiet /\ UNCHANGED <<local, visit, sealed, outcomes, passed, timing>>

-----------------------------------------------------------------------------
(* finalize-review *)

\* _reverify_awaiting_review_precursor.
PrecursorHolds(r, here) ==
  /\ SameProvenance(local[r], here)
  /\ GateOpens(r, here)
  /\ \A p \in Predecessors(r) : sealed[p].rows = sealed[r].rows
  /\ SameReceipt(sealed[r], sealed[Eligibility(r)])
  /\ Secondary(sealed[r].rows) = Secondary(sealed[Pilot(r)].rows)

\* finalize_m6_review. A refusal poisons the run, as everything does that goes
\* wrong once the command has adopted it.
FinalizeReview(r) ==
  /\ stage[r] = "awaiting"
  /\ IF PrecursorHolds(r, Observed)
     THEN /\ local' = [local EXCEPT ![r] = Observed]
          /\ \E next \in {"committed", "rejected"} : Goto(r, next)
     ELSE Goto(r, "refused") /\ UNCHANGED local
  /\ Quiet /\ UNCHANGED <<visit, sealed, outcomes, passed, timing>>

-----------------------------------------------------------------------------
(* Failure and the world *)

Ended == {"failed", "mistimed", "refused", "rejected", "success", "invalidated"}

\* Any handler may raise: the run gets a failure record.
Fail(r) ==
  /\ stage[r] \notin Ended
  /\ Fails(r)
  /\ timing' = [timing EXCEPT ![r] = Untimed]
  /\ Quiet /\ UNCHANGED <<local, visit, sealed, outcomes, passed>>

Drift ==
  /\ drifts < MaxDrift /\ drifts' = drifts + 1
  /\ UNCHANGED <<stage, local, visit, sealed, outcomes, passed, timing>>

\* Another commit is approved and checked out.
Approve(c) ==
  /\ Drift /\ c # code
  /\ code' = c
  /\ UNCHANGED <<manifest, shards>>

\* A shard file is replaced.
ReplaceShard(i, c) ==
  /\ Drift /\ c # shards[i].content
  /\ shards' = [shards EXCEPT ![i] = [content |-> c, stamp |-> @.stamp + 1]]
  /\ UNCHANGED <<code, manifest>>

\* M4 is run again on the files as they are, and accepted.
AcceptM4 ==
  /\ Drift
  /\ manifest' = [i \in DOMAIN Shards |-> shards[i].content]
  /\ manifest' # manifest
  /\ UNCHANGED <<code, shards>>

-----------------------------------------------------------------------------

OfMode(mode) == {r \in Runs : Mode[r] = mode}

Init ==
  /\ code \in Codes /\ drifts = 0
  /\ manifest \in [DOMAIN Shards -> Contents]
  /\ shards = [i \in DOMAIN Shards |-> [content |-> manifest[i], stamp |-> 1]]
  /\ stage = [r \in Runs |-> "new"]
  /\ local = [r \in Runs |-> Observed]
  /\ closed = [r \in Runs |-> 0] /\ opened = [r \in Runs |-> 0]
  /\ read = [r \in Runs |-> [m \in Members |-> Unread]]
  /\ seen = [r \in Runs |-> {}] /\ residents = [r \in Runs |-> {}]
  /\ sealed = [r \in Runs |-> Nothing]
  /\ outcomes = [r \in Runs |-> FALSE] /\ passed = [r \in Runs |-> FALSE]
  /\ timing = [r \in Runs |-> Untimed]

Run(r) ==
  \/ Prepare(r)
  \/ OpenShard(r) \/ DecodeRecord(r) \/ CheckFile(r) \/ Deliver(r) \/ CloseShard(r)
  \/ Preregister(r) \/ BeginOutcomes(r)
  \/ PilotPhase(r) \/ VerifyPilot(r) \/ ExecuteOfficial(r)
  \/ Commit(r) \/ Terminalize(r) \/ Invalidate(r) \/ Fail(r)

World ==
  \/ \E c \in Codes : Approve(c)
  \/ \E i \in DOMAIN Shards, c \in Contents : ReplaceShard(i, c)
  \/ AcceptM4

Next == (\E r \in Runs : Run(r) \/ FinalizeReview(r)) \/ World

Spec == Init /\ [][Next]_vars
-----------------------------------------------------------------------------
(* Properties *)

\* At every moment of a visit, in whatever order the members come, the residents
\* are the best MaxScenes of the qualified members that came so far: those that
\* fewer than MaxScenes others are before. What is selected in the end is never a
\* scene that was thrown away on the way.
ResidentsAreBest ==
  \A r \in Runs :
    LET qualified == {m \in seen[r] : Qualifies(FactOf(r, m))}
    IN residents[r] = {m \in qualified :
                         Cardinality({k \in qualified : Before(k, m)}) < MaxScenes}

\* What a run has sealed is what the approved code says of the shard contents
\* that its M4 run was accepted for, although the files are read one record at a
\* time and may be replaced, and put back, while they are read.
SealedIsAccepted ==
  \A r \in Runs :
    sealed[r] # Nothing =>
      LET facts == Verdicts(local[r].code,
                            [m \in Members |-> local[r].manifest[ShardOf[m]]])
      IN sealed[r] = [rows      |-> EligibilityRows(Mode[r], facts),
                      selection |-> SelectSubset(facts)]

\* No official outcome exists without the chain behind it: both runs it names had
\* ended well, the pilot had passed, all three ran the same code on the same M4
\* run, and they agree on the eligible scenes, on the selection and, with the
\* pilot, on the scenes of the second intervention.
OutcomesHaveChain ==
  \A r \in OfMode("official") :
    outcomes[r] =>
      /\ passed[Pilot(r)]
      /\ \A p \in Predecessors(r) :
           /\ stage[p] \in {"success", "invalidated"}
           /\ SameProvenance(local[p], local[r])
           /\ SameReceipt(sealed[p], sealed[r])
      /\ Secondary(sealed[r].rows) = Secondary(sealed[Pilot(r)].rows)

\* Durations that were really measured are never refused: rounding every phase
\* up on its own stays within the overage that is allowed for.
GenuineTimingsAccepted == \A r \in Runs : stage[r] # "mistimed"

\* "Rebind the sealed precursor to fresh provenance and predecessors.": a review
\* is refused only if the code, the M4 run or a predecessor is not what it was.
UnchangedRunFinalizes ==
  [][\A r \in Runs :
       stage[r] = "awaiting" /\ stage'[r] = "refused" =>
         \/ ~SameProvenance(local[r], Observed)
         \/ \E p \in Predecessors(r) : ~EndedWell(p)]_vars
=============================================================================
