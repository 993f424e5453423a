------------------------------- MODULE M6Waymax -------------------------------
(***************************************************************************)
(* The Waymax evaluation of an official M6 run, and the pilot that only    *)
(* times it: evalsim/evaluation/m6_waymax_official.py with the measures of *)
(* m6_waymax_metrics.py and the kernels of evalsim/simulators/waymax_m6.py.*)
(*                                                                         *)
(* An authority lets exactly one run use its executors.  The run has every *)
(* cell (scene, bundle, condition) executed twice, and four times in the   *)
(* first scene, checks each output and the storage it came in, freezes a   *)
(* copy, compares the pulse with the identity, and issues its evidence if  *)
(* nothing raised.                                                         *)
(*                                                                         *)
(* The executors call JAX, which is not part of the repository.  Here they *)
(* may have a quirk, and now and then do worse: compute something else,    *)
(* hand out a buffer again, write into one later, or touch the source or   *)
(* the plan.                                                               *)
(***************************************************************************)
EXTENDS Integers, Sequences, FiniteSets, SequencesExt, FiniteSetsExt, TLC

CONSTANTS
  Source,       \* scene -> its native state and its compiled pulse
  Cohorts,      \* the sequences of primary eligible scenes, by rank
  Agents,       \* object slots
  Ego,
  Target,
  Transitions,  \* 20 in the source
  MinScenes,    \* 8
  MaxScenes,    \* 16
  Persistence,  \* transitions that a response has to last: M6_RESPONSE_PERSISTENCE_S
  Holders,      \* cohort -> the sets of runs that may hold the authority
  MaxFaults,    \* bound on what the executors do worse than their quirk
  Reach         \* bound: how many of the last buffers are written late

Frames == 0 .. Transitions      \* 0 is the current frame
Steps  == 1 .. Transitions      \* frames that are computed
Bundles    == <<"logged_world", "privileged_idm">>
Conditions == <<"identity", "primary_brake">>
Gone == [x |-> 0, v |-> 0, valid |-> FALSE]

\* The pose and speed of a slot in a frame.
States == [x : Int, v : Int, valid : BOOLEAN]

\* Of a scene: what each slot is, its logged states, the ego's under the pulse, both of
\* them valid throughout, which slots overlap at the first frame, and whether the
\* cadence is 100 ms.  Whoever holds an authority, somebody does.
ASSUME WaymaxAssumption ==
  /\ Ego \in Agents /\ Target \in Agents \ {Ego}
  /\ {Transitions, Persistence, MinScenes} \subseteq Nat \ {0}
  /\ MaxScenes \in Nat /\ MinScenes <= MaxScenes
  /\ \A s \in DOMAIN Source :
       /\ DOMAIN Source[s].type = Agents
       /\ Source[s].log \in [Frames -> [Agents -> States]]
       /\ Source[s].brake \in [Frames -> States]
       /\ Source[s].brake[0] = Source[s].log[0][Ego]
       /\ \A k \in Frames : Source[s].brake[k].valid /\ Source[s].log[k][Ego].valid
       /\ Source[s].overlapping \subseteq Agents
       /\ Source[s].even \in BOOLEAN
  /\ Cohorts \subseteq Seq(DOMAIN Source)
  /\ \A c \in Cohorts : {} \notin Holders[c]

\* There are two kinds of runs.  Whom an authority lets in does not depend on it, what is
\* executed does.
ASSUME KindsAssumption ==
  \A c \in Cohorts : \A runs \in Holders[c] : runs \subseteq {"official", "pilot"}

VARIABLES
  cohort,    \* the primary eligible scenes, by rank
  quirk,     \* how the simulator deviates in every cell
  at,        \* run -> where it is
  seen,      \* run -> what its revalidation read under the lock
  locked,    \* issuance_lock
  consumed,  \* the authority's capability is in consumed_capabilities
  flag,      \* its _consumed
  done,      \* the calls that have returned
  heap,      \* buffer -> the output in it
  buffer,    \* the buffer that the last call returned, or 0
  checked,   \* it was accepted, and is to be copied
  priors,    \* prior_raw: the buffers that were accepted
  frozen,    \* call -> its frozen copy
  computed,  \* call -> what the executor computed in it, if anything
  kernels,   \* the keys of the JIT cache
  touched,   \* the scenes whose source or plan an executor wrote to
  evidence,  \* what was issued
  faults

authority == <<at, seen, locked, consumed, flag>>
memory == <<heap, buffer, checked, priors, computed, kernels, touched, faults>>
results == <<done, frozen, evidence>>
vars == <<cohort, quirk, authority, memory, results>>

Nothing == "nothing"
NoFunction == [c \in {} |-> Nothing]
NoEvidence == [run |-> Nothing, scalars |-> NoFunction]

\* The same function: TLC evaluates its values once.
Tabulated(f) == CHOOSE g \in {f} : g = f

\* What was kept of the calls, with one more.
With(kept, call, output) ==
  [c \in DOMAIN kept \union {call} |-> IF c \in DOMAIN kept THEN kept[c] ELSE output]

-----------------------------------------------------------------------------
(* Masks and kernels *)

IsVehicle(s, a) == Source[s].type[a] = "vehicle" /\ a # Ego
Valid(s, k, a)  == Source[s].log[k][a].valid

\* Faulty: a vehicle that leaves is still driven.
RequestedFaulty(s, bundle, k) ==
  {a \in Agents : bundle = "privileged_idm" /\ IsVehicle(s, a) /\ Valid(s, k, a)}

\* The vehicles that IDM is asked to move from frame k on.
Requested(s, bundle, k) ==
  {a \in Agents : /\ bundle = "privileged_idm" /\ IsVehicle(s, a)
                  /\ Valid(s, k, a) /\ Valid(s, k + 1, a)}

Masks(s, bundle, k) ==
  LET Of(requested) ==
        [requested |-> requested,
         effective |-> requested \ Source[s].overlapping,
         lifecycle |-> {a \in Agents : IsVehicle(s, a)} \ requested,
         overlap   |-> requested \intersect Source[s].overlapping]
  IN Of(Requested(s, bundle, k))

Plan(s, condition) ==
  IF condition = "identity" THEN [k \in Frames |-> Source[s].log[k][Ego]]
                            ELSE Source[s].brake

\* A vehicle slows down behind a slower or a near one; external, and coarse.
Idm(world, a, strength) ==
  LET leaders == {b \in Agents \ {a} : world[b].valid /\ world[b].x > world[a].x}
      slows == \E b \in leaders :
                 \/ world[b].x - world[a].x < 2 * world[a].v
                 \/ world[b].v < world[a].v
      v == IF slows THEN Max({0, world[a].v - strength}) ELSE world[a].v
  IN [x |-> world[a].x + v, v |-> v, valid |-> TRUE]

\* One step of the scan: the log, the pulse, and IDM for those that it moves.  Every
\* agent acts on the frame before.  Quirks: "harder" brakes twice as much, "early" has
\* agents see the ego's next state, "loose" lets IDM drive in the logged world, too.
NextFrame(s, bundle, condition, how, before, k) ==
  LET ego == Plan(s, condition)[k]
      driver == IF how = "loose" THEN "privileged_idm" ELSE bundle
      moved == Masks(s, driver, k - 1).effective
      world == IF how = "early" THEN [before EXCEPT ![Ego] = ego] ELSE before
      strength == IF how = "harder" THEN 2 ELSE 1
  IN [a \in Agents |-> CASE a \in moved -> Idm(world, a, strength)
                         [] a = Ego -> ego
                         [] OTHER -> Source[s].log[k][a]]

\* _m6_waymax_kernel.
Kernel(s, bundle, condition, how) ==
  LET frames[k \in Frames] ==
        IF k = 0 THEN Source[s].log[0]
        ELSE NextFrame(s, bundle, condition, how, frames[k - 1], k)
  IN [frames |-> [k \in Steps |-> frames[k]], masks |-> [k \in Steps |-> Masks(s, bundle, k - 1)]]

Quirks == {"none", "harder", "early", "loose"}

\* An output is known by what was computed.
Outputs ==
  [scene : DOMAIN Source, bundle : Range(Bundles), condition : Range(Conditions),
   how : Quirks]
OutputOf ==
  Tabulated([d \in Outputs |-> Kernel(d.scene, d.bundle, d.condition, d.how)])

-----------------------------------------------------------------------------
(* Checks *)

\* evaluate_m6_waymax_eligibility.
Qualifies(s) ==
  /\ Source[s].even
  /\ \A k \in 0 .. Transitions - 1 : Target \in Requested(s, "privileged_idm", k)
  /\ Target \notin Source[s].overlapping

\* The first MaxScenes that qualify, or none if there are fewer than MinScenes.
Selected(c) ==
  LET among[n \in 0 .. Len(c)] ==
        IF n = 0 THEN <<>>
        ELSE IF Qualifies(c[n]) THEN Append(among[n - 1], c[n]) ELSE among[n - 1]
      Of(qualified) == CASE Len(qualified) < MinScenes -> <<>>
                         [] Len(qualified) > MaxScenes -> SubSeq(qualified, 1, MaxScenes)
                         [] OTHER -> qualified
  IN Of(among[Len(c)])

SelectionOf == Tabulated([c \in Cohorts |-> Selected(c)])
Selection == SelectionOf[cohort]

EgoFollows(out, s, condition) ==
  \A k \in Steps : out.frames[k][Ego] = Plan(s, condition)[k]

\* What nobody controls is where the log has it.
RestIsLogged(out, s, bundle) ==
  \A k \in Steps :
    LET moved == Masks(s, bundle, k - 1).effective
    IN \A a \in Agents \ ({Ego} \union moved) : out.frames[k][a] = Source[s].log[k][a]

\* validate_m6_waymax_compact.
CompactHolds(out, s, bundle, condition) ==
  /\ \A k \in Steps : /\ out.masks[k] = Masks(s, bundle, k - 1)
                      /\ \A a \in Agents : out.frames[k][a].valid = Valid(s, k, a)
  /\ EgoFollows(out, s, condition)
  /\ RestIsLogged(out, s, bundle)
  /\ bundle = "privileged_idm" => \A k \in Steps : Target \in out.masks[k].effective

\* In the logged world nobody ever responds, and IDM not in the first frame.
GateFrames(bundle) == IF bundle = "logged_world" THEN Steps ELSE {1}

\* validate_m6_waymax_pair, and again on the reconstructed rollouts.
PairHolds(base, treated, bundle) ==
  /\ base.masks = treated.masks
  /\ \A k \in GateFrames(bundle), a \in Agents \ {Ego} :
       base.frames[k][a] = treated.frames[k][a]

-----------------------------------------------------------------------------
(* Measures *)

Speed(out, s, k) == IF k = 0 THEN Source[s].log[0][Target].v ELSE out.frames[k][Target].v
Acceleration(out, s, t) == Speed(out, s, t + 1) - Speed(out, s, t)

Delta(base, treated, s, t) == Acceleration(treated, s, t) - Acceleration(base, s, t)

\* The transitions at whose end a response has lasted long enough.
ResponseEnds(base, treated, s) ==
  {t \in Persistence .. Transitions - 1 :
     \A u \in t - Persistence + 1 .. t : Delta(base, treated, s, u) <= -1}

GapTo(out, k) == out.frames[k][Ego].x - out.frames[k][Target].x
LeastGap(out) == Min({GapTo(out, k) : k \in Steps})

\* compute_m6_waymax_paired_measures.
Measures(base, treated, s) ==
  LET ends == ResponseEnds(base, treated, s)
  IN [impulse   |-> SumFunction([t \in Steps |-> Max({0, -Delta(base, treated, s, t - 1)})]),
      responded |-> ends # {},
      latency   |-> IF ends = {} THEN 0 ELSE Min(ends) + 1,
      gap       |-> LeastGap(treated) - LeastGap(base),
      loss      |-> base.frames[Transitions][Target].x - treated.frames[Transitions][Target].x]

-----------------------------------------------------------------------------
(* The order of the calls *)

Passes(position) ==
  IF position = 1 THEN <<"eager_pass_1", "eager_pass_2", "jit_eager", "jit_compiled">>
                  ELSE <<"eager_pass_1", "eager_pass_2">>

Call(position, b, c, p) ==
  [position |-> position, bundle |-> Bundles[b], condition |-> Conditions[c],
   pass |-> Passes(position)[p]]

\* for position: for bundle: for condition: eager twice, and both JIT paths.
SceneCalls(position) ==
  LET Cell(b, c) == [p \in DOMAIN Passes(position) |-> Call(position, b, c, p)]
  IN Cell(1, 1) \o Cell(1, 2) \o Cell(2, 1) \o Cell(2, 2)

\* A pilot runs the first MinScenes scenes only.
Positions(r) == IF r = "pilot" THEN Min({MinScenes, Len(Selection)}) ELSE Len(Selection)
CallsOf ==
  LET calls[n \in 0 .. MaxScenes] == IF n = 0 THEN <<>> ELSE calls[n - 1] \o SceneCalls(n)
  IN Tabulated(calls)
Calls(r) == CallsOf[Positions(r)]

NextCall(r) == Calls(r)[done + 1]
Scene(call) == Selection[call.position]
Is(call, condition, pass) == [call EXCEPT !.condition = condition, !.pass = pass]
CellIsDone(call) == call.pass = Last(Passes(call.position))
PairIsDone(call) == CellIsDone(call) /\ call.condition = Last(Conditions)

-----------------------------------------------------------------------------
(* The one-shot authority *)

\* Revalidation reads under the lock and compares without it.
Read(r, from, to) ==
  /\ at[r] = from /\ ~locked
  /\ at' = [at EXCEPT ![r] = to]
  /\ seen' = [seen EXCEPT ![r] = consumed]
  /\ UNCHANGED <<cohort, quirk, locked, consumed, flag, memory, results>>

Compare(r, from, to) ==
  /\ at[r] = from
  /\ at' = [at EXCEPT ![r] = IF seen[r] = flag THEN to ELSE "refused"]
  /\ UNCHANGED <<cohort, quirk, seen, locked, consumed, flag, memory, results>>

ValidateInputs(r)    == Read(r, "start", "validating")
ValidatedInputs(r)   == Compare(r, "validating", "validated")
RevalidateClaim(r)   == Read(r, "validated", "claiming")
RevalidatedClaim(r)  == Compare(r, "claiming", "claimable")
RevalidateExecutors(r)  == Read(r, "claimed", "opening")
RevalidatedExecutors(r) == Compare(r, "opening", "running")

\* Faulty: the capability is not looked at under the lock.
IsConsumedFaulty == FALSE
IsConsumed == consumed

\* _claim: the capability, and then the flag, under the lock.
Claim(r) ==
  /\ at[r] = "claimable" /\ ~locked
  /\ IF IsConsumed
     THEN at' = [at EXCEPT ![r] = "refused"] /\ UNCHANGED <<locked, consumed>>
     ELSE /\ at' = [at EXCEPT ![r] = "flagging"]
          /\ locked' = TRUE /\ consumed' = TRUE
  /\ UNCHANGED <<cohort, quirk, seen, flag, memory, results>>

SetFlag(r) ==
  /\ at[r] = "flagging"
  /\ at' = [at EXCEPT ![r] = "claimed"]
  /\ locked' = FALSE /\ flag' = TRUE
  /\ UNCHANGED <<cohort, quirk, seen, consumed, memory, results>>

-----------------------------------------------------------------------------
(* One execution *)

Running(r) == at[r] = "running" /\ done < Len(Calls(r))

Raise(r) ==
  /\ at' = [at EXCEPT ![r] = "raised"]
  /\ UNCHANGED <<seen, locked, consumed, flag, results>>

\* The JIT path that traces needs a new key, and the compiled one a known key.
JitKey(call) == <<call.bundle, call.condition>>
JitRaises(call) ==
  \/ call.pass = "jit_eager" /\ JitKey(call) \in kernels
  \/ call.pass = "jit_compiled" /\ JitKey(call) \notin kernels

Honest(call) ==
  [scene |-> Scene(call), bundle |-> call.bundle, condition |-> call.condition,
   how |-> quirk]

\* What else a buffer may hold: another condition, or something computed another way.
Altered(output) ==
  ({[output EXCEPT !.condition = c] : c \in Range(Conditions)}
    \union {[output EXCEPT !.how = how] : how \in Quirks}) \ {output}

\* The executor computes into a new buffer.
Computes(call, output) ==
  /\ heap' = Append(heap, output) /\ buffer' = Len(heap) + 1
  /\ computed' = With(computed, call, output)

\* It hands out an old one instead.
Replays(call) ==
  /\ \E b \in DOMAIN heap : buffer' = b
  /\ UNCHANGED <<heap, computed>>

\* A call of an executor.
Execute(r) ==
  /\ Running(r) /\ buffer = 0
  /\ LET call == NextCall(r)
     IN IF JitRaises(call) THEN Raise(r) /\ UNCHANGED memory
        ELSE /\ kernels' = kernels \union (IF call.pass = "jit_eager" THEN {JitKey(call)} ELSE {})
             /\ \/ /\ Computes(call, Honest(call))
                   /\ UNCHANGED <<touched, faults>>
                \/ /\ faults < MaxFaults /\ faults' = faults + 1
                   /\ \/ \E output \in Altered(Honest(call)) :
                           Computes(call, output) /\ UNCHANGED touched
                      \/ Replays(call) /\ UNCHANGED touched
                      \/ /\ Computes(call, Honest(call))
                         /\ touched' = touched \union {Scene(call)}
             /\ UNCHANGED <<checked, priors, authority, results>>
  /\ UNCHANGED <<cohort, quirk>>

\* The runtime still writes into a buffer that it has given away.
WriteLate ==
  /\ evidence = NoEvidence /\ faults < MaxFaults /\ faults' = faults + 1
  /\ \E b \in DOMAIN heap :
       /\ b > Len(heap) - Reach
       /\ \E output \in Altered(heap[b]) : heap' = [heap EXCEPT ![b] = output]
  /\ UNCHANGED <<cohort, quirk, authority, buffer, checked, priors, computed, kernels, touched, results>>

\* Faulty: storage may come again.
IsFreshFaulty(b) == TRUE

\* The output shares no storage with an earlier one.
IsFresh(b) == b \notin Range(priors)

Holds(output, call) ==
  /\ Scene(call) \notin touched
  /\ CompactHolds(OutputOf[output], Scene(call), call.bundle, call.condition)

\* _execute_once, up to the copy.
Check(r) ==
  /\ Running(r) /\ buffer # 0 /\ ~checked
  /\ IF IsFresh(buffer) /\ Holds(heap[buffer], NextCall(r))
     THEN /\ checked' = TRUE /\ priors' = Append(priors, buffer)
          /\ UNCHANGED <<heap, buffer, computed, kernels, touched, faults, authority, results>>
     ELSE Raise(r) /\ UNCHANGED memory
  /\ UNCHANGED <<cohort, quirk>>

\* The passes of a cell, of which M6WaymaxLiveDeterminismTable keeps the digests.
PassesAgree(copies, call) ==
  \A p \in Range(Passes(call.position)) :
    OutputOf[copies[Is(call, call.condition, p)]]
      = OutputOf[copies[Is(call, call.condition, "eager_pass_1")]]

PairOf(copies, call) ==
  [base    |-> OutputOf[copies[Is(call, "identity", "eager_pass_1")]],
   treated |-> OutputOf[copies[Is(call, "primary_brake", "eager_pass_1")]]]

\* What is checked before the next call: a pilot compares the passes at once, and
\* both runs compare the conditions when the second one is done.
CopyHolds(r, copies, call) ==
  /\ Holds(copies[call], call)
  /\ r = "pilot" /\ CellIsDone(call) => PassesAgree(copies, call)
  /\ PairIsDone(call) =>
       LET pair == PairOf(copies, call)
       IN PairHolds(pair.base, pair.treated, call.bundle)

\* The copy of _execute_once, and what the run does with it.
Freeze(r) ==
  /\ Running(r) /\ checked
  /\ LET call == NextCall(r)
         copies == With(frozen, call, heap[buffer])
     IN IF CopyHolds(r, copies, call)
        THEN /\ frozen' = copies /\ done' = done + 1
             /\ buffer' = 0 /\ checked' = FALSE
             /\ UNCHANGED <<heap, priors, computed, kernels, touched, faults, authority, evidence>>
        ELSE Raise(r) /\ UNCHANGED memory
  /\ UNCHANGED <<cohort, quirk>>

-----------------------------------------------------------------------------
(* The evidence *)

\* build_m6_waymax_live_determinism_table.
TableHolds(r) == r = "official" => \A call \in Range(Calls(r)) : PassesAgree(frozen, call)

PairCalls(r) == {call \in Range(Calls(r)) : PairIsDone(call)}

\* Only selected scenes have scalars; a pilot discards its own.
Scalars(r) ==
  [call \in IF r = "pilot" THEN {} ELSE PairCalls(r) |->
     LET pair == PairOf(frozen, call)
     IN Measures(pair.base, pair.treated, Scene(call))]

\* Fewer than MinScenes scenes end here at once, with placeholders.
Issue(r) ==
  /\ at[r] = "running" /\ done = Len(Calls(r))
  /\ IF TableHolds(r) /\ Range(Selection) \intersect touched = {}
     THEN /\ at' = [at EXCEPT ![r] = "issued"]
          /\ evidence' = [run |-> r, scalars |-> Scalars(r)]
          /\ UNCHANGED <<seen, locked, consumed, flag, done, frozen>>
     ELSE Raise(r)
  /\ UNCHANGED <<cohort, quirk, memory>>

-----------------------------------------------------------------------------

InitOf(c, q, runs) ==
  /\ cohort = c /\ quirk = q
  /\ at = [r \in runs |-> "start"] /\ seen = [r \in runs |-> FALSE]
  /\ locked = FALSE /\ consumed = FALSE /\ flag = FALSE
  /\ done = 0 /\ frozen = NoFunction /\ evidence = NoEvidence
  /\ heap = <<>> /\ buffer = 0 /\ checked = FALSE /\ priors = <<>>
  /\ computed = NoFunction /\ kernels = {} /\ touched = {} /\ faults = 0

Init == \E c \in Cohorts, q \in Quirks : \E runs \in Holders[c] : InitOf(c, q, runs)

Authorize(r) ==
  \/ ValidateInputs(r) \/ ValidatedInputs(r) \/ RevalidateClaim(r) \/ RevalidatedClaim(r)
  \/ Claim(r) \/ SetFlag(r) \/ RevalidateExecutors(r) \/ RevalidatedExecutors(r)

Run(r) == Execute(r) \/ Check(r) \/ Freeze(r) \/ Issue(r)

Next == (\E r \in DOMAIN at : Authorize(r) \/ Run(r)) \/ WriteLate

Spec == Init /\ [][Next]_vars
-----------------------------------------------------------------------------
(* Properties *)

Started == {r \in DOMAIN at : at[r] \in {"flagging", "claimed", "opening", "running", "raised", "issued"}}

\* However two runs that hold the same authority interleave, it authorizes one of
\* them, and the other is the only one that is refused.
OneRun ==
  /\ Cardinality(Started) <= 1
  /\ \E r \in DOMAIN at : at[r] # "refused"

\* Every scalar of an issued table is of outputs that the executors really
\* computed, once for every pass and every time the same, for a source and a plan
\* that nobody touched: no replayed and no altered output gets into the evidence,
\* unless the executor did worse than its quirk twice: the same in both passes of a cell
\* looks like a quirk, and no comparison of passes can tell.
\* And no table shows a response where there can be none: the logged world has
\* none at all, and a vehicle under IDM has none in the transition in which it
\* cannot have seen the pulse yet.
EvidenceIsWitnessed ==
  evidence # NoEvidence /\ faults <= 1 =>
    LET calls == Range(Calls(evidence.run))
    IN /\ DOMAIN computed = calls
       /\ \A call \in calls :
            /\ OutputOf[computed[call]] = OutputOf[frozen[Is(call, call.condition, "eager_pass_1")]]
            /\ Scene(call) \notin touched
       /\ \A call \in PairCalls(evidence.run) :
            LET pair == PairOf(frozen, call)
            IN /\ Delta(pair.base, pair.treated, Scene(call), 0) = 0
               /\ call.bundle = "logged_world" /\ call \in DOMAIN evidence.scalars =>
                    LET scalar == evidence.scalars[call]
                    IN scalar.impulse = 0 /\ ~scalar.responded /\ scalar.loss = 0

\* The checks refuse no honest execution: with vehicles that come, go or overlap,
\* and whatever IDM does in them, only a misdeed or a quirk that breaks the order
\* of the agents makes a run raise.
HonestRunIsIssued ==
  \A r \in DOMAIN at : at[r] = "raised" => faults > 0 \/ quirk \in {"early", "loose"}
=============================================================================
