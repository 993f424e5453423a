------------------------------ MODULE M6Evidence ------------------------------
(***************************************************************************)
(* The evidence of one M6 run: class M6ResultStore of evalsim/results/m6.py*)
(* from the first writer call to the verdict.  Every writer checks what it *)
(* is given against what is sealed already, derives what can be derived,   *)
(* and poisons the run when it refuses.  An official run is then verified  *)
(* mechanically, sealed for its reviewers, adopted again from its files    *)
(* alone, and committed or not; a data_free run is verified and committed  *)
(* in one go; the two other modes hold no outcomes.                        *)
(*                                                                         *)
(* The caller is arbitrary: it may have the results of several evaluations *)
(* at hand and call the writers in any order.  How files and commands fail *)
(* is the subject of M6Review and M6Reservation.                           *)
(***************************************************************************)
EXTENDS Naturals, FiniteSets

CONSTANTS
  Scenes,       \* the population of the mode
  Evaluations,  \* evaluations that were run
  Facts,        \* what each of them found
  Hands,        \* the sets of evaluations that a caller may have at hand
  Gates,        \* M6_NEGATIVE_TIMING_GATE_DOMAIN
  NestedDose,   \* the one gate that looks at the b=4 scenes
  Roles,        \* M6_REVIEW_ROLE_DOMAIN
  Rank,         \* m6_waymax_rank_sha256: the order in which scenes are selected
  MinSelected,  \* 8
  MaxSelected,  \* 16
  ClaimFloor    \* 10: pairs of a primary matrix or a cell, responders of a claim

\* Of an evaluation: the primary eligible scenes, those of them that b=4 is
\* feasible in and that Waymax qualifies, the scenes in which IDM responds in
\* pass 1, in pass 2 and to b=4, and the gates it violates.  Rows are of the scenes
\* that an evaluation has.
ASSUME EvidenceAssumption ==
  /\ IsFiniteSet(Scenes) /\ NestedDose \in Gates
  /\ Facts \in [Evaluations ->
       [eligible : SUBSET Scenes, feasible : SUBSET Scenes,
        qualified : SUBSET Scenes,
        first : SUBSET Scenes, second : SUBSET Scenes, later : SUBSET Scenes,
        violated : SUBSET Gates]]
  /\ \A e \in Evaluations :
       /\ Facts[e].qualified \subseteq Facts[e].eligible
       /\ Facts[e].first \union Facts[e].second \subseteq Facts[e].eligible
       /\ Facts[e].later \subseteq Facts[e].feasible
  /\ Hands \subseteq SUBSET Evaluations
  /\ Rank \in [Scenes -> Nat]
  /\ \A s, t \in Scenes : Rank[s] = Rank[t] => s = t
  /\ MinSelected \in Nat \ {0} /\ MaxSelected \in Nat /\ ClaimFloor \in Nat

VARIABLES
  mode,    \* profile.mode
  hand,    \* the evaluations of the caller
  phase,   \* the phase of the writer, or of the run between two writers
  cause,   \* why it failed
  tables,  \* the sealed artifacts
  live     \* the selection and the Waymax bundle that the writer holds

vars == <<mode, hand, phase, cause, tables, live>>

Nothing == "nothing"
NoBundle == [source |-> Nothing, numpy |-> Nothing]
NoDecisions == [role \in {} |-> Nothing]

-----------------------------------------------------------------------------
(* Artifacts *)

Opening  == {"eligibility", "qualification", "provenance"}
Evidence == {"primary", "primary_matrix", "repeat", "repeat_matrix",
             "secondary", "secondary_matrix", "observations", "gates",
             "scalars", "field_comparisons", "numpy_comparisons",
             "waymax_determinism", "accounting", "timings",
             "determinism", "claim"}

Complete == mode \in {"official", "data_free"}

\* _expected_artifact_paths without the request, the decisions and the summary.
Precursor ==
  Opening \union (IF mode = "compute_pilot" THEN {"pilot"} ELSE {})
          \union (IF Complete THEN Evidence ELSE {})

Expected ==
  Precursor \union (IF mode = "official" THEN {"request"} ELSE {})
            \union (IF Complete THEN {"decisions", "summary"} ELSE {})

Sealed(a) == a \in DOMAIN tables
Extended(new) ==
  [a \in DOMAIN tables \union DOMAIN new |->
     IF a \in DOMAIN new THEN new[a] ELSE tables[a]]

\* _review_precursor_sha256: the digest of the sealed precursor.
Catalog == [a \in Precursor |-> tables[a]]

-----------------------------------------------------------------------------
(* What the normalizers derive *)

\* The scenes of a pass that IDM responds in.  How soon it does is described only
\* from ClaimFloor responders on.
Matrix(responders, eligible) ==
  [pairs |-> Cardinality(eligible), responders |-> Cardinality(responders),
   latency |-> IF Cardinality(responders) >= ClaimFloor
               THEN "descriptive" ELSE "responder_sparse"]

\* _normalize_primary_matrix: every eligible scene is a pair, and fewer than
\* ClaimFloor pairs are no matrix.
MatrixHolds(matrix, eligible) ==
  /\ matrix.pairs = Cardinality(eligible) /\ matrix.pairs >= ClaimFloor
  /\ matrix.responders \in 0 .. matrix.pairs
  /\ matrix.latency = "descriptive" <=> matrix.responders >= ClaimFloor

\* At b=4 there may be no pairs at all.
SecondaryMatrix(responders, feasible) ==
  [pairs |-> Cardinality(feasible), responders |-> Cardinality(responders),
   status |-> IF feasible = {} THEN "empty" ELSE "descriptive"]

SecondaryMatrixHolds(matrix, feasible) ==
  /\ matrix.pairs = Cardinality(feasible)
  /\ matrix.responders \in 0 .. matrix.pairs
  /\ matrix.status = "empty" <=> matrix.pairs = 0

\* Fewer than MinSelected qualified scenes select none, and more than MaxSelected
\* the first of them.
Selected(qualified) ==
  IF Cardinality(qualified) >= MinSelected
  THEN {s \in qualified :
          Cardinality({t \in qualified : Rank[t] < Rank[s]}) < MaxSelected}
  ELSE {}

\* How many M6WaymaxSelectionReceipt says are selected of n.
SelectedOf(n) ==
  IF n < MinSelected THEN 0 ELSE IF n < MaxSelected THEN n ELSE MaxSelected

EligibilityOf(e) ==
  [eligible |-> Facts[e].eligible,
   feasible |-> IF mode = "eligibility_only" THEN {} ELSE Facts[e].feasible]

\* M6EligibilityReceipt: too few scenes for a matrix end an official run or a pilot
\* here, and a data_free run has its whole population.
ReceiptHolds(ledger) ==
  /\ ledger.feasible \subseteq ledger.eligible
  /\ mode \in {"official", "compute_pilot"} => Cardinality(ledger.eligible) >= ClaimFloor
  /\ mode = "data_free" => ledger.eligible = Scenes /\ ledger.feasible = Scenes

\* A data_free run has no Waymax evidence: placeholders only.
QualificationOf(s) ==
  IF mode = "data_free" THEN [qualified |-> {}, selected |-> {}]
  ELSE [qualified |-> Facts[s].qualified, selected |-> Selected(Facts[s].qualified)]

GateStatus(g, violated, ledger) ==
  IF (IF g = NestedDose THEN ledger.feasible ELSE ledger.eligible) = {}
  THEN "unsupported"
  ELSE IF g \in violated THEN "failed" ELSE "passed"

GatesOf(violated, ledger) == [g \in Gates |-> GateStatus(g, violated, ledger)]

\* A Waymax bundle is run on a source, with the NumPy rows it is compared to.
BundlesAtHand ==
  {b \in [source : hand, numpy : hand] :
     EligibilityOf(b.source) = EligibilityOf(b.numpy)}

\* A disagreement with the source raises before there is any bundle.
ComparisonOf(b) ==
  IF tables["qualification"].selected = {} THEN "unsupported" ELSE "accepted"

\* How many pairs the scalars of a bundle have, and what that allows to say of them.
CellsOf(b) ==
  LET pairs == IF b = NoBundle THEN 0 ELSE Cardinality(Selected(Facts[b.source].qualified))
  IN [scalars |-> b, pairs |-> pairs,
      status |-> IF pairs < MinSelected THEN "unsupported"
                 ELSE IF pairs < ClaimFloor THEN "insufficient_n" ELSE "descriptive"]

AccountingOf(qualification, comparison, cells) ==
  [qualified  |-> Cardinality(qualification.qualified),
   selected   |-> Cardinality(qualification.selected),
   comparison |-> comparison, cells |-> cells]

\* _validate_waymax_subtype: what is said of the cells is what their pairs allow.
CellsHold(cells) ==
  /\ cells.pairs <= MaxSelected
  /\ cells.status = "unsupported" <=> cells.pairs < MinSelected
  /\ cells.status = "descriptive" => cells.pairs >= ClaimFloor

\* _validate_waymax_cross_rows: scope, comparisons and cells have to fit together.
RowsFit(accounting) ==
  /\ accounting.selected = SelectedOf(accounting.qualified)
  /\ accounting.comparison = "unsupported" <=> accounting.selected < MinSelected
  /\ accounting.cells.pairs = accounting.selected

AccountingHolds(accounting) == CellsHold(accounting.cells) /\ RowsFit(accounting)

\* A repeat that fails raises before there is any bundle.
RepeatStatus(qualification) ==
  IF qualification.selected = {} THEN "not_applicable" ELSE "passed"

WaymaxStatus(t) ==
  IF Cardinality(t["qualification"].selected) < MinSelected THEN "unsupported"
  ELSE IF /\ t["accounting"].comparison # "failed"
          /\ t["determinism"].waymax = "passed"
       THEN "accepted" ELSE "failed"

\* Faulty: the floor is exclusive.
ClaimStatusFaulty(t) ==
  IF /\ mode = "official" /\ WaymaxStatus(t) = "accepted"
     /\ t["primary_matrix"].responders > ClaimFloor
  THEN "supported" ELSE "blocked"

\* _derive_real_reactivity_claim_status.
ClaimStatus(t) ==
  IF /\ mode = "official" /\ WaymaxStatus(t) = "accepted"
     /\ t["primary_matrix"].responders >= ClaimFloor
  THEN "supported" ELSE "blocked"

\* Both passes have to be the same.
PassesAgree(t) ==
  /\ t["primary"] = t["repeat"]
  /\ t["primary_matrix"] = t["repeat_matrix"]

\* And Waymax has to have repeated what it did, if it did anything.
Deterministic(t) == PassesAgree(t) /\ t["determinism"].waymax # "failed"

Accepts(d) == d = "accept"
AllAccept(decisions) == \A role \in Roles : Accepts(decisions[role])

Releases(t) ==
  /\ Deterministic(t)
  /\ WaymaxStatus(t) # "failed"
  /\ \A g \in Gates : t["gates"][g] # "failed"
  /\ AllAccept(t["decisions"])

\* _derive_execution_summary.
SummaryOf(t) ==
  [repeat  |-> IF Deterministic(t) THEN "passed" ELSE "failed",
   waymax  |-> WaymaxStatus(t), claim |-> ClaimStatus(t),
   release |-> IF mode = "data_free" THEN "nonpromotable"
               ELSE IF Releases(t) THEN "accepted" ELSE "rejected"]

\* _normalize_execution_summary: a run that did not repeat has no summary.
SummaryHolds(summary) ==
  /\ summary.repeat = "passed"
  /\ summary.release = "nonpromotable" <=> mode = "data_free"

-----------------------------------------------------------------------------
(* Writers *)

\* _poison.
Fails(why) ==
  /\ phase' = "failure" /\ cause' = why
  /\ UNCHANGED <<mode, hand, tables>>

\* A writer seals new artifacts if it accepts the call, and poisons the run if not.
Writes(accepted, new) ==
  IF accepted /\ DOMAIN new \intersect DOMAIN tables = {}
  THEN tables' = Extended(new) /\ UNCHANGED <<mode, hand, phase, cause>>
  ELSE Fails("refused")

InPending == phase = "pending"
Plain     == UNCHANGED live

\* _assert_complete_pending, and the tables that a writer reads.
Ready(needed) ==
  /\ Complete
  /\ {"eligibility"} \union needed \subseteq DOMAIN tables

WriteEligibility(e) ==
  /\ InPending /\ Plain
  /\ Writes(ReceiptHolds(EligibilityOf(e)), [eligibility |-> EligibilityOf(e)])

\* The selection has to cover the eligible scenes.
WriteQualification(s) ==
  LET accepted == /\ Sealed("eligibility") /\ ~Sealed("qualification")
                  /\ mode # "data_free" =>
                       Facts[s].eligible = tables["eligibility"].eligible
  IN /\ InPending
     /\ Writes(accepted, [qualification |-> QualificationOf(s)])
     /\ live' = IF accepted /\ mode # "data_free"
                THEN [live EXCEPT !.selection = s] ELSE live

\* A pilot needs as many scenes as a claim, and its report names its selection.
PilotHolds(report) ==
  /\ Cardinality(tables["eligibility"].eligible) >= ClaimFloor
  /\ report.selected = tables["qualification"].selected

\* The pilot's report is of this very selection; M6Campaign has its timings.
WritePilotSummary(e, passed) ==
  LET report == [passed |-> passed, selected |-> Selected(Facts[e].qualified)]
  IN /\ InPending /\ Plain
     /\ Writes(/\ mode = "compute_pilot" /\ Sealed("eligibility") /\ Sealed("qualification")
               /\ live.selection = e /\ tables["eligibility"] = EligibilityOf(e)
               /\ PilotHolds(report),
               [pilot |-> report])

\* Scene rows must be of exactly the eligible scenes, or of the b=4 ones.
WritePrimary(e) ==
  /\ InPending /\ Plain
  /\ Writes(Ready({}) /\ Facts[e].eligible = tables["eligibility"].eligible,
            [primary |-> Facts[e].first])

WriteRepeat(e) ==
  /\ InPending /\ Plain
  /\ Writes(Ready({}) /\ Facts[e].eligible = tables["eligibility"].eligible,
            [repeat |-> Facts[e].second])

WriteSecondary(e) ==
  /\ InPending /\ Plain
  /\ Writes(Ready({}) /\ Facts[e].feasible = tables["eligibility"].feasible,
            [secondary |-> Facts[e].later])

WritePrimaryMatrix ==
  /\ InPending /\ Plain
  /\ Writes(Ready({"primary"}),
            [primary_matrix |-> Matrix(tables["primary"], tables["eligibility"].eligible)])

WriteRepeatMatrix ==
  /\ InPending /\ Plain
  /\ Writes(Ready({"repeat"}),
            [repeat_matrix |-> Matrix(tables["repeat"], tables["eligibility"].eligible)])

WriteSecondaryMatrix ==
  /\ InPending /\ Plain
  /\ Writes(Ready({"secondary"}),
            [secondary_matrix |->
               SecondaryMatrix(tables["secondary"], tables["eligibility"].feasible)])

\* One observation per gate and scene that the gate looks at, no more and no less.
ObservationsCover(e) ==
  /\ Facts[e].eligible = tables["eligibility"].eligible
  /\ Facts[e].feasible = tables["eligibility"].feasible

WriteObservations(e) ==
  /\ InPending /\ Plain
  /\ Writes(Ready({}) /\ ObservationsCover(e),
            [observations |-> Facts[e].violated,
             gates |-> GatesOf(Facts[e].violated, tables["eligibility"])])

\* _bind_waymax_official_evidence: one bundle, on the selection that was sealed.
Binds(b) ==
  IF mode = "data_free" THEN b = NoBundle
  ELSE /\ b # NoBundle /\ b.source = live.selection
       /\ live.bundle \in {NoBundle, b}

\* The scalars are of the selection that was sealed, or placeholders.
ScalarsFit(b) ==
  b = NoBundle \/ Selected(Facts[b.source].qualified) = tables["qualification"].selected

\* The NumPy rows are, besides, of the eligibility that was sealed.
ComparisonsFit(b) ==
  ScalarsFit(b) /\ (b = NoBundle \/ EligibilityOf(b.numpy) = tables["eligibility"])

WriteWaymax(b, fits, new) ==
  /\ InPending
  /\ Writes(Ready({"qualification"}) /\ Binds(b) /\ fits, new)
  /\ live' = IF Ready({"qualification"}) /\ Binds(b)
             THEN [live EXCEPT !.bundle = b] ELSE live

WriteScalars(b)           == WriteWaymax(b, ScalarsFit(b), [scalars |-> b])
WriteNumpyComparisons(b)  == WriteWaymax(b, ComparisonsFit(b), [numpy_comparisons |-> b])
WriteFieldComparisons(b)  == WriteWaymax(b, TRUE, [field_comparisons |-> ComparisonOf(b)])
WriteWaymaxDeterminism(b) ==
  WriteWaymax(b, TRUE, [waymax_determinism |-> RepeatStatus(tables["qualification"])])

\* The writer has the cells of the live matrix, verification those of the sealed scalars.
AccountingFrom(b) ==
  AccountingOf(tables["qualification"], tables["field_comparisons"], CellsOf(b))

WriteAccounting ==
  /\ InPending /\ Plain
  /\ Writes(/\ Ready({"qualification", "scalars", "field_comparisons"})
            /\ ScalarsFit(tables["scalars"]) /\ AccountingHolds(AccountingFrom(live.bundle)),
            [accounting |-> AccountingFrom(live.bundle)])

WriteProvenance ==
  /\ InPending /\ Plain
  /\ Writes(Sealed("eligibility") /\ (mode = "compute_pilot" => Sealed("pilot")),
            [provenance |-> Nothing])

WriteStageTimings ==
  /\ InPending /\ Plain
  /\ Writes(Ready({}), [timings |-> Nothing])

DeterminismOf ==
  [pass |-> tables["primary"], waymax |-> tables["waymax_determinism"]]

WriteDeterminismReceipt ==
  /\ InPending /\ Plain
  /\ Writes(/\ Ready({"primary", "primary_matrix", "repeat", "repeat_matrix",
                      "waymax_determinism"})
            /\ PassesAgree(tables),
            [determinism |-> DeterminismOf])

WriteClaim ==
  /\ InPending /\ Plain
  /\ Writes(Ready({"determinism", "primary_matrix", "qualification", "accounting"}),
            [claim |-> ClaimStatus(tables)])

-----------------------------------------------------------------------------
(* Verification *)

\* Faulty: the NumPy tables may be of another evaluation than the Waymax ones.
NumpyIsOfBundleFaulty == TRUE

\* The rows that the bundle was compared with are the rows that were sealed.
NumpyIsOfBundle ==
  LET fact == Facts[live.bundle.numpy]
  IN /\ tables["eligibility"] = EligibilityOf(live.bundle.numpy)
     /\ tables["primary"] = fact.first /\ tables["repeat"] = fact.second
     /\ tables["secondary"] = fact.later
     /\ tables["observations"] = fact.violated

NoGateFailed == \A g \in Gates : tables["gates"][g] # "failed"

\* Only an empty nested-dose gate may be unsupported.
GatesReproduce ==
  /\ tables["gates"] = GatesOf(tables["observations"], tables["eligibility"])
  /\ \A g \in Gates \ {NestedDose} : tables["gates"][g] # "unsupported"

\* Faulty: what the gates say is left to the commit.
GatesAreGoodFaulty == GatesReproduce

GatesAreGood == GatesReproduce /\ NoGateFailed

MatricesReproduce ==
  LET ledger == tables["eligibility"]
  IN /\ \A a \in {"primary_matrix", "repeat_matrix"} : MatrixHolds(tables[a], ledger.eligible)
     /\ SecondaryMatrixHolds(tables["secondary_matrix"], ledger.feasible)
     /\ tables["primary_matrix"] = Matrix(tables["primary"], ledger.eligible)
     /\ tables["repeat_matrix"] = Matrix(tables["repeat"], ledger.eligible)
     /\ tables["secondary_matrix"] = SecondaryMatrix(tables["secondary"], ledger.feasible)

WaymaxReproduces ==
  /\ ScalarsFit(tables["scalars"]) /\ ComparisonsFit(tables["numpy_comparisons"])
  /\ AccountingHolds(tables["accounting"])
  /\ tables["accounting"] = AccountingFrom(tables["scalars"])

\* What is derived is derived again from the sealed rows.
TablesReproduce ==
  /\ PassesAgree(tables) /\ MatricesReproduce /\ WaymaxReproduces
  /\ tables["determinism"] = DeterminismOf
  /\ tables["claim"] = ClaimStatus(tables)

\* _mechanically_verify_m6_precursor.
MechanicallyVerified ==
  /\ Complete /\ DOMAIN tables = Precursor
  /\ GatesAreGood /\ TablesReproduce
  /\ IF mode = "official"
     THEN /\ live.bundle # NoBundle /\ NumpyIsOfBundle
          /\ tables["qualification"] = QualificationOf(live.bundle.source)
     ELSE live.bundle = NoBundle

\* The review is of these tables, and a data_free run has none.
ReviewIsBound == IF mode = "official" THEN tables["request"] = Catalog
                                      ELSE tables["decisions"] = NoDecisions

\* The summary follows from the tables.
SummaryReproduces ==
  /\ NoGateFailed
  /\ tables["summary"] = SummaryOf(tables)
  /\ tables["summary"].claim = tables["claim"]

ReleaseStands ==
  IF mode = "official"
  THEN tables["summary"].release = "accepted" /\ AllAccept(tables["decisions"])
  ELSE tables["summary"].release = "nonpromotable"

\* Without the selection itself, what the files say of it has to be consistent.
StoredSelectionHolds ==
  LET q == tables["qualification"]
  IN /\ q.qualified \subseteq tables["eligibility"].eligible
     /\ q.selected = Selected(q.qualified)

\* The finalizer does not have it, and a data_free run has placeholders.
SelectionHolds ==
  IF mode = "data_free" \/ live.selection # Nothing
  THEN tables["qualification"] = QualificationOf(live.selection)
  ELSE StoredSelectionHolds

\* _verify_semantic_artifacts, with the files and, unless they were adopted, the selection.
SemanticallyVerified ==
  /\ SelectionHolds
  /\ mode = "compute_pilot" => PilotHolds(tables["pilot"])
  /\ Complete => /\ GatesReproduce /\ TablesReproduce
                 /\ ReviewIsBound /\ SummaryReproduces /\ ReleaseStands

-----------------------------------------------------------------------------
(* From the last table to the verdict *)

WriteMechanicalVerification ==
  /\ InPending /\ Plain
  /\ Writes(mode = "official" /\ MechanicallyVerified, [request |-> Catalog])

WriteReviewAbsence ==
  /\ InPending /\ Plain
  /\ Writes(mode = "data_free" /\ MechanicallyVerified, [decisions |-> NoDecisions])

\* The whole precursor and the request, and nothing else.
AwaitsReview ==
  /\ DOMAIN tables = Precursor \union {"request"}
  /\ tables["request"] = Catalog

NoLive == [selection |-> Nothing, bundle |-> NoBundle]

\* The marker ends the run command; a call that comes too early raises.
SealAwaitingReview ==
  /\ InPending /\ mode = "official"
  /\ AwaitsReview /\ live.bundle # NoBundle
  /\ phase' = "sealed" /\ live' = NoLive
  /\ UNCHANGED <<mode, hand, cause, tables>>

\* finalize-review has only the files.
AdoptAwaitingReview ==
  /\ phase = "sealed" /\ AwaitsReview
  /\ phase' = "awaiting_review"
  /\ UNCHANGED <<mode, hand, cause, tables, live>>

\* "blocked" stands for an acceptance with P1 or P2 findings.
Decisions == [Roles -> {"accept", "blocked", "reject"}]

WriteReviewDecisions(decisions) ==
  /\ phase = "awaiting_review" /\ ~Sealed("decisions") /\ Plain
  /\ Writes(AwaitsReview, [decisions |-> decisions])

WriteExecutionSummary ==
  /\ InPending \/ (phase = "awaiting_review" /\ Sealed("decisions") /\ ~Sealed("summary"))
  /\ Plain
  /\ Writes(/\ mode = IF phase = "pending" THEN "data_free" ELSE "official"
            /\ DOMAIN tables = Expected \ {"summary"} /\ SummaryHolds(SummaryOf(tables)),
            [summary |-> SummaryOf(tables)])

Commits ==
  IF DOMAIN tables = Expected /\ SemanticallyVerified
  THEN phase' = "committed" /\ UNCHANGED <<mode, hand, cause, tables>>
  ELSE Fails("refused")

Commit == InPending /\ Plain /\ Commits

\* finalize_m6_review, and _fail_rejected_review.
ConcludeReview ==
  /\ phase = "awaiting_review" /\ Sealed("summary") /\ Plain
  /\ LET release == tables["summary"].release
     IN \/ /\ ~AllAccept(tables["decisions"])
           /\ Fails(IF release = "rejected" THEN "rejected" ELSE "blocked")
        \/ AllAccept(tables["decisions"]) /\ release # "accepted" /\ Fails("blocked")
        \/ AllAccept(tables["decisions"]) /\ release = "accepted" /\ Commits

\* A pilot over its limits was complete, but cannot end well.
MarkTerminalSuccess ==
  /\ phase = "committed" /\ Plain
  /\ IF mode = "compute_pilot" => tables["pilot"].passed
     THEN phase' = "success" /\ UNCHANGED <<mode, hand, cause, tables>>
     ELSE Fails("refused")

\* Any other exception, a disagreement or a failed repeat in Waymax among them.
Raise ==
  /\ phase \notin {"success", "failure"} /\ Plain
  /\ Fails("raised")

-----------------------------------------------------------------------------

Init ==
  /\ mode \in {"eligibility_only", "compute_pilot", "official", "data_free"}
  /\ hand \in Hands
  /\ phase = "pending" /\ cause = "none"
  /\ tables = [a \in {} |-> Nothing] /\ live = NoLive

WriteRows(e) ==
  \/ WriteEligibility(e) \/ WriteQualification(e)
  \/ \E passed \in BOOLEAN : WritePilotSummary(e, passed)
  \/ WritePrimary(e) \/ WriteRepeat(e) \/ WriteSecondary(e) \/ WriteObservations(e)

WriteBundle(b) ==
  \/ WriteScalars(b) \/ WriteNumpyComparisons(b) \/ WriteFieldComparisons(b)
  \/ WriteWaymaxDeterminism(b)

Derive ==
  \/ WritePrimaryMatrix \/ WriteRepeatMatrix \/ WriteSecondaryMatrix
  \/ WriteAccounting \/ WriteProvenance \/ WriteStageTimings
  \/ WriteDeterminismReceipt \/ WriteClaim

Conclude ==
  \/ WriteMechanicalVerification \/ WriteReviewAbsence
  \/ SealAwaitingReview \/ AdoptAwaitingReview
  \/ \E decisions \in Decisions : WriteReviewDecisions(decisions)
  \/ WriteExecutionSummary \/ Commit \/ ConcludeReview \/ MarkTerminalSuccess

Next ==
  \/ \E e \in hand : WriteRows(e)
  \/ \E b \in BundlesAtHand \union {NoBundle} : WriteBundle(b)
  \/ Derive \/ Conclude \/ Raise

Spec == Init /\ [][Next]_vars
-----------------------------------------------------------------------------
(* Properties *)

Phases == {"pending", "sealed", "awaiting_review", "committed", "success", "failure"}
IsSealed == mode = "official" /\ phase \in {"sealed", "awaiting_review", "committed", "success"}

\* Whatever evaluations the caller mixed, what the reviewers get to see is one: all
\* NumPy tables are of one evaluation, whose two passes agree and which violates
\* no gate that looks at a scene, and all Waymax tables are of one execution that
\* was compared with that very evaluation, on the selection that was sealed.
SealedIsOneEvaluation ==
  IsSealed =>
    \E b \in BundlesAtHand :
      LET fact == Facts[b.numpy]
      IN /\ tables["eligibility"] = EligibilityOf(b.numpy)
         /\ tables["primary"] = fact.first /\ fact.first = fact.second
         /\ tables["secondary"] = fact.later
         /\ \A g \in fact.violated : g = NestedDose /\ fact.feasible = {}
         /\ tables["qualification"] = QualificationOf(b.source)
         /\ tables["scalars"] = b /\ tables["numpy_comparisons"] = b
         /\ tables["field_comparisons"] = ComparisonOf(b)

\* What a committed run claims was earned: an official one has every reviewer's
\* acceptance, and supports the claim exactly if Waymax selected enough scenes and
\* IDM responded in enough scenes of the sealed evaluation; a data_free run never
\* claims anything.
ReleaseIsEarned ==
  phase \in {"committed", "success"} =>
    /\ mode = "official" =>
         LET b == tables["scalars"]
             selected == Selected(Facts[b.source].qualified)
         IN /\ \A role \in Roles : tables["decisions"][role] = "accept"
            /\ tables["claim"] = "supported" <=>
                 /\ Cardinality(selected) >= MinSelected
                 /\ Cardinality(Facts[b.numpy].first) >= ClaimFloor
    /\ mode = "data_free" => tables["claim"] = "blocked"

\* After the request for a review nothing but the reviewers or an accident
\* decides: what was verified before the review is never refused after it for what
\* was there before, although the finalizer knows only the files.
ReviewsDecide ==
  mode = "official" /\ Sealed("decisions") /\ phase = "failure" =>
    \/ cause = "raised"
    \/ cause = "rejected" /\ ~AllAccept(tables["decisions"])
=============================================================================
