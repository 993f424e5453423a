----------------------------- MODULE M6EvidenceProofs -----------------------------
(***************************************************************************)
(* Proofs about M6Evidence, for every population, every set of evaluations *)
(* and gates and every caller: what is sealed for review is one evaluation,*)
(* what is released was earned, and after the request only the reviewers   *)
(* decide.                                                                 *)
(***************************************************************************)
EXTENDS M6Evidence, FiniteSetTheorems, TLAPS

-----------------------------------------------------------------------------
(* The inductive invariant *)

Modes == {"eligibility_only", "compute_pilot", "official", "data_free"}

TypeOK ==
  /\ mode \in Modes /\ hand \in Hands /\ phase \in Phases
  /\ cause \in {"none", "refused", "raised", "rejected", "blocked"}
  /\ tables = [a \in DOMAIN tables |-> tables[a]]
  /\ live = [selection |-> live.selection, bundle |-> live.bundle]
  /\ live.bundle \in BundlesAtHand \union {NoBundle}

\* All Waymax tables are of the bundle that the writer holds, and what is derived
\* from the selection is derived from the sealed one.
OneBundle ==
  /\ phase = "pending" /\ mode = "official" =>
       \A a \in {"scalars", "numpy_comparisons"} \intersect DOMAIN tables :
         tables[a] = live.bundle /\ live.bundle # NoBundle
  /\ Sealed("field_comparisons") \/ Sealed("waymax_determinism") => Sealed("qualification")
  /\ Sealed("field_comparisons") => tables["field_comparisons"] = ComparisonOf(NoBundle)
  /\ Sealed("waymax_determinism") =>
       tables["waymax_determinism"] = RepeatStatus(tables["qualification"])

\* What mechanical verification has found out, and without the bundle it was found
\* with: the NumPy tables and the selection are those of the sealed scalars.
NumpyIsOf(b) ==
  LET fact == Facts[b.numpy]
  IN /\ tables["eligibility"] = EligibilityOf(b.numpy)
     /\ tables["primary"] = fact.first /\ tables["repeat"] = fact.second
     /\ tables["secondary"] = fact.later
     /\ tables["observations"] = fact.violated

OneEvaluation ==
  LET b == tables["scalars"]
  IN /\ b \in BundlesAtHand /\ NumpyIsOf(b)
     /\ tables["numpy_comparisons"] = b
     /\ tables["qualification"] = QualificationOf(b.source)

Findings ==
  /\ mode = "official" /\ Precursor \subseteq DOMAIN tables
  /\ GatesAreGood /\ TablesReproduce /\ OneEvaluation

Verified == Sealed("request") => Findings /\ tables["request"] = Catalog

\* How far a run under review has got: what it holds, and that the writer has nothing
\* but the files.
UnderReview ==
  DOMAIN tables \in
    {Precursor \union {"request"} \union more :
       more \in {{}, {"decisions"}, {"decisions", "summary"}}}

Stages ==
  /\ mode = "official" /\ (Sealed("decisions") \/ Sealed("summary")) =>
       phase # "pending" /\ Sealed("request")
  /\ phase \in {"sealed", "awaiting_review"} =>
       mode = "official" /\ UnderReview /\ live = NoLive
  /\ phase = "sealed" => ~Sealed("decisions")
  /\ phase = "awaiting_review" /\ Sealed("decisions") =>
       tables["decisions"] \in Decisions
  /\ phase = "awaiting_review" /\ Sealed("summary") =>
       tables["summary"] = SummaryOf(tables)

\* What a committed run was committed with.
Concluded ==
  phase \in {"committed", "success"} =>
    /\ mode = "official" => Sealed("request") /\ AllAccept(tables["decisions"])
    /\ mode = "data_free" => tables["claim"] = "blocked"

EvidenceInv ==
  TypeOK /\ OneBundle /\ Verified /\ Stages /\ Concluded /\ ReviewsDecide

LEMMA EvidenceInit == Init => EvidenceInv
BY DEF Init, EvidenceInv, TypeOK, OneBundle, Verified, Stages, Concluded, ReviewsDecide,
       Modes, Phases, NoLive, Sealed

-----------------------------------------------------------------------------
(* What is sealed stays *)

Kept == \A a \in DOMAIN tables : a \in DOMAIN tables' /\ tables'[a] = tables[a]

LEMMA WritesEffect ==
  ASSUME TypeOK, NEW accepted, NEW new, Writes(accepted, new)
  PROVE  /\ UNCHANGED <<mode, hand>>
         /\ \/ /\ accepted /\ UNCHANGED <<phase, cause>> /\ Kept
               /\ DOMAIN new \intersect DOMAIN tables = {}
               /\ DOMAIN tables' = DOMAIN tables \union DOMAIN new
               /\ \A a \in DOMAIN new : tables'[a] = new[a]
               /\ tables' = [a \in DOMAIN tables' |-> tables'[a]]
            \/ /\ ~(accepted /\ DOMAIN new \intersect DOMAIN tables = {})
               /\ Fails("refused")
<1>1. CASE accepted /\ DOMAIN new \intersect DOMAIN tables = {}
  BY <1>1 DEF Writes, Extended, Kept
<1>2. CASE ~(accepted /\ DOMAIN new \intersect DOMAIN tables = {})
  BY <1>2 DEF Writes, Fails
<1> QED
  BY <1>1, <1>2

\* All artifacts that mechanical verification looks at are sealed before it.
LEMMA FindingsStay ==
  ASSUME Findings, Kept, UNCHANGED <<mode, hand>>
  PROVE  Findings' /\ Catalog' = Catalog
<1> DEFINE Read == Opening \union Evidence
<1>1. /\ mode = "official" /\ Precursor = Read /\ Precursor' = Read
      /\ \A a \in Read : a \in DOMAIN tables /\ a \in DOMAIN tables' /\ tables'[a] = tables[a]
  BY DEF Findings, Precursor, Complete, Kept
<1>2. Precursor' \subseteq DOMAIN tables' /\ Catalog' = Catalog
  BY <1>1 DEF Catalog
<1>3. \A b : NumpyIsOf(b)' = NumpyIsOf(b)
  BY <1>1 DEF NumpyIsOf, EligibilityOf, Evidence, Opening
<1>4. OneEvaluation'
  <2>1. /\ tables'["scalars"] = tables["scalars"]
        /\ tables'["numpy_comparisons"] = tables["numpy_comparisons"]
        /\ tables'["qualification"] = tables["qualification"]
    BY <1>1 DEF Evidence, Opening
  <2>2. BundlesAtHand' = BundlesAtHand
    BY DEF BundlesAtHand, EligibilityOf
  <2> QED
    BY <1>3, <2>1, <2>2 DEF Findings, OneEvaluation, QualificationOf
<1>5. GatesAreGood'
  <2>1. /\ tables'["gates"] = tables["gates"] /\ tables'["observations"] = tables["observations"]
        /\ tables'["eligibility"] = tables["eligibility"]
    BY <1>1 DEF Evidence, Opening
  <2> QED
    BY <2>1 DEF Findings, GatesAreGood, GatesReproduce, NoGateFailed
<1>6. TablesReproduce'
  <2>1. PassesAgree(tables)' /\ MatricesReproduce'
    BY <1>1 DEF Findings, TablesReproduce, PassesAgree, MatricesReproduce, Evidence, Opening
  <2>2. WaymaxReproduces'
    BY <1>1 DEF Findings, TablesReproduce, WaymaxReproduces, ScalarsFit, ComparisonsFit,
       AccountingFrom, EligibilityOf, Evidence, Opening
  <2>3. /\ DeterminismOf' = DeterminismOf /\ ClaimStatus(tables)' = ClaimStatus(tables)
        /\ tables'["determinism"] = tables["determinism"]
        /\ tables'["claim"] = tables["claim"]
    BY <1>1 DEF DeterminismOf, ClaimStatus, WaymaxStatus, Evidence, Opening
  <2> QED
    BY <2>1, <2>2, <2>3 DEF Findings, TablesReproduce
<1> QED
  BY <1>1, <1>2, <1>4, <1>5, <1>6 DEF Findings

LEMMA VerifiedStays ==
  ASSUME Verified, Kept, UNCHANGED <<mode, hand>>, Sealed("request")
  PROVE  Verified'
BY FindingsStay DEF Verified, Kept, Sealed

\* A run that fails keeps what it holds.
LEMMA FailureKeeps ==
  ASSUME EvidenceInv, NEW why \in {"refused", "raised", "rejected", "blocked"}, Fails(why),
         live' = [selection |-> live'.selection, bundle |-> live'.bundle],
         live'.bundle \in BundlesAtHand \union {NoBundle},
         mode = "official" /\ Sealed("decisions") =>
           why = "raised" \/ (why = "rejected" /\ ~AllAccept(tables["decisions"]))
  PROVE  EvidenceInv'
<1> USE DEF Fails
<1>1. TypeOK'
  BY DEF EvidenceInv, TypeOK, Phases, BundlesAtHand, EligibilityOf
<1>2. OneBundle'
  BY DEF EvidenceInv, OneBundle, Sealed, ComparisonOf
<1>3. Verified'
  <2>1. Kept
    BY DEF Kept
  <2> QED
    BY <2>1, VerifiedStays DEF EvidenceInv, Verified, Sealed
<1>4. Stages' /\ Concluded'
  BY DEF EvidenceInv, Stages, Concluded, Sealed
<1>5. ReviewsDecide'
  BY DEF ReviewsDecide, Sealed
<1> QED
  BY <1>1, <1>2, <1>3, <1>4, <1>5 DEF EvidenceInv

-----------------------------------------------------------------------------
(* The writers before the review *)

\* One more artifact of the precursor, or a refusal. Nothing is known yet that it
\* could spoil, except that the Waymax tables are of one bundle.
LEMMA WriterKeeps ==
  ASSUME EvidenceInv, InPending, NEW accepted, NEW new, Writes(accepted, new),
         DOMAIN new \intersect {"request", "decisions", "summary"} = {},
         live' = [selection |-> live'.selection, bundle |-> live'.bundle],
         live'.bundle \in BundlesAtHand \union {NoBundle},
         accepted => OneBundle'
  PROVE  EvidenceInv'
<1> USE DEF InPending
<1>1. CASE Fails("refused")
  BY <1>1, FailureKeeps DEF EvidenceInv, Stages
<1>2. CASE ~Fails("refused")
  <2>1. /\ UNCHANGED <<mode, hand, phase, cause>> /\ accepted /\ Kept
        /\ DOMAIN tables' = DOMAIN tables \union DOMAIN new
        /\ tables' = [a \in DOMAIN tables' |-> tables'[a]]
    BY <1>2, WritesEffect DEF EvidenceInv
  <2>2. \A a \in {"request", "decisions", "summary"} : Sealed(a)' <=> Sealed(a)
    BY <2>1 DEF Sealed
  <2>3. TypeOK'
    BY <2>1 DEF EvidenceInv, TypeOK, BundlesAtHand, EligibilityOf
  <2>4. Verified'
    <3>1. CASE Sealed("request")
      BY <2>1, <3>1, VerifiedStays DEF EvidenceInv
    <3>2. CASE ~Sealed("request")
      BY <2>2, <3>2 DEF Verified
    <3> QED
      BY <3>1, <3>2
  <2>5. Stages' /\ Concluded' /\ ReviewsDecide'
    BY <2>1, <2>2 DEF EvidenceInv, Stages, Concluded, ReviewsDecide
  <2> QED
    BY <2>1, <2>3, <2>4, <2>5 DEF EvidenceInv
<1> QED
  BY <1>1, <1>2

\* An artifact that has nothing to do with Waymax.
LEMMA OtherKeeps ==
  ASSUME EvidenceInv, InPending, NEW accepted, NEW new, Writes(accepted, new),
         DOMAIN new \intersect {"request", "decisions", "summary", "scalars",
           "numpy_comparisons", "field_comparisons", "waymax_determinism"} = {},
         live' = [selection |-> live'.selection, bundle |-> live.bundle]
  PROVE  EvidenceInv'
<1>1. live'.bundle = live.bundle /\ live.bundle \in BundlesAtHand \union {NoBundle}
  BY DEF EvidenceInv, TypeOK
<1>2. OneBundle'
  <2>1. CASE Fails("refused")
    BY <2>1 DEF EvidenceInv, OneBundle, Fails, Sealed, ComparisonOf
  <2>2. CASE ~Fails("refused")
    <3>1. /\ UNCHANGED <<mode, phase>> /\ Kept
          /\ DOMAIN tables' = DOMAIN tables \union DOMAIN new
      BY <2>2, WritesEffect DEF EvidenceInv
    <3>2. \A a \in {"scalars", "numpy_comparisons", "field_comparisons", "waymax_determinism"} :
            /\ Sealed(a)' <=> Sealed(a)
            /\ Sealed(a) => tables'[a] = tables[a]
      BY <3>1 DEF Sealed, Kept
    <3>3. Sealed("qualification") =>
            Sealed("qualification")' /\ tables'["qualification"] = tables["qualification"]
      BY <3>1 DEF Sealed, Kept
    <3> QED
      BY <1>1, <3>1, <3>2, <3>3 DEF EvidenceInv, OneBundle, Sealed, ComparisonOf, RepeatStatus
  <2> QED
    BY <2>1, <2>2
<1> QED
  BY <1>1, <1>2, WriterKeeps

LEMMA PlainIsWhole ==
  ASSUME EvidenceInv, Plain
  PROVE  live' = [selection |-> live'.selection, bundle |-> live.bundle]
BY DEF EvidenceInv, TypeOK, Plain

LEMMA RowsKeep ==
  ASSUME EvidenceInv, NEW e \in hand, WriteRows(e)
  PROVE  EvidenceInv'
<1>1. CASE WriteEligibility(e)
  BY <1>1, OtherKeeps, PlainIsWhole DEF WriteEligibility
<1>2. CASE WriteQualification(e)
  <2>1. live' = [selection |-> live'.selection, bundle |-> live.bundle]
    BY <1>2 DEF WriteQualification, EvidenceInv, TypeOK
  <2> QED
    BY <1>2, <2>1, OtherKeeps DEF WriteQualification
<1>3. ASSUME NEW passed \in BOOLEAN, WritePilotSummary(e, passed) PROVE EvidenceInv'
  BY <1>3, OtherKeeps, PlainIsWhole DEF WritePilotSummary
<1>4. CASE WritePrimary(e)
  BY <1>4, OtherKeeps, PlainIsWhole DEF WritePrimary
<1>5. CASE WriteRepeat(e)
  BY <1>5, OtherKeeps, PlainIsWhole DEF WriteRepeat
<1>6. CASE WriteSecondary(e)
  BY <1>6, OtherKeeps, PlainIsWhole DEF WriteSecondary
<1>7. CASE WriteObservations(e)
  BY <1>7, OtherKeeps, PlainIsWhole DEF WriteObservations
<1> QED
  BY <1>1, <1>2, <1>3, <1>4, <1>5, <1>6, <1>7 DEF WriteRows

LEMMA DerivedKeep ==
  ASSUME EvidenceInv, Derive
  PROVE  EvidenceInv'
<1>1. CASE WritePrimaryMatrix
  BY <1>1, OtherKeeps, PlainIsWhole DEF WritePrimaryMatrix
<1>2. CASE WriteRepeatMatrix
  BY <1>2, OtherKeeps, PlainIsWhole DEF WriteRepeatMatrix
<1>3. CASE WriteSecondaryMatrix
  BY <1>3, OtherKeeps, PlainIsWhole DEF WriteSecondaryMatrix
<1>4. CASE WriteAccounting
  BY <1>4, OtherKeeps, PlainIsWhole DEF WriteAccounting
<1>5. CASE WriteProvenance
  BY <1>5, OtherKeeps, PlainIsWhole DEF WriteProvenance
<1>6. CASE WriteStageTimings
  BY <1>6, OtherKeeps, PlainIsWhole DEF WriteStageTimings
<1>7. CASE WriteDeterminismReceipt
  BY <1>7, OtherKeeps, PlainIsWhole DEF WriteDeterminismReceipt
<1>8. CASE WriteClaim
  BY <1>8, OtherKeeps, PlainIsWhole DEF WriteClaim
<1> QED
  BY <1>1, <1>2, <1>3, <1>4, <1>5, <1>6, <1>7, <1>8 DEF Derive

\* One of the four Waymax tables, of the bundle b.
LEMMA WaymaxKeeps ==
  ASSUME EvidenceInv, NEW b \in BundlesAtHand \union {NoBundle}, NEW fits, NEW new,
         NEW a \in {"scalars", "numpy_comparisons", "field_comparisons",
                    "waymax_determinism"},
         DOMAIN new = {a}, WriteWaymax(b, fits, new),
         a \in {"scalars", "numpy_comparisons"} => new[a] = b,
         a = "field_comparisons" => new[a] = ComparisonOf(b),
         a = "waymax_determinism" => new[a] = RepeatStatus(tables["qualification"])
  PROVE  EvidenceInv'
<1> DEFINE accepted == Ready({"qualification"}) /\ Binds(b) /\ fits
<1>1. Writes(accepted, new) /\ InPending
  BY DEF WriteWaymax
<1>2. /\ live' = [selection |-> live'.selection, bundle |-> live'.bundle]
      /\ live'.bundle \in BundlesAtHand \union {NoBundle}
      /\ accepted => live'.bundle = b
  BY DEF WriteWaymax, EvidenceInv, TypeOK
<1>3. ASSUME accepted PROVE OneBundle'
  <2>1. CASE Fails("refused")
    BY <2>1 DEF EvidenceInv, OneBundle, Fails, Sealed, ComparisonOf
  <2>2. CASE ~Fails("refused")
    <3>1. /\ UNCHANGED <<mode, phase>> /\ Kept /\ a \notin DOMAIN tables
          /\ DOMAIN tables' = DOMAIN tables \union {a} /\ tables'[a] = new[a]
      BY <1>1, <2>2, WritesEffect DEF EvidenceInv
    <3>2. /\ Sealed("qualification") /\ Sealed("qualification")'
          /\ tables'["qualification"] = tables["qualification"]
      BY <1>3, <3>1 DEF Ready, Sealed, Kept
    <3>3. \A c \in {"scalars", "numpy_comparisons"} \intersect DOMAIN tables' :
            mode = "official" => tables'[c] = live'.bundle /\ live'.bundle # NoBundle
      <4>1. mode = "official" => b # NoBundle /\ live.bundle \in {NoBundle, b}
        BY <1>3 DEF Binds
      <4>2. \A c \in {"scalars", "numpy_comparisons"} \intersect DOMAIN tables :
              mode = "official" => tables'[c] = b
        BY <1>1, <3>1, <4>1 DEF EvidenceInv, OneBundle, InPending, Kept
      <4> QED
        BY <1>2, <1>3, <3>1, <4>1, <4>2
    <3>4. Sealed("field_comparisons")' => tables'["field_comparisons"] = ComparisonOf(NoBundle)'
      BY <3>1, <3>2 DEF EvidenceInv, OneBundle, Sealed, Kept, ComparisonOf
    <3>5. Sealed("waymax_determinism")' =>
            tables'["waymax_determinism"] = RepeatStatus(tables["qualification"])'
      BY <3>1, <3>2 DEF EvidenceInv, OneBundle, Sealed, Kept, RepeatStatus
    <3> QED
      BY <3>1, <3>2, <3>3, <3>4, <3>5 DEF OneBundle
  <2> QED
    BY <2>1, <2>2
<1> QED
  BY <1>1, <1>2, <1>3, WriterKeeps

LEMMA BundleKeeps ==
  ASSUME EvidenceInv, NEW b \in BundlesAtHand \union {NoBundle}, WriteBundle(b)
  PROVE  EvidenceInv'
<1>1. CASE WriteScalars(b)
  BY <1>1, WaymaxKeeps DEF WriteScalars
<1>2. CASE WriteNumpyComparisons(b)
  BY <1>2, WaymaxKeeps DEF WriteNumpyComparisons
<1>3. CASE WriteFieldComparisons(b)
  BY <1>3, WaymaxKeeps DEF WriteFieldComparisons
<1>4. CASE WriteWaymaxDeterminism(b)
  BY <1>4, WaymaxKeeps DEF WriteWaymaxDeterminism
<1> QED
  BY <1>1, <1>2, <1>3, <1>4 DEF WriteBundle

-----------------------------------------------------------------------------
(* From the request to the verdict *)

\* Verification is of the bundle that the writer holds, and so are the sealed tables.
LEMMA VerificationFinds ==
  ASSUME EvidenceInv, InPending, mode = "official", MechanicallyVerified
  PROVE  Findings
<1>1. /\ "scalars" \in DOMAIN tables /\ "numpy_comparisons" \in DOMAIN tables
      /\ Precursor \subseteq DOMAIN tables
  BY DEF MechanicallyVerified, Precursor, Complete, Evidence
<1>2. /\ live.bundle \in BundlesAtHand /\ tables["scalars"] = live.bundle
      /\ tables["numpy_comparisons"] = live.bundle
  BY <1>1 DEF EvidenceInv, OneBundle, TypeOK, InPending, MechanicallyVerified
<1>3. OneEvaluation
  BY <1>2 DEF OneEvaluation, NumpyIsOf, NumpyIsOfBundle, MechanicallyVerified
<1> QED
  BY <1>1, <1>3 DEF Findings, MechanicallyVerified

LEMMA RequestKeeps ==
  ASSUME EvidenceInv, WriteMechanicalVerification
  PROVE  EvidenceInv'
<1> DEFINE accepted == mode = "official" /\ MechanicallyVerified
           new      == [request |-> Catalog]
<1>1. /\ InPending /\ Plain /\ Writes(accepted, new)
      /\ DOMAIN new = {"request"} /\ new["request"] = Catalog
      /\ accepted <=> mode = "official" /\ MechanicallyVerified
  BY DEF WriteMechanicalVerification
<1> HIDE DEF accepted, new
<1>a. /\ live' = [selection |-> live'.selection, bundle |-> live'.bundle]
      /\ live' = live /\ live'.bundle \in BundlesAtHand \union {NoBundle}
  BY <1>1 DEF EvidenceInv, TypeOK, Plain
<1>2. CASE Fails("refused")
  BY <1>1, <1>2, <1>a, FailureKeeps DEF EvidenceInv, Stages, InPending
<1>3. CASE ~Fails("refused")
  <2>1. /\ UNCHANGED <<mode, hand, phase, cause>> /\ accepted /\ Kept
        /\ DOMAIN tables' = DOMAIN tables \union {"request"}
        /\ tables'["request"] = Catalog /\ "request" \notin DOMAIN tables
        /\ tables' = [a \in DOMAIN tables' |-> tables'[a]]
    BY <1>1, <1>3, WritesEffect DEF EvidenceInv
  <2>2. TypeOK'
    BY <1>a, <2>1 DEF EvidenceInv, TypeOK, BundlesAtHand, EligibilityOf
  <2>3. Verified'
    BY <1>1, <2>1, VerificationFinds, FindingsStay DEF Verified
  <2>4. OneBundle'
    <3>1. \A a \in {"scalars", "numpy_comparisons", "field_comparisons",
                    "waymax_determinism", "qualification"} :
            (Sealed(a)' <=> Sealed(a)) /\ (Sealed(a) => tables'[a] = tables[a])
      BY <2>1 DEF Sealed, Kept
    <3> QED
      BY <1>a, <2>1, <3>1 DEF EvidenceInv, OneBundle, Sealed, ComparisonOf, RepeatStatus
  <2>5. Stages' /\ Concluded' /\ ReviewsDecide'
    BY <1>1, <2>1 DEF EvidenceInv, Stages, Concluded, ReviewsDecide, Sealed, InPending
  <2> QED
    BY <2>2, <2>3, <2>4, <2>5 DEF EvidenceInv
<1> QED
  BY <1>2, <1>3

\* A data_free run writes what stands for a review.
LEMMA AbsenceKeeps ==
  ASSUME EvidenceInv, InPending, Plain, NEW accepted, NEW new, Writes(accepted, new),
         accepted => mode = "data_free", DOMAIN new \subseteq {"decisions", "summary"}
  PROVE  EvidenceInv'
<1>a. /\ live' = [selection |-> live'.selection, bundle |-> live'.bundle]
      /\ live' = live /\ live'.bundle \in BundlesAtHand \union {NoBundle}
  BY DEF EvidenceInv, TypeOK, Plain
<1>2. CASE Fails("refused")
  BY <1>2, <1>a, FailureKeeps DEF EvidenceInv, Stages, InPending
<1>3. CASE ~Fails("refused")
  <2>1. /\ UNCHANGED <<mode, hand, phase, cause>> /\ mode = "data_free" /\ Kept
        /\ DOMAIN tables' = DOMAIN tables \union DOMAIN new
        /\ tables' = [a \in DOMAIN tables' |-> tables'[a]]
    BY <1>3, WritesEffect DEF EvidenceInv
  <2>2. TypeOK'
    BY <1>a, <2>1 DEF EvidenceInv, TypeOK, BundlesAtHand, EligibilityOf
  <2>3. Verified'
    BY <2>1 DEF EvidenceInv, Verified, Findings, Sealed
  <2>4. OneBundle'
    <3>1. \A a \in {"field_comparisons", "waymax_determinism", "qualification"} :
            (Sealed(a)' <=> Sealed(a)) /\ (Sealed(a) => tables'[a] = tables[a])
      BY <2>1 DEF Sealed, Kept
    <3> QED
      BY <1>a, <2>1, <3>1 DEF EvidenceInv, OneBundle, Sealed, ComparisonOf, RepeatStatus
  <2>5. Stages' /\ Concluded' /\ ReviewsDecide'
    BY <2>1 DEF EvidenceInv, Stages, Concluded, ReviewsDecide, InPending
  <2> QED
    BY <2>2, <2>3, <2>4, <2>5 DEF EvidenceInv
<1> QED
  BY <1>2, <1>3, WritesEffect

\* The writer that failed or left live alone holds a bundle of the caller's, or none.
LEMMA PlainIsTyped ==
  ASSUME EvidenceInv, Plain
  PROVE  /\ live' = [selection |-> live'.selection, bundle |-> live'.bundle]
         /\ live'.bundle \in BundlesAtHand \union {NoBundle}
BY DEF EvidenceInv, TypeOK, Plain

LEMMA SealKeeps ==
  ASSUME EvidenceInv, SealAwaitingReview
  PROVE  EvidenceInv'
<1> USE DEF SealAwaitingReview, InPending
<1>1. Sealed("request") /\ DOMAIN tables = Precursor \union {"request"}
      /\ ~Sealed("decisions") /\ ~Sealed("summary")
  BY DEF AwaitsReview, Sealed, Precursor, Opening, Evidence, Complete
<1>2. TypeOK'
  BY DEF EvidenceInv, TypeOK, Phases, NoLive, NoBundle
<1>3. OneBundle'
  BY DEF EvidenceInv, OneBundle, Sealed, ComparisonOf
<1>4. Verified'
  BY <1>1, VerifiedStays DEF EvidenceInv, Kept
<1>5. UnderReview' /\ (Sealed("request") /\ ~Sealed("decisions") /\ ~Sealed("summary"))'
  BY <1>1 DEF UnderReview, Precursor, Complete, Sealed
<1>6. Stages' /\ Concluded' /\ ReviewsDecide'
  BY <1>5 DEF Stages, Concluded, ReviewsDecide
<1> QED
  BY <1>2, <1>3, <1>4, <1>6 DEF EvidenceInv

LEMMA AdoptKeeps ==
  ASSUME EvidenceInv, AdoptAwaitingReview
  PROVE  EvidenceInv'
<1> USE DEF AdoptAwaitingReview
<1>1. Sealed("request") /\ DOMAIN tables = Precursor \union {"request"}
      /\ ~Sealed("decisions") /\ ~Sealed("summary")
  BY DEF AwaitsReview, Sealed, Precursor, Opening, Evidence, Complete
<1>2. TypeOK'
  BY DEF EvidenceInv, TypeOK, Phases, BundlesAtHand, EligibilityOf
<1>3. OneBundle'
  BY DEF EvidenceInv, OneBundle, Sealed, ComparisonOf
<1>4. Verified'
  BY <1>1, VerifiedStays DEF EvidenceInv, Kept
<1>5. UnderReview' /\ (Sealed("request") /\ ~Sealed("decisions") /\ ~Sealed("summary"))'
  BY <1>1 DEF UnderReview, Precursor, Complete, Sealed
<1>6. mode' = "official" /\ live' = NoLive
  BY DEF EvidenceInv, Stages
<1>7. Stages' /\ Concluded' /\ ReviewsDecide'
  BY <1>5, <1>6 DEF Stages, Concluded, ReviewsDecide
<1> QED
  BY <1>2, <1>3, <1>4, <1>7 DEF EvidenceInv

\* What a writer of the finalizer adds leaves the rest as it was.
LEMMA FinalizerAdds ==
  ASSUME EvidenceInv, phase = "awaiting_review", Plain, UNCHANGED <<mode, hand, phase, cause>>,
         Kept, tables' = [a \in DOMAIN tables' |-> tables'[a]], Sealed("request"),
         \A a \in {"field_comparisons", "waymax_determinism", "qualification"} :
           Sealed(a)' <=> Sealed(a)
  PROVE  TypeOK' /\ OneBundle' /\ Verified' /\ Concluded' /\ ReviewsDecide'
<1>1. TypeOK'
  BY DEF EvidenceInv, TypeOK, BundlesAtHand, EligibilityOf, Plain
<1>2. OneBundle'
  <2>1. \A a \in {"field_comparisons", "waymax_determinism", "qualification"} :
          (Sealed(a)' <=> Sealed(a)) /\ (Sealed(a) => tables'[a] = tables[a])
    BY DEF Sealed, Kept
  <2> QED
    BY <2>1 DEF EvidenceInv, OneBundle, ComparisonOf, RepeatStatus
<1>3. Verified'
  BY VerifiedStays DEF EvidenceInv
<1> QED
  BY <1>1, <1>2, <1>3 DEF Concluded, ReviewsDecide

LEMMA DecisionsKeep ==
  ASSUME EvidenceInv, NEW decisions \in Decisions, WriteReviewDecisions(decisions)
  PROVE  EvidenceInv'
<1> DEFINE new == [decisions |-> decisions]
<1>1. /\ phase = "awaiting_review" /\ ~Sealed("decisions") /\ Plain
      /\ Writes(AwaitsReview, new) /\ DOMAIN new = {"decisions"}
      /\ new["decisions"] = decisions
  BY DEF WriteReviewDecisions
<1> HIDE DEF new
<1>2. CASE Fails("refused")
  BY <1>1, <1>2, PlainIsTyped, FailureKeeps
<1>3. CASE ~Fails("refused")
  <2>1. /\ UNCHANGED <<mode, hand, phase, cause>> /\ AwaitsReview /\ Kept
        /\ DOMAIN tables' = DOMAIN tables \union {"decisions"}
        /\ tables'["decisions"] = decisions
        /\ tables' = [a \in DOMAIN tables' |-> tables'[a]]
    BY <1>1, <1>3, WritesEffect DEF EvidenceInv
  <2>2. Sealed("request") /\ DOMAIN tables = Precursor \union {"request"} /\ ~Sealed("summary")
    BY <2>1 DEF AwaitsReview, Sealed, Precursor, Opening, Evidence, Complete
  <2>3. TypeOK' /\ OneBundle' /\ Verified' /\ Concluded' /\ ReviewsDecide'
    BY <1>1, <2>1, <2>2, FinalizerAdds DEF Sealed
  <2>4. UnderReview'
    BY <2>1, <2>2 DEF UnderReview, Precursor, Complete
  <2>5. mode' = "official" /\ live' = NoLive /\ Sealed("request")' /\ ~Sealed("summary")'
        /\ phase' = "awaiting_review" /\ tables'["decisions"] \in Decisions'
    BY <1>1, <2>1, <2>2 DEF EvidenceInv, Stages, Plain, Sealed, Decisions
  <2>6. Stages'
    BY <2>4, <2>5 DEF Stages
  <2> QED
    BY <2>3, <2>6 DEF EvidenceInv
<1> QED
  BY <1>2, <1>3

\* The summary is of the tables that it stands beside.
LEMMA SummaryStays ==
  ASSUME Sealed("decisions"), Findings, Kept, UNCHANGED <<mode, hand>>
  PROVE  SummaryOf(tables)' = SummaryOf(tables)
<1> DEFINE Read == Opening \union Evidence \union {"decisions"}
<1>1. \A a \in Read : tables'[a] = tables[a]
  BY DEF Findings, Precursor, Complete, Kept, Sealed
<1>2. WaymaxStatus(tables)' = WaymaxStatus(tables)
  BY <1>1 DEF WaymaxStatus, Evidence, Opening
<1>3. ClaimStatus(tables)' = ClaimStatus(tables)
  BY <1>1, <1>2 DEF ClaimStatus, Evidence
<1>4. Deterministic(tables)' <=> Deterministic(tables)
  BY <1>1 DEF Deterministic, PassesAgree, Evidence
<1>5. Releases(tables)' <=> Releases(tables)
  <2>1. tables'["gates"] = tables["gates"] /\ tables'["decisions"] = tables["decisions"]
    BY <1>1 DEF Evidence
  <2> QED
    BY <1>2, <1>4, <2>1 DEF Releases
<1> QED
  BY <1>2, <1>3, <1>4, <1>5 DEF SummaryOf

\* What was verified did repeat itself, and no Waymax table says otherwise.
LEMMA VerifiedRepeats ==
  ASSUME OneBundle, Findings
  PROVE  Deterministic(tables)
<1>1. tables["determinism"].waymax = tables["waymax_determinism"] /\ PassesAgree(tables)
  BY DEF Findings, TablesReproduce, DeterminismOf
<1>2. Sealed("waymax_determinism")
  BY DEF Findings, Precursor, Complete, Evidence, Sealed
<1>3. tables["waymax_determinism"] # "failed"
  BY <1>2 DEF OneBundle, RepeatStatus
<1> QED
  BY <1>1, <1>3 DEF Deterministic

\* The finalizer never refuses its own summary: its tables are complete.
LEMMA SummaryKeeps ==
  ASSUME EvidenceInv, WriteExecutionSummary
  PROVE  EvidenceInv'
<1> DEFINE new      == [summary |-> SummaryOf(tables)]
           accepted == /\ mode = IF phase = "pending" THEN "data_free" ELSE "official"
                       /\ DOMAIN tables = Expected \ {"summary"}
                       /\ SummaryHolds(SummaryOf(tables))
<1>1. /\ Plain /\ Writes(accepted, new) /\ DOMAIN new = {"summary"}
      /\ new["summary"] = SummaryOf(tables)
  BY DEF WriteExecutionSummary
<1>2. CASE InPending
  <2>1. accepted => mode = "data_free"
    BY <1>2 DEF InPending
  <2> HIDE DEF accepted, new
  <2> QED
    BY <1>1, <1>2, <2>1, AbsenceKeeps
<1>3. CASE ~InPending
  <2>1. phase = "awaiting_review" /\ Sealed("decisions") /\ ~Sealed("summary")
    BY <1>3 DEF WriteExecutionSummary
  <2>2. mode = "official" /\ UnderReview /\ live = NoLive
    BY <2>1 DEF EvidenceInv, Stages
  <2>3. DOMAIN tables = Precursor \union {"request", "decisions"} /\ Sealed("request")
    <3>1. "decisions" \notin Precursor
      BY DEF Precursor, Opening, Evidence, Complete
    <3> QED
      BY <2>1, <2>2, <3>1 DEF UnderReview, Sealed
  <2>4. accepted
    <3>1. "summary" \notin Precursor
      BY DEF Precursor, Opening, Evidence, Complete
    <3>2. Deterministic(tables)
      BY <2>3, VerifiedRepeats DEF EvidenceInv, Verified
    <3>3. SummaryHolds(SummaryOf(tables))
      BY <2>2, <3>2 DEF SummaryHolds, SummaryOf
    <3> QED
      BY <2>1, <2>2, <2>3, <3>1, <3>3 DEF Expected, Complete
  <2>5. /\ UNCHANGED <<mode, hand, phase, cause>> /\ Kept
        /\ DOMAIN tables' = DOMAIN tables \union {"summary"}
        /\ tables'["summary"] = SummaryOf(tables)
        /\ tables' = [a \in DOMAIN tables' |-> tables'[a]]
    <3> HIDE DEF accepted, new
    <3> QED
      BY <1>1, <2>1, <2>4, WritesEffect DEF EvidenceInv, Sealed
  <2>6. TypeOK' /\ OneBundle' /\ Verified' /\ Concluded' /\ ReviewsDecide'
    BY <1>1, <2>1, <2>3, <2>5, FinalizerAdds DEF Sealed
  <2>7. SummaryOf(tables)' = SummaryOf(tables)
    BY <2>1, <2>3, <2>5, SummaryStays DEF EvidenceInv, Verified
  <2>8. UnderReview'
    BY <2>2, <2>3, <2>5 DEF UnderReview, Precursor, Complete
  <2>9. /\ mode' = "official" /\ live' = NoLive /\ Sealed("request")' /\ phase' = "awaiting_review"
        /\ tables'["decisions"] \in Decisions' /\ tables'["summary"] = SummaryOf(tables)'
    BY <1>1, <2>1, <2>2, <2>3, <2>5, <2>7 DEF EvidenceInv, Stages, Plain, Sealed, Decisions, Kept
  <2>a. Stages'
    BY <2>8, <2>9 DEF Stages
  <2> QED
    BY <2>6, <2>a DEF EvidenceInv
<1> QED
  BY <1>2, <1>3

-----------------------------------------------------------------------------
(* What the sealed tables amount to *)

LEMMA SelectedIsFinite ==
  ASSUME EvidenceAssumption, NEW s \in Evaluations
  PROVE  Cardinality(Selected(Facts[s].qualified)) \in Nat
<1>1. Facts[s].qualified \subseteq Scenes /\ IsFiniteSet(Scenes)
  BY DEF EvidenceAssumption
<1>2. IsFiniteSet(Selected(Facts[s].qualified))
  BY <1>1, FS_Subset, FS_EmptySet DEF Selected
<1> QED
  BY <1>2, FS_CardinalityType

\* Waymax supports a claim exactly if enough scenes were selected: what would make it
\* fail never gets as far as a table.
LEMMA WaymaxEarned ==
  ASSUME EvidenceAssumption, EvidenceInv, Findings
  PROVE  LET n == Cardinality(Selected(Facts[tables["scalars"].source].qualified))
         IN WaymaxStatus(tables) = IF n >= MinSelected THEN "accepted" ELSE "unsupported"
<1> DEFINE b == tables["scalars"]
           selected == Selected(Facts[b.source].qualified)
<1>1. /\ mode = "official" /\ b.source \in Evaluations
      /\ tables["qualification"] = QualificationOf(b.source)
  BY DEF Findings, OneEvaluation, BundlesAtHand, EvidenceInv, TypeOK, EvidenceAssumption
<1>2. tables["qualification"].selected = selected
  BY <1>1 DEF QualificationOf
<1>3. /\ tables["accounting"].comparison = tables["field_comparisons"]
      /\ tables["determinism"].waymax = tables["waymax_determinism"]
  BY <1>2 DEF Findings, TablesReproduce, WaymaxReproduces, AccountingFrom, AccountingOf,
     DeterminismOf
<1>4. /\ tables["field_comparisons"] # "failed"
      /\ selected # {} => tables["waymax_determinism"] = "passed"
  <2>1. Sealed("field_comparisons") /\ Sealed("waymax_determinism")
    BY DEF Findings, Precursor, Complete, Evidence, Sealed
  <2> QED
    BY <1>2, <2>1 DEF EvidenceInv, OneBundle, ComparisonOf, RepeatStatus
<1>5. Cardinality(selected) \in Nat /\ MinSelected \in Nat \ {0}
  BY <1>1, SelectedIsFinite DEF EvidenceAssumption
<1> HIDE DEF selected
<1>6. Cardinality(selected) >= MinSelected => selected # {}
  <2>1. selected = {} => Cardinality(selected) = 0
    BY FS_EmptySet, Zenon
  <2>2. MinSelected \in Nat /\ MinSelected > 0
    BY <1>5
  <2>3. Cardinality(selected) = 0 => ~(Cardinality(selected) >= MinSelected)
    BY <2>2
  <2> QED
    BY <2>1, <2>3
<1>7. (Cardinality(selected) < MinSelected) <=> ~(Cardinality(selected) >= MinSelected)
  BY <1>5
<1> QED
  BY <1>2, <1>3, <1>4, <1>6, <1>7 DEF WaymaxStatus, selected, b

-----------------------------------------------------------------------------
(* The verdict *)

LEMMA CommitEnds ==
  ASSUME EvidenceInv, Plain, phase' = "committed", UNCHANGED <<mode, hand, cause, tables>>,
         mode = "official" => Sealed("request") /\ AllAccept(tables["decisions"]),
         mode = "data_free" => tables["claim"] = "blocked"
  PROVE  EvidenceInv'
<1>1. TypeOK'
  BY DEF EvidenceInv, TypeOK, Phases, BundlesAtHand, EligibilityOf, Plain
<1>2. OneBundle'
  BY DEF EvidenceInv, OneBundle, Sealed, ComparisonOf
<1>3. Verified'
  <2>1. Kept
    BY DEF Kept
  <2> QED
    BY <2>1, VerifiedStays DEF EvidenceInv, Verified, Sealed
<1>4. Stages' /\ Concluded' /\ ReviewsDecide'
  BY DEF Stages, Concluded, ReviewsDecide, Sealed, AllAccept
<1> QED
  BY <1>1, <1>2, <1>3, <1>4 DEF EvidenceInv

\* An official run cannot be committed by its writer: the reviewers come first.
LEMMA CommitKeeps ==
  ASSUME EvidenceInv, Commit
  PROVE  EvidenceInv'
<1>1. InPending /\ Plain /\ Commits
  BY DEF Commit
<1>2. mode = "official" => ~Sealed("decisions")
  BY <1>1 DEF EvidenceInv, Stages, InPending
<1>3. CASE Fails("refused")
  BY <1>1, <1>2, <1>3, PlainIsTyped, FailureKeeps
<1>4. CASE ~Fails("refused")
  <2>1. /\ DOMAIN tables = Expected /\ SemanticallyVerified
        /\ phase' = "committed" /\ UNCHANGED <<mode, hand, cause, tables>>
    BY <1>1, <1>4 DEF Commits
  <2>2. mode # "official"
    BY <1>2, <2>1 DEF Expected, Complete, Sealed
  <2>3. mode = "data_free" => tables["claim"] = "blocked"
    BY <2>1 DEF SemanticallyVerified, Complete, TablesReproduce, ClaimStatus
  <2> QED
    BY <1>1, <2>1, <2>2, <2>3, CommitEnds
<1> QED
  BY <1>3, <1>4

\* The finalizer's own verification finds nothing that the request did not rest on.
LEMMA VerifiedStands ==
  ASSUME EvidenceAssumption, EvidenceInv, phase = "awaiting_review", Sealed("summary"),
         AllAccept(tables["decisions"])
  PROVE  /\ tables["summary"].release = "accepted"
         /\ DOMAIN tables = Expected /\ SemanticallyVerified
<1>1. /\ mode = "official" /\ UnderReview /\ live = NoLive
      /\ tables["summary"] = SummaryOf(tables)
  BY DEF EvidenceInv, Stages
<1>2. DOMAIN tables = Expected /\ Sealed("request")
  <2>1. "summary" \notin Precursor
    BY DEF Precursor, Opening, Evidence, Complete
  <2> QED
    BY <1>1, <2>1 DEF UnderReview, Expected, Complete, Sealed
<1>3. Findings /\ tables["request"] = Catalog
  BY <1>2 DEF EvidenceInv, Verified
<1>4. tables["summary"].release = "accepted"
  <2>1. WaymaxStatus(tables) # "failed"
    BY <1>3, WaymaxEarned
  <2>2. Deterministic(tables)
    BY <1>3, VerifiedRepeats DEF EvidenceInv
  <2> QED
    BY <1>1, <1>3, <2>1, <2>2 DEF SummaryOf, Releases, Findings, GatesAreGood, NoGateFailed
<1>5. SelectionHolds
  <2> DEFINE b == tables["scalars"]
  <2>1. /\ tables["eligibility"] = EligibilityOf(b.source) /\ b.source \in Evaluations
        /\ tables["qualification"] = QualificationOf(b.source)
    BY <1>3 DEF Findings, OneEvaluation, NumpyIsOf, BundlesAtHand, EvidenceInv, TypeOK,
       EvidenceAssumption
  <2>2. Facts[b.source].qualified \subseteq Facts[b.source].eligible
    BY <2>1 DEF EvidenceAssumption
  <2>3. StoredSelectionHolds
    BY <1>1, <2>1, <2>2 DEF StoredSelectionHolds, EligibilityOf, QualificationOf
  <2> QED
    BY <1>1, <2>3 DEF SelectionHolds, NoLive
<1>6. SummaryReproduces /\ ReviewIsBound /\ ReleaseStands
  BY <1>1, <1>3, <1>4 DEF SummaryReproduces, ReviewIsBound, ReleaseStands, SummaryOf, Findings,
     TablesReproduce, GatesAreGood
<1> QED
  BY <1>1, <1>2, <1>3, <1>4, <1>5, <1>6 DEF SemanticallyVerified, Findings, GatesAreGood

LEMMA ConcludeKeeps ==
  ASSUME EvidenceAssumption, EvidenceInv, ConcludeReview
  PROVE  EvidenceInv'
<1>1. phase = "awaiting_review" /\ Sealed("summary") /\ Plain
  BY DEF ConcludeReview
<1>2. CASE ~AllAccept(tables["decisions"])
  <2>1. tables["summary"].release = "rejected"
    BY <1>1, <1>2 DEF EvidenceInv, Stages, SummaryOf, Releases
  <2>2. Fails("rejected")
    BY <1>2, <2>1 DEF ConcludeReview
  <2> QED
    BY <1>1, <1>2, <2>2, PlainIsTyped, FailureKeeps
<1>3. CASE AllAccept(tables["decisions"])
  <2>1. /\ tables["summary"].release = "accepted"
        /\ DOMAIN tables = Expected /\ SemanticallyVerified
    BY <1>1, <1>3, VerifiedStands
  <2>2. phase' = "committed" /\ UNCHANGED <<mode, hand, cause, tables>>
    BY <1>3, <2>1 DEF ConcludeReview, Commits
  <2>3. mode = "official" /\ Sealed("request")
    BY <1>1 DEF EvidenceInv, Stages
  <2> QED
    BY <1>1, <1>3, <2>2, <2>3, CommitEnds
<1> QED
  BY <1>2, <1>3

LEMMA TerminalKeeps ==
  ASSUME EvidenceInv, MarkTerminalSuccess
  PROVE  EvidenceInv'
<1>1. phase = "committed" /\ Plain
  BY DEF MarkTerminalSuccess
<1>2. CASE Fails("refused")
  <2>1. mode # "official"
    BY <1>2 DEF MarkTerminalSuccess, Fails
  <2> QED
    BY <1>1, <1>2, <2>1, PlainIsTyped, FailureKeeps
<1>3. CASE ~Fails("refused")
  <2>1. phase' = "success" /\ UNCHANGED <<mode, hand, cause, tables>>
    BY <1>3 DEF MarkTerminalSuccess
  <2>2. TypeOK'
    BY <1>1, <2>1 DEF EvidenceInv, TypeOK, Phases, BundlesAtHand, EligibilityOf, Plain
  <2>3. OneBundle'
    BY <2>1 DEF EvidenceInv, OneBundle, Sealed, ComparisonOf
  <2>4. Verified'
    <3>1. Kept
      BY <2>1 DEF Kept
    <3> QED
      BY <2>1, <3>1, VerifiedStays DEF EvidenceInv, Verified, Sealed
  <2>5. Stages' /\ Concluded' /\ ReviewsDecide'
    BY <1>1, <2>1 DEF EvidenceInv, Stages, Concluded, ReviewsDecide, Sealed, AllAccept
  <2> QED
    BY <2>2, <2>3, <2>4, <2>5 DEF EvidenceInv
<1> QED
  BY <1>2, <1>3

LEMMA StutterKeeps ==
  ASSUME EvidenceInv, UNCHANGED vars
  PROVE  EvidenceInv'
<1> USE DEF vars
<1>1. TypeOK'
  BY DEF EvidenceInv, TypeOK, BundlesAtHand, EligibilityOf
<1>2. OneBundle'
  BY DEF EvidenceInv, OneBundle, Sealed, ComparisonOf
<1>3. Verified'
  <2>1. Kept
    BY DEF Kept
  <2> QED
    BY <2>1, VerifiedStays DEF EvidenceInv, Verified, Sealed
<1>4. Stages' /\ Concluded' /\ ReviewsDecide'
  <2>1. /\ UnderReview' <=> UnderReview
        /\ SummaryOf(tables)' = SummaryOf(tables)
        /\ AllAccept(tables["decisions"])' <=> AllAccept(tables["decisions"])
        /\ Decisions' = Decisions
    BY DEF UnderReview, Precursor, Complete, SummaryOf, WaymaxStatus, ClaimStatus, Releases,
       Deterministic, PassesAgree, AllAccept, Decisions
  <2> QED
    BY <2>1 DEF EvidenceInv, Stages, Concluded, ReviewsDecide, Sealed
<1> QED
  BY <1>1, <1>2, <1>3, <1>4 DEF EvidenceInv

LEMMA ConclusionKeeps ==
  ASSUME EvidenceAssumption, EvidenceInv, Conclude
  PROVE  EvidenceInv'
<1>1. CASE WriteMechanicalVerification
  BY <1>1, RequestKeeps
<1>2. CASE WriteReviewAbsence
  <2> DEFINE new == [decisions |-> NoDecisions]
  <2>1. DOMAIN new = {"decisions"} /\ InPending /\ Plain
        /\ Writes(mode = "data_free" /\ MechanicallyVerified, new)
    BY <1>2 DEF WriteReviewAbsence
  <2> HIDE DEF new
  <2> QED
    BY <2>1, AbsenceKeeps
<1>3. CASE SealAwaitingReview
  BY <1>3, SealKeeps
<1>4. CASE AdoptAwaitingReview
  BY <1>4, AdoptKeeps
<1>5. ASSUME NEW decisions \in Decisions, WriteReviewDecisions(decisions) PROVE EvidenceInv'
  BY <1>5, DecisionsKeep
<1>6. CASE WriteExecutionSummary
  BY <1>6, SummaryKeeps
<1>7. CASE Commit
  BY <1>7, CommitKeeps
<1>8. CASE ConcludeReview
  BY <1>8, ConcludeKeeps
<1>9. CASE MarkTerminalSuccess
  BY <1>9, TerminalKeeps
<1> QED
  BY <1>1, <1>2, <1>3, <1>4, <1>5, <1>6, <1>7, <1>8, <1>9 DEF Conclude

LEMMA EvidenceStep ==
  ASSUME EvidenceAssumption, EvidenceInv, [Next]_vars
  PROVE  EvidenceInv'
<1>1. ASSUME NEW e \in hand, WriteRows(e) PROVE EvidenceInv'
  BY <1>1, RowsKeep
<1>2. ASSUME NEW b \in BundlesAtHand \union {NoBundle}, WriteBundle(b) PROVE EvidenceInv'
  BY <1>2, BundleKeeps
<1>3. CASE Derive
  BY <1>3, DerivedKeep
<1>4. CASE Conclude
  BY <1>4, ConclusionKeeps
<1>5. CASE Raise
  BY <1>5, PlainIsTyped, FailureKeeps DEF Raise
<1>6. CASE UNCHANGED vars
  BY <1>6, StutterKeeps
<1> QED
  BY <1>1, <1>2, <1>3, <1>4, <1>5, <1>6 DEF Next

LEMMA EvidenceInvariant == Spec => []EvidenceInv
BY EvidenceInit, EvidenceStep, EvidenceAssumption, PTL DEF Spec

-----------------------------------------------------------------------------
(* What follows *)

\* Whatever evaluations the caller mixed, what a reviewer gets to see is one: the
\* tables of M6ResultStore that were sealed for review are of one NumPy evaluation
\* and of the one Waymax execution that was compared with it.
THEOREM SealedSafety == Spec => []SealedIsOneEvaluation
<1>1. EvidenceInv => SealedIsOneEvaluation
  <2> SUFFICES ASSUME EvidenceInv, IsSealed PROVE SealedIsOneEvaluation
    BY DEF SealedIsOneEvaluation
  <2> DEFINE b    == tables["scalars"]
             fact == Facts[b.numpy]
  <2>1. Sealed("request") /\ mode = "official"
    BY DEF EvidenceInv, IsSealed, Stages, UnderReview, Concluded, Sealed
  <2>2. Findings
    BY <2>1 DEF EvidenceInv, Verified
  <2>3. /\ b \in BundlesAtHand /\ NumpyIsOf(b) /\ tables["numpy_comparisons"] = b
        /\ tables["qualification"] = QualificationOf(b.source)
    BY <2>2 DEF Findings, OneEvaluation
  <2>4. fact.first = fact.second
    BY <2>2, <2>3 DEF Findings, TablesReproduce, PassesAgree, NumpyIsOf
  <2>5. ASSUME NEW g \in fact.violated PROVE g = NestedDose /\ fact.feasible = {}
    <3>1. g \in Gates
      BY <2>3, EvidenceAssumption DEF EvidenceAssumption, BundlesAtHand, EvidenceInv, TypeOK
    <3>2. /\ tables["gates"][g] = GateStatus(g, fact.violated, tables["eligibility"])
          /\ tables["gates"][g] # "failed"
          /\ g # NestedDose => tables["gates"][g] # "unsupported"
      BY <2>2, <2>3, <3>1 DEF Findings, GatesAreGood, NoGateFailed, GatesReproduce, GatesOf, NumpyIsOf
    <3>3. tables["eligibility"].feasible = fact.feasible
      BY <2>1, <2>3 DEF NumpyIsOf, EligibilityOf
    <3> QED
      BY <2>5, <3>2, <3>3 DEF GateStatus
  <2>6. tables["field_comparisons"] = ComparisonOf(b)
    BY <2>2 DEF EvidenceInv, OneBundle, Findings, Precursor, Complete, Evidence, Sealed, ComparisonOf
  <2> QED
    BY <2>3, <2>4, <2>5, <2>6 DEF SealedIsOneEvaluation, NumpyIsOf
<1> QED
  BY <1>1, EvidenceInvariant, PTL

\* What a committed run claims was earned: every reviewer accepted, and the claim of
\* _derive_real_reactivity_claim_status follows from the sealed evaluation.
THEOREM ReleaseSafety == Spec => []ReleaseIsEarned
<1>1. EvidenceInv => ReleaseIsEarned
  <2> SUFFICES ASSUME EvidenceInv, phase \in {"committed", "success"}, mode = "official"
               PROVE  LET b == tables["scalars"]
                          selected == Selected(Facts[b.source].qualified)
                      IN /\ \A role \in Roles : tables["decisions"][role] = "accept"
                         /\ tables["claim"] = "supported" <=>
                              /\ Cardinality(selected) >= MinSelected
                              /\ Cardinality(Facts[b.numpy].first) >= ClaimFloor
    BY DEF ReleaseIsEarned, EvidenceInv, Concluded
  <2>1. Findings /\ AllAccept(tables["decisions"])
    BY DEF EvidenceInv, Concluded, Verified
  <2>2. tables["claim"] = ClaimStatus(tables)
    BY <2>1 DEF Findings, TablesReproduce
  <2>3. tables["primary_matrix"].responders = Cardinality(Facts[tables["scalars"].numpy].first)
    BY <2>1 DEF Findings, TablesReproduce, MatricesReproduce, Matrix, OneEvaluation, NumpyIsOf
  <2>4. WaymaxStatus(tables) = "accepted" <=>
          Cardinality(Selected(Facts[tables["scalars"].source].qualified)) >= MinSelected
    BY <2>1, WaymaxEarned, EvidenceAssumption
  <2> QED
    BY <2>1, <2>2, <2>3, <2>4 DEF ClaimStatus, AllAccept, Accepts
<1> QED
  BY <1>1, EvidenceInvariant, PTL

\* After the request only the reviewers or an accident decide: finalize_m6_review,
\* which knows only the files, never refuses what was verified before the review.
THEOREM DecisionSafety == Spec => []ReviewsDecide
BY EvidenceInvariant, PTL DEF EvidenceInv

=============================================================================
