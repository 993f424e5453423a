------------------------------- MODULE M5Proofs -------------------------------
(***************************************************************************)
(* Proofs about the M5 result store and about the official M5 command with *)
(* its evaluation, for any keys, any parts, any cohort and any metrics.    *)
(* First the store: its type invariant, the soundness of the SUCCESS       *)
(* marker, what else follows from the same inductive invariant, and that   *)
(* the store implements RunVerdict.  Then the command: it is a caller of   *)
(* the store, so everything proved about the store holds of its run; exit  *)
(* code 0 means an accepted run; every other end has a failure record; and *)
(* no cell is made of a visit in which something went wrong; and a visit   *)
(* in which nothing went wrong ends in a scorecard.  Apart from both, the  *)
(* creation of a store by any number of processes.                         *)
(***************************************************************************)
EXTENDS M5Run, M5Create, FiniteSetTheorems, TLAPS

-----------------------------------------------------------------------------
(* Paths and files *)

\* The paths of the run are told apart by their names.
LEMMA Names ==
  /\ Artifact \intersect Control = {}
  /\ Artifact \subseteq File /\ Control \subseteq File
  /\ PartFiles \intersect (Singletons \union Supplemental
                             \union {"scorecard-report"}) = {}
  BY StoreAssumption DEF Artifact, Control, File, Singletons, Supplemental

\* Every write leaves a file of the expected type, whether it raised or not.
LEMMA FileTypes ==
  /\ Blank \in Entry /\ Debris \in Entry /\ Whole \in Entry /\ Foreign \in Entry
  /\ Landings \subseteq Entry
  BY DEF Blank, Debris, Whole, Foreign, Landings, Entry

\* A write that raised touches one file.
LEMMA RaisedTypes ==
  ASSUME disk \in [File -> Entry], NEW f \in File
  PROVE  RaisedWrite(f) \subseteq Entry /\ RaisedArtifact(f) \subseteq Entry
  BY FileTypes DEF RaisedWrite, RaisedArtifact

\* _poison touches the failure record and no other file.
LEMMA PoisonTouchesOne ==
  ASSUME NEW d \in [File -> Entry], NEW e \in PoisonedDisks(d)
  PROVE  /\ e \in [File -> Entry]
         /\ \A f \in File \ {"FAILURE"} : e[f] = d[f]
  BY FileTypes DEF PoisonedDisks, File, Control


\* The same, for the writers that first leave something at their own path.
LEMMA PoisonTypes ==
  ASSUME NEW d \in [File -> Entry], Poison(d)
  PROVE  /\ failed' = TRUE
         /\ disk' \in [File -> Entry]
         /\ \A f \in File \ {"FAILURE"} : disk'[f] = d[f]
  BY PoisonTouchesOne DEF Poison

\* A writer whose own file could not be published poisons the run.
LEMMA FailAtTypes ==
  ASSUME disk \in [File -> Entry], NEW f \in File, FailAt(f)
  PROVE  /\ failed' = TRUE
         /\ disk' \in [File -> Entry]
         /\ \A g \in File \ {"FAILURE", f} : disk'[g] = disk[g]
         /\ UNCHANGED <<registered, keys, rows, misordered>>
<1>1. PICK r \in RaisedArtifact(f) : Poison([disk EXCEPT ![f] = r])
  BY DEF FailAt
<1>2. [disk EXCEPT ![f] = r] \in [File -> Entry]
  BY RaisedTypes
<1> QED
  BY <1>1, <1>2, PoisonTypes DEF FailAt

\* Publishing an artifact keeps the types of the directory and of the registry.
LEMMA RegisterTypes ==
  ASSUME TypeOK, NEW f \in Artifact, Register(f)
  PROVE  disk' \in [File -> Entry] /\ registered' \subseteq Artifact
  BY Names, FileTypes DEF TypeOK, Register

-----------------------------------------------------------------------------
(* Row accounting *)

\* Rows with new keys add up to the number of distinct keys.
LEMMA RowsAddUp ==
  ASSUME NEW K \in SUBSET Keys, NEW R \in SUBSET Keys, R \intersect K = {}
  PROVE  /\ Cardinality(K) \in Nat
         /\ Cardinality(K \union R) = Cardinality(K) + Cardinality(R)
<1>1. IsFiniteSet(K) /\ IsFiniteSet(R)
  BY StoreAssumption, FS_Subset
<1>2. Cardinality(K \union R)
        = Cardinality(K) + Cardinality(R) - Cardinality(K \intersect R)
  BY <1>1, FS_Union
<1>3. Cardinality(K \intersect R) = 0
  <2>1. K \intersect R = {}
    OBVIOUS
  <2> QED
    BY <2>1, FS_EmptySet
<1>4. Cardinality(K) \in Nat /\ Cardinality(R) \in Nat
  BY <1>1, FS_CardinalityType
<1> QED
  BY <1>2, <1>3, <1>4

\* Counts of finite sets of keys are natural numbers.
LEMMA RowsAreNat ==
  ASSUME TypeOK
  PROVE  rows \in [Datasets -> Nat]
<1>1. \A d \in Datasets : Cardinality(keys[d]) \in Nat
  BY StoreAssumption, FS_Subset, FS_CardinalityType DEF TypeOK
<1> QED
  BY <1>1 DEF TypeOK

\* A dataset writer keeps the two row accounts of a dataset together.
LEMMA WriteDatasetTypes ==
  ASSUME TypeOK, NEW d \in Datasets, NEW f \in PartOf(d),
         NEW R \in SUBSET Expected[d], WriteDataset(d, f, R)
  PROVE  TypeOK'
<1>1. R \in SUBSET Keys
  BY StoreAssumption
<1>2. f \in Artifact /\ f \in File
  BY Names DEF PartOf, Artifact, Datasets
<1>3. UNCHANGED <<profile, proc, call, manifest, finalizing, committed, successful,
                  capability, outcome, tampered, powerLost, reconciled>>
  BY DEF WriteDataset
<1>4. CASE PublishRows(d, f, R)
  <2>1. Cardinality(keys[d] \union R) = Cardinality(keys[d]) + Cardinality(R)
    BY <1>1, <1>4, RowsAddUp DEF PublishRows, Duplicate, TypeOK
  <2>2. rows' = [e \in Datasets |-> Cardinality(keys'[e])]
    BY <1>4, <2>1 DEF PublishRows, TypeOK
  <2>3. keys' \in [Datasets -> SUBSET Keys]
    BY <1>1, <1>4 DEF PublishRows, TypeOK
  <2>4. misordered' \in BOOLEAN
    BY <1>4 DEF PublishRows, TypeOK
  <2> QED
    BY <1>2, <1>3, <1>4, <2>2, <2>3, <2>4, RegisterTypes
    DEF PublishRows, TypeOK
<1>5. CASE FailAt(f)
  BY <1>2, <1>3, <1>5, FailAtTypes DEF TypeOK
<1> QED
  BY <1>4, <1>5 DEF WriteDataset

\* So does the publication of a file that has no rows.
LEMMA WritePlainTypes ==
  ASSUME TypeOK, NEW f \in Artifact, WritePlain(f)
  PROVE  TypeOK'
<1>1. f \in File
  BY Names
<1>2. CASE Register(f) /\ UNCHANGED <<keys, rows, failed, misordered>>
  BY <1>2, RegisterTypes DEF WritePlain, TypeOK
<1>3. CASE FailAt(f)
  BY <1>1, <1>3, FailAtTypes DEF WritePlain, TypeOK
<1> QED
  BY <1>2, <1>3 DEF WritePlain

\* And a writer that refuses.
LEMMA RefuseTypes ==
  ASSUME TypeOK, Refuse
  PROVE  TypeOK'
<1>1. disk' \in [File -> Entry] /\ failed' = TRUE
  BY PoisonTypes DEF Refuse, TypeOK
<1> QED
  BY <1>1 DEF Refuse, TypeOK, ghosts


-----------------------------------------------------------------------------
(* Type correctness *)

\* Every artifact writer keeps the types.
LEMMA WriteArtifactTypes ==
  ASSUME TypeOK, WriteArtifact
  PROVE  TypeOK'
<1>1. /\ \A f \in PartFiles : f \in PartOf("metric-results")
      /\ \A d \in Datasets \ {"metric-results"} : d \in PartOf(d)
      /\ {"metric-results", "slice-membership", "scorecards",
          "waymax-parity-summary"} \subseteq Datasets
  BY DEF PartOf, Datasets, Singletons
<1>2. {"parity-order-receipt", "determinism-receipt", "scorecard-report"}
        \subseteq Artifact
  BY DEF Artifact, Supplemental
<1>3. CASE WriteParityOrderReceipt
  BY <1>2, <1>3, WritePlainTypes, RefuseTypes DEF WriteParityOrderReceipt
<1>4. CASE WriteDeterminismReceipt
  BY <1>2, <1>4, WritePlainTypes, RefuseTypes DEF WriteDeterminismReceipt
<1>5. CASE \E f \in PartFiles, R \in SUBSET Expected["metric-results"] :
             WriteMetricResultsPart(f, R)
  BY <1>1, <1>5, WriteDatasetTypes, RefuseTypes DEF WriteMetricResultsPart
<1>6. CASE \E R \in SUBSET Expected["slice-membership"] : WriteSliceMembership(R)
  BY <1>1, <1>6, WriteDatasetTypes DEF WriteSliceMembership
<1>7. CASE \E R \in SUBSET Expected["scorecards"] : WriteScorecards(R)
  BY <1>1, <1>7, WriteDatasetTypes, RefuseTypes DEF WriteScorecards
<1>8. CASE \E R \in SUBSET Expected["waymax-parity-summary"] :
             WriteWaymaxParitySummary(R)
  BY <1>1, <1>8, WriteDatasetTypes DEF WriteWaymaxParitySummary
<1>9. CASE WriteHumanReadableScorecard
  BY <1>2, <1>9, WritePlainTypes, RefuseTypes DEF WriteHumanReadableScorecard
<1> QED
  BY <1>3, <1>4, <1>5, <1>6, <1>7, <1>8, <1>9 DEF WriteArtifact

\* So does every step of the finalization.
LEMMA FinalizeTypes ==
  ASSUME TypeOK, Finalize
  PROVE  TypeOK'
<1> DEFINE Put(f, r) == [disk EXCEPT ![f] = r]
<1>1. \A f \in Control, r \in Entry : Put(f, r) \in [File -> Entry]
  BY Names DEF TypeOK
<1>2. \A f \in Control : RaisedWrite(f) \subseteq Entry
  BY Names, RaisedTypes DEF TypeOK
<1>3. /\ {"FINALIZING", "evaluation-manifest", "COMMITTED", "SUCCESS"}
           \subseteq Control
      /\ Whole \in Entry /\ Landings \subseteq Entry
  BY FileTypes DEF Control
<1>4. disk \in [File -> Entry] /\ rows \in [Datasets -> Nat]
  BY RowsAreNat DEF TypeOK
<1>5. CASE BeginFinalization
  <2>1. disk' \in [File -> Entry] /\ failed' \in BOOLEAN
    BY <1>1, <1>2, <1>3, <1>4, <1>5, PoisonTypes DEF BeginFinalization, TypeOK
  <2> QED
    BY <1>5, <2>1 DEF BeginFinalization, TypeOK, ghosts
<1>6. CASE PublishManifest
  <2>1. disk' \in [File -> Entry] /\ failed' \in BOOLEAN
    <3>1. CASE /\ disk' = Put("evaluation-manifest", Whole)
               /\ UNCHANGED failed
      BY <1>1, <1>3, <3>1 DEF TypeOK
    <3>2. CASE \E r \in RaisedWrite("evaluation-manifest") :
                 Poison(Put("evaluation-manifest", r))
      <4>1. PICK r \in RaisedWrite("evaluation-manifest") :
                   Poison(Put("evaluation-manifest", r))
        BY <3>2
      <4>2. Put("evaluation-manifest", r) \in [File -> Entry]
        BY <1>1, <1>2, <1>3
      <4> QED
        BY <4>1, <4>2, PoisonTypes
    <3> QED
      BY <1>6, <3>1, <3>2 DEF PublishManifest
  <2>2. manifest' \in [listed : SUBSET Artifact, rows : [Datasets -> Nat]]
    BY <1>4, <1>6 DEF PublishManifest, TypeOK
  <2> QED
    BY <1>6, <2>1, <2>2 DEF PublishManifest, TypeOK, ghosts
<1>7. CASE ConfirmPrepared
  <2>1. disk' \in [File -> Entry] /\ failed' \in BOOLEAN
    BY <1>4, <1>7, PoisonTypes DEF ConfirmPrepared, TypeOK
  <2> QED
    BY <1>7, <2>1 DEF ConfirmPrepared, TypeOK, ghosts
<1>8. CASE MarkCommittedForVerification
  <2>1. /\ disk' \in [File -> Entry] /\ failed' \in BOOLEAN
        /\ committed' \in BOOLEAN /\ reconciled' \in BOOLEAN
    BY <1>1, <1>3, <1>4, <1>8, PoisonTypes
    DEF MarkCommittedForVerification, TypeOK
  <2> QED
    BY <1>8, <2>1 DEF MarkCommittedForVerification, TypeOK
<1>9. CASE SealBytes
  <2>1. disk' \in [File -> Entry] /\ failed' \in BOOLEAN
    BY <1>4, <1>9, PoisonTypes DEF SealBytes, TypeOK
  <2> QED
    BY <1>9, <2>1 DEF SealBytes, TypeOK, ghosts
<1>10. CASE WriteSuccess
  <2>1. /\ disk' \in [File -> Entry] /\ failed' \in BOOLEAN
        /\ {successful', finalizing', committed', capability', reconciled'}
             \subseteq BOOLEAN
        /\ outcome' \in {"none", "success"}
    <3>1. PICK raised \in BOOLEAN :
            \E r \in (IF raised THEN RaisedWrite("SUCCESS") ELSE {Whole}) :
               WriteSuccessAs(raised, r)
      BY <1>10 DEF WriteSuccess
    <3>2. PICK r \in (IF raised THEN RaisedWrite("SUCCESS") ELSE {Whole}) :
            WriteSuccessAs(raised, r)
      BY <3>1
    <3>3. Put("SUCCESS", r) \in [File -> Entry]
      BY <1>1, <1>2, <1>3
    <3> QED
      BY <3>2, <3>3, PoisonTypes DEF WriteSuccessAs, TypeOK
  <2> QED
    BY <1>10, <2>1 DEF WriteSuccess, TypeOK
<1>11. CASE AbortFinalization
  <2>1. disk' \in [File -> Entry] /\ failed' \in BOOLEAN
    BY <1>4, <1>11, PoisonTypes DEF AbortFinalization, TypeOK
  <2> QED
    BY <1>11, <2>1 DEF AbortFinalization, TypeOK, ghosts
<1> QED
  BY <1>5, <1>6, <1>7, <1>8, <1>9, <1>10, <1>11 DEF Finalize

\* And every crash, power cut and outside interference.
LEMMA EnvironmentTypes ==
  ASSUME TypeOK, Crash \/ Environment
  PROVE  TypeOK'
<1>1. disk \in [File -> Entry] /\ rows \in [Datasets -> Nat]
  BY RowsAreNat DEF TypeOK
<1>2. CASE Crash
  <2>1. disk' \in [File -> Entry]
    BY <1>1, <1>2, Names, RaisedTypes DEF Crash, Control
  <2>2. manifest' \in [listed : SUBSET Artifact, rows : [Datasets -> Nat]]
    BY <1>1, <1>2 DEF Crash, TypeOK
  <2> QED
    BY <1>2, <2>1, <2>2 DEF Crash, TypeOK, memory, ghosts
<1>3. CASE PowerLoss
  <2>1. disk' \in [File -> Entry]
    BY <1>1, <1>3, FileTypes DEF PowerLoss, Entry
  <2> QED
    BY <1>3, <2>1 DEF PowerLoss, TypeOK, memory
<1>4. CASE \E f \in File : Tamper(f)
  <2>1. disk' \in [File -> Entry] /\ tampered' \in {"no", "early", "late"}
    BY <1>1, <1>4, FileTypes DEF Tamper
  <2> QED
    BY <1>4, <2>1 DEF Tamper, TypeOK, memory
<1> QED
  BY <1>2, <1>3, <1>4 DEF Environment

\* The store starts well typed.
LEMMA InitTypes == Init => TypeOK
<1> SUFFICES ASSUME Init PROVE TypeOK
  OBVIOUS
<1>1. rows = [d \in Datasets |-> Cardinality(keys[d])]
  BY FS_EmptySet DEF Init
<1>2. disk \in [File -> Entry]
  BY FileTypes DEF Init
<1> QED
  BY <1>1, <1>2 DEF Init, TypeOK

\* And stays so.
LEMMA StepTypes == TypeOK /\ [Next]_vars => TypeOK'
<1> SUFFICES ASSUME TypeOK, [Next]_vars PROVE TypeOK'
  OBVIOUS
<1>1. CASE WriteArtifact
  BY <1>1, WriteArtifactTypes
<1>2. CASE Finalize
  BY <1>2, FinalizeTypes
<1>3. CASE Fail
  BY <1>3, RefuseTypes DEF Fail
<1>4. CASE Crash \/ Environment
  BY <1>4, EnvironmentTypes
<1>5. CASE UNCHANGED vars
  BY <1>5 DEF vars, memory, ghosts, TypeOK
<1> QED
  BY <1>1, <1>2, <1>3, <1>4, <1>5 DEF Next

\* Every reachable state of the store is well typed; in particular the row counts
\* of the writer always count its distinct keys.
THEOREM TypeCorrect == Spec => []TypeOK
  BY InitTypes, StepTypes, PTL DEF Spec


-----------------------------------------------------------------------------
(* The SUCCESS marker is sound: artifact writers *)

\* While the writer is active nothing is being finalized, so a step that keeps
\* the terminal bits, the markers and the registered artifacts is harmless.
LEMMA QuietStep ==
  ASSUME TypeOK, SealInvariant, Idle, Active,
         UNCHANGED <<profile, proc, call, manifest, finalizing, committed,
                     successful, capability, outcome, tampered, powerLost,
                     reconciled>>,
         disk'["SUCCESS"] = disk["SUCCESS"],
         disk'["COMMITTED"] = disk["COMMITTED"],
         RegisteredIsKept'
  PROVE  SealInvariant'
<1>1. /\ call = "idle" /\ ~capability /\ ~finalizing /\ ~successful
      /\ manifest.listed = {}
  BY DEF SealInvariant, FlagsAgree, ManifestIsFinal, Active, Idle
<1>2. FlagsAgree'
  BY <1>1 DEF SealInvariant, FlagsAgree, Idle
<1>3. ManifestIsFinal'
  BY <1>1 DEF ManifestIsFinal
<1>4. CommittedIsKept'
  BY DEF SealInvariant, CommittedIsKept, Kept
<1>5. SealStays'
  BY <1>1 DEF SealStays, Committing
<1>6. SuccessNeedsSeal'
  BY <1>1 DEF SealInvariant, SuccessNeedsSeal, Exact, Committing
<1> QED
  BY <1>2, <1>3, <1>4, <1>5, <1>6 DEF SealInvariant

\* A step that only poisons an active run.
LEMMA RefuseSeals ==
  ASSUME TypeOK, SealInvariant, Idle, Active, Refuse
  PROVE  SealInvariant'
<1>1. \A f \in File \ {"FAILURE"} : disk'[f] = disk[f]
  BY PoisonTypes DEF Refuse, TypeOK
<1>2. registered \subseteq File \ {"FAILURE"} /\ registered' = registered
  BY Names DEF TypeOK, Control, Refuse
<1>3. RegisteredIsKept'
  BY <1>1, <1>2 DEF SealInvariant, RegisteredIsKept, Present, Kept
<1>4. disk'["SUCCESS"] = disk["SUCCESS"] /\ disk'["COMMITTED"] = disk["COMMITTED"]
  BY <1>1 DEF File, Control
<1>5. UNCHANGED <<profile, proc, call, manifest, finalizing, committed, successful,
                  capability, outcome, tampered, powerLost, reconciled>>
  BY DEF Refuse, ghosts
<1> QED
  BY <1>3, <1>4, <1>5, QuietStep

\* A write of an artifact that published it, or that failed.
LEMMA ArtifactSeals ==
  ASSUME TypeOK, SealInvariant, Idle, Active, NEW f \in Artifact,
         \/ Register(f)
         \/ FailAt(f) /\ (f \in registered => Present(f)),
         UNCHANGED <<profile, proc, call, manifest, finalizing, committed,
                     successful, capability, outcome, tampered, powerLost,
                     reconciled>>
  PROVE  SealInvariant'
<1>1. f \in File /\ f \notin Control /\ registered \intersect Control = {}
      /\ registered \subseteq File
  BY Names DEF TypeOK
<1>2. CASE Register(f)
  <2>1. /\ \A g \in File \ {f} : disk'[g] = disk[g]
        /\ disk'[f] = Whole
    BY <1>1, <1>2 DEF Register, TypeOK
  <2>2. RegisteredIsKept'
    BY <1>1, <1>2, <2>1
    DEF SealInvariant, RegisteredIsKept, Register, Present, Kept, Whole
  <2>3. disk'["SUCCESS"] = disk["SUCCESS"] /\ disk'["COMMITTED"] = disk["COMMITTED"]
    BY <1>1, <2>1 DEF File, Control
  <2> QED
    BY <2>2, <2>3, QuietStep
<1>3. CASE FailAt(f) /\ (f \in registered => Present(f))
  <2>1. PICK r \in RaisedArtifact(f) : Poison([disk EXCEPT ![f] = r])
    BY <1>3 DEF FailAt
  <2>2. [disk EXCEPT ![f] = r] \in [File -> Entry]
    BY <1>1, RaisedTypes DEF TypeOK
  <2>3. \A g \in File \ {"FAILURE"} : disk'[g] = [disk EXCEPT ![f] = r][g]
    BY <2>1, <2>2, PoisonTypes
  <2>4. \A g \in File \ {"FAILURE", f} : disk'[g] = disk[g]
    BY <2>3 DEF TypeOK
  <2>5. f \in registered => disk'[f] = disk[f]
    BY <1>1, <1>3, <2>1, <2>3 DEF RaisedArtifact, TypeOK, Control
  <2>6. registered' = registered
    BY <1>3 DEF FailAt
  <2>7. RegisteredIsKept'
    BY <1>1, <2>4, <2>5, <2>6
    DEF SealInvariant, RegisteredIsKept, Present, Kept, Control
  <2>8. disk'["SUCCESS"] = disk["SUCCESS"] /\ disk'["COMMITTED"] = disk["COMMITTED"]
    BY <1>1, <2>4 DEF File, Control
  <2> QED
    BY <2>7, <2>8, QuietStep
<1> QED
  BY <1>2, <1>3

\* The two kinds of artifact writers.
LEMMA WriteDatasetSeals ==
  ASSUME TypeOK, SealInvariant, NEW d, NEW f \in Artifact, NEW R,
         WriteDataset(d, f, R)
  PROVE  SealInvariant'
  BY ArtifactSeals
  DEF WriteDataset, PublishRows, SealInvariant, RegisteredIsKept

\* ... and so does one without rows, a receipt or the report.
LEMMA WritePlainSeals ==
  ASSUME TypeOK, SealInvariant, Idle, Active, NEW f \in Artifact, WritePlain(f)
  PROVE  SealInvariant'
  BY ArtifactSeals DEF WritePlain, SealInvariant, RegisteredIsKept

\* All of them together.
LEMMA WriteArtifactSeals ==
  ASSUME TypeOK, SealInvariant, WriteArtifact
  PROVE  SealInvariant'
<1>1. /\ PartFiles \subseteq Artifact
      /\ {"slice-membership", "scorecards", "waymax-parity-summary",
          "parity-order-receipt", "determinism-receipt", "scorecard-report"}
           \subseteq Artifact
  BY DEF Artifact, Singletons, Supplemental
<1>2. CASE WriteParityOrderReceipt
  BY <1>1, <1>2, WritePlainSeals, RefuseSeals DEF WriteParityOrderReceipt
<1>3. CASE WriteDeterminismReceipt
  BY <1>1, <1>3, WritePlainSeals, RefuseSeals DEF WriteDeterminismReceipt
<1>4. CASE \E f \in PartFiles, R \in SUBSET Expected["metric-results"] :
             WriteMetricResultsPart(f, R)
  BY <1>1, <1>4, WriteDatasetSeals, RefuseSeals DEF WriteMetricResultsPart
<1>5. CASE \E R \in SUBSET Expected["slice-membership"] : WriteSliceMembership(R)
  BY <1>1, <1>5, WriteDatasetSeals DEF WriteSliceMembership
<1>6. CASE \E R \in SUBSET Expected["scorecards"] : WriteScorecards(R)
  BY <1>1, <1>6, WriteDatasetSeals, RefuseSeals DEF WriteScorecards
<1>7. CASE \E R \in SUBSET Expected["waymax-parity-summary"] :
             WriteWaymaxParitySummary(R)
  BY <1>1, <1>7, WriteDatasetSeals DEF WriteWaymaxParitySummary
<1>8. CASE WriteHumanReadableScorecard
  BY <1>1, <1>8, WritePlainSeals, RefuseSeals DEF WriteHumanReadableScorecard
<1> QED
  BY <1>2, <1>3, <1>4, <1>5, <1>6, <1>7, <1>8 DEF WriteArtifact


-----------------------------------------------------------------------------
(* The SUCCESS marker is sound: finalization *)

\* Poisoning after a failed write of f touches f and the failure record.
LEMMA PoisonWith ==
  ASSUME disk \in [File -> Entry], NEW f \in File \ {"FAILURE"}, NEW r \in Entry,
         Poison([disk EXCEPT ![f] = r])
  PROVE  /\ failed' = TRUE
         /\ disk'[f] = r
         /\ \A g \in File \ {"FAILURE", f} : disk'[g] = disk[g]
<1>1. [disk EXCEPT ![f] = r] \in [File -> Entry]
  OBVIOUS
<1> QED
  BY <1>1, PoisonTypes

\* Only a step that touches an artifact matters to the registered ones.
LEMMA RegisteredStays ==
  ASSUME TypeOK, RegisteredIsKept, registered' = registered,
         \A g \in Artifact : disk'[g] = disk[g]
  PROVE  RegisteredIsKept'
  BY DEF TypeOK, RegisteredIsKept, Present, Kept

\* The content checks look at the profile, the registry and the counts only.
LEMMA CompleteStays ==
  ASSUME UNCHANGED <<profile, registered, rows>>, Complete(registered, rows)
  PROVE  Complete(registered, rows)'
  BY DEF Complete, FullCount, Layout, SupplementalComplete

\* Artifacts are not controls, and controls are files.
LEMMA Controls ==
  /\ {"FINALIZING", "evaluation-manifest", "COMMITTED", "SUCCESS"}
        \subseteq File \ {"FAILURE"}
  /\ "FAILURE" \in File
  /\ Artifact \subseteq File \ Control
  BY Names DEF File, Control

\* The FINALIZING marker is written only over a complete set of artifacts.
LEMMA BeginFinalizationSeals ==
  ASSUME TypeOK, SealInvariant, BeginFinalization
  PROVE  SealInvariant'
<1>1. /\ call = "idle" /\ ~capability /\ ~finalizing /\ ~successful
      /\ manifest.listed = {} /\ Idle /\ Active
  BY DEF SealInvariant, FlagsAgree, ManifestIsFinal, Active, Idle,
         BeginFinalization
<1>2. UNCHANGED <<profile, proc, manifest, registered, keys, rows, committed,
                  successful, capability, outcome, tampered, powerLost, reconciled>>
  BY DEF BeginFinalization, ghosts
<1>3. CASE /\ Preflight
           /\ disk' = [disk EXCEPT !["FINALIZING"] = Whole]
           /\ finalizing' = TRUE /\ call' = "finalizing" /\ UNCHANGED failed
  <2>1. /\ \A g \in File \ {"FINALIZING"} : disk'[g] = disk[g]
        /\ disk'["FINALIZING"] = Whole
    BY <1>3, Controls DEF TypeOK
  <2>2. RegisteredIsKept'
    BY <1>2, <2>1, Controls, RegisteredStays DEF SealInvariant, Control
  <2>3. FlagsAgree'
    BY <1>1, <1>2, <1>3 DEF SealInvariant, FlagsAgree
  <2>4. ManifestIsFinal'
    BY <1>1, <1>2, <1>3, <2>1, CompleteStays
    DEF ManifestIsFinal, Preflight, Kept, Whole
  <2>5. CommittedIsKept'
    BY <1>2, <2>1, Controls DEF SealInvariant, CommittedIsKept, Kept
  <2>6. SealStays' /\ SuccessNeedsSeal'
    BY <1>1, <1>2, <1>3, <2>1, Controls
    DEF SealInvariant, SealStays, SuccessNeedsSeal, Committing, Exact
  <2> QED
    BY <2>2, <2>3, <2>4, <2>5, <2>6 DEF SealInvariant
<1>4. CASE Poison(disk) /\ UNCHANGED <<finalizing, call>>
  <2>1. \A g \in File \ {"FAILURE"} : disk'[g] = disk[g]
    BY <1>4, PoisonTypes DEF TypeOK
  <2>2. RegisteredIsKept'
    BY <1>2, <2>1, Controls, RegisteredStays DEF SealInvariant, Control
  <2> QED
    BY <1>1, <1>2, <1>4, <2>1, <2>2, Controls, QuietStep
<1>5. CASE /\ \E r \in RaisedWrite("FINALIZING") :
                  Poison([disk EXCEPT !["FINALIZING"] = r])
           /\ finalizing' = TRUE /\ UNCHANGED call
  <2>1. /\ failed' = TRUE
        /\ \A g \in File \ {"FAILURE", "FINALIZING"} : disk'[g] = disk[g]
    BY <1>5, Controls, RaisedTypes, PoisonWith DEF TypeOK
  <2>2. RegisteredIsKept'
    BY <1>2, <2>1, Controls, RegisteredStays DEF SealInvariant, Control
  <2>3. FlagsAgree' /\ ManifestIsFinal'
    BY <1>1, <1>2, <1>5 DEF SealInvariant, FlagsAgree, ManifestIsFinal
  <2>4. CommittedIsKept'
    BY <1>2, <2>1, Controls DEF SealInvariant, CommittedIsKept, Kept
  <2>5. SealStays' /\ SuccessNeedsSeal'
    BY <1>1, <1>2, <1>5, <2>1, Controls
    DEF SealInvariant, SealStays, SuccessNeedsSeal, Committing, Exact
  <2> QED
    BY <2>2, <2>3, <2>4, <2>5 DEF SealInvariant
<1> QED
  BY <1>3, <1>4, <1>5 DEF BeginFinalization

\* The manifest lists exactly what is registered, and it is durable when the call
\* goes on.
LEMMA PublishManifestSeals ==
  ASSUME TypeOK, SealInvariant, PublishManifest
  PROVE  SealInvariant'
<1>1. /\ call = "finalizing" /\ finalizing /\ ~capability /\ ~successful
      /\ Complete(registered, rows) /\ Kept("FINALIZING")
  BY DEF SealInvariant, FlagsAgree, ManifestIsFinal, PublishManifest
<1>2. UNCHANGED <<profile, proc, registered, keys, rows, finalizing, committed,
                  successful, capability, outcome, tampered, powerLost, reconciled>>
  BY DEF PublishManifest, ghosts
<1>3. manifest' = [listed |-> registered, rows |-> rows]
  BY DEF PublishManifest
<1>4. CASE /\ disk' = [disk EXCEPT !["evaluation-manifest"] = Whole]
           /\ call' = "manifest" /\ UNCHANGED failed
  <2>1. /\ \A g \in File \ {"evaluation-manifest"} : disk'[g] = disk[g]
        /\ disk'["evaluation-manifest"] = Whole
    BY <1>4, Controls DEF TypeOK
  <2>2. RegisteredIsKept'
    BY <1>2, <2>1, Controls, RegisteredStays DEF SealInvariant, Control
  <2>3. FlagsAgree'
    BY <1>1, <1>2, <1>4 DEF SealInvariant, FlagsAgree
  <2>4. ManifestIsFinal'
    BY <1>1, <1>2, <1>3, <1>4, <2>1, CompleteStays, Controls
    DEF ManifestIsFinal, Kept, Whole
  <2>5. CommittedIsKept'
    BY <1>2, <2>1, Controls DEF SealInvariant, CommittedIsKept, Kept
  <2>6. SealStays' /\ SuccessNeedsSeal'
    BY <1>1, <1>2, <1>4, <2>1, Controls
    DEF SealInvariant, SealStays, SuccessNeedsSeal, Committing, Exact
  <2> QED
    BY <2>2, <2>3, <2>4, <2>5, <2>6 DEF SealInvariant
<1>5. CASE /\ \E r \in RaisedWrite("evaluation-manifest") :
                  Poison([disk EXCEPT !["evaluation-manifest"] = r])
           /\ call' = "idle"
  <2>1. /\ failed' = TRUE
        /\ \A g \in File \ {"FAILURE", "evaluation-manifest"} : disk'[g] = disk[g]
    BY <1>5, Controls, RaisedTypes, PoisonWith DEF TypeOK
  <2>2. RegisteredIsKept'
    BY <1>2, <2>1, Controls, RegisteredStays DEF SealInvariant, Control
  <2>3. FlagsAgree' /\ ManifestIsFinal'
    BY <1>1, <1>2, <1>3, <1>5 DEF SealInvariant, FlagsAgree, ManifestIsFinal
  <2>4. CommittedIsKept'
    BY <1>2, <2>1, Controls DEF SealInvariant, CommittedIsKept, Kept
  <2>5. SealStays' /\ SuccessNeedsSeal'
    BY <1>1, <1>2, <1>5, <2>1, Controls
    DEF SealInvariant, SealStays, SuccessNeedsSeal, Committing, Exact
  <2> QED
    BY <2>2, <2>3, <2>4, <2>5 DEF SealInvariant
<1> QED
  BY <1>4, <1>5 DEF PublishManifest


\* A step that leaves the registry and the manifest alone, touches at most the
\* failure record, and does not commit.
LEMMA RecordStep ==
  ASSUME TypeOK, SealInvariant, ~Committing, ~Committing',
         UNCHANGED <<profile, manifest, registered, rows, committed, reconciled>>,
         call' # "finalizing",
         call' = "manifest" \/ capability' \/ successful' =>
           call = "manifest" \/ capability \/ successful,
         finalizing \/ successful => finalizing' \/ successful',
         FlagsAgree',
         \A g \in File \ {"FAILURE"} : disk'[g] = disk[g]
  PROVE  SealInvariant'
<1>1. RegisteredIsKept'
  BY Controls, RegisteredStays DEF SealInvariant, Control
<1>2. ManifestIsFinal'
  BY Controls, CompleteStays DEF SealInvariant, ManifestIsFinal, Kept
<1>3. CommittedIsKept'
  BY Controls DEF SealInvariant, CommittedIsKept, Kept
<1>4. SealStays' /\ SuccessNeedsSeal'
  BY Controls DEF SealInvariant, SealStays, SuccessNeedsSeal, Exact
<1> QED
  BY <1>1, <1>2, <1>3, <1>4 DEF SealInvariant

\* The caller gets the capability only after the manifest is final.
LEMMA ConfirmPreparedSeals ==
  ASSUME TypeOK, SealInvariant, ConfirmPrepared
  PROVE  SealInvariant'
<1>1. /\ call = "manifest" /\ finalizing /\ ~capability /\ ~successful
      /\ call' = "idle"
  BY DEF SealInvariant, FlagsAgree, ConfirmPrepared
<1>2. UNCHANGED <<profile, proc, manifest, registered, rows, finalizing, committed,
                  successful, outcome, powerLost, reconciled>>
  BY DEF ConfirmPrepared, ghosts
<1>3. FlagsAgree'
  BY <1>1, <1>2 DEF SealInvariant, FlagsAgree
<1>4. \A g \in File \ {"FAILURE"} : disk'[g] = disk[g]
  BY PoisonTypes DEF ConfirmPrepared, TypeOK
<1> QED
  BY <1>1, <1>2, <1>3, <1>4, RecordStep DEF Committing

\* An abort gives the capability up and touches nothing but the failure record.
LEMMA AbortFinalizationSeals ==
  ASSUME TypeOK, SealInvariant, AbortFinalization
  PROVE  SealInvariant'
<1>1. call = "idle" /\ finalizing /\ capability /\ ~successful
  BY DEF AbortFinalization, AbortAllowed, Idle
<1>2. /\ capability' = FALSE
      /\ UNCHANGED <<profile, proc, call, manifest, registered, rows, finalizing,
                     committed, successful, outcome, powerLost, reconciled>>
  BY DEF AbortFinalization, ghosts
<1>3. FlagsAgree'
  BY <1>1, <1>2 DEF SealInvariant, FlagsAgree
<1>4. \A g \in File \ {"FAILURE"} : disk'[g] = disk[g]
  BY PoisonTypes DEF AbortFinalization, TypeOK
<1> QED
  BY <1>1, <1>2, <1>3, <1>4, RecordStep DEF Committing

\* COMMITTED is durable, or its fsync error was read back as success.
LEMMA MarkCommittedSeals ==
  ASSUME TypeOK, SealInvariant, MarkCommittedForVerification
  PROVE  SealInvariant'
<1>1. /\ call = "idle" /\ capability /\ finalizing /\ ~successful
      /\ UNCHANGED <<profile, proc, call, manifest, registered, rows, finalizing,
                     successful, capability, outcome, tampered, powerLost>>
  BY DEF MarkCommittedForVerification, PreparedAndOpen, Idle
<1>2. PICK r \in Landings, raised \in BOOLEAN :
        /\ ~raised => r = Whole
        /\ IF ~raised \/ Reconciles(r)
           THEN /\ disk' = [disk EXCEPT !["COMMITTED"] = r]
                /\ committed' = TRUE
                /\ reconciled' = (reconciled \/ raised)
                /\ UNCHANGED failed
           ELSE /\ Poison([disk EXCEPT !["COMMITTED"] = r])
                /\ UNCHANGED <<committed, reconciled>>
  BY DEF MarkCommittedForVerification
<1>3. /\ \A g \in File \ {"FAILURE", "COMMITTED"} : disk'[g] = disk[g]
      /\ disk'["COMMITTED"] = r
  BY <1>2, Controls, FileTypes, PoisonWith DEF TypeOK
<1>4. reconciled => reconciled'
  BY <1>2
<1>5. RegisteredIsKept'
  BY <1>1, <1>3, Controls, RegisteredStays DEF SealInvariant, Control
<1>6. FlagsAgree'
  BY <1>1 DEF SealInvariant, FlagsAgree
<1>7. ManifestIsFinal'
  BY <1>1, <1>3, Controls, CompleteStays DEF SealInvariant, ManifestIsFinal, Kept
<1>8. CommittedIsKept'
  <2>1. CASE ~raised
    BY <1>2, <1>3, <2>1 DEF CommittedIsKept, Kept, Whole
  <2>2. CASE raised /\ Reconciles(r)
    BY <1>2, <2>2 DEF CommittedIsKept
  <2>3. CASE raised /\ ~Reconciles(r)
    BY <1>2, <2>3 DEF CommittedIsKept, MarkCommittedForVerification
  <2> QED
    BY <2>1, <2>2, <2>3
<1>9. SealStays' /\ SuccessNeedsSeal'
  BY <1>1, <1>3, Controls
  DEF SealInvariant, SealStays, SuccessNeedsSeal, Committing, Exact
<1> QED
  BY <1>5, <1>6, <1>7, <1>8, <1>9 DEF SealInvariant

\* The byte seal establishes SealStays.
LEMMA SealBytesSeals ==
  ASSUME TypeOK, SealInvariant, SealBytes
  PROVE  SealInvariant'
<1>1. /\ call = "idle" /\ capability /\ finalizing /\ ~successful /\ ~failed
      /\ profile = "official" => committed
      /\ UNCHANGED <<profile, proc, manifest, registered, rows, finalizing, committed,
                     successful, capability, outcome, tampered, powerLost, reconciled>>
  BY DEF SealBytes, CommitAllowed, PreparedAndOpen, Idle, ghosts
<1>2. CASE SealHolds /\ call' = "sealed" /\ UNCHANGED <<disk, failed>>
  <2>1. RegisteredIsKept' /\ CommittedIsKept' /\ SuccessNeedsSeal'
    BY <1>1, <1>2 DEF SealInvariant, RegisteredIsKept, CommittedIsKept,
                      SuccessNeedsSeal, Committing, Present, Kept, Exact
  <2>2. FlagsAgree'
    BY <1>1, <1>2 DEF SealInvariant, FlagsAgree
  <2>3. ManifestIsFinal'
    BY <1>1, <1>2, CompleteStays DEF SealInvariant, ManifestIsFinal, Kept
  <2>4. SealStays'
    <3>1. "SUCCESS" \notin registered \union MarkersOf(LastCheckpoint)
      BY Controls DEF TypeOK, MarkersOf, LastCheckpoint, Control
    <3>2. /\ BytesIntact(registered \union MarkersOf(LastCheckpoint))
          /\ PresentFiles \ {"SUCCESS"} = registered \union MarkersOf(LastCheckpoint)
      BY <1>2, <3>1 DEF SealHolds, BytesIntact, ExactMembers
    <3>3. profile = "official" => Kept("COMMITTED") \/ reconciled
      BY <1>1 DEF SealInvariant, CommittedIsKept
    <3> QED
      BY <1>1, <1>2, <3>2, <3>3
      DEF SealStays, BytesIntact, Exact, PresentFiles, Present, MarkersOf,
          LastCheckpoint, Kept
  <2> QED
    BY <2>1, <2>2, <2>3, <2>4 DEF SealInvariant
<1>3. CASE Poison(disk) /\ UNCHANGED call
  <2>1. FlagsAgree'
    BY <1>1, <1>3 DEF SealInvariant, FlagsAgree
  <2>2. \A g \in File \ {"FAILURE"} : disk'[g] = disk[g]
    BY <1>3, PoisonTypes DEF TypeOK
  <2> QED
    BY <1>1, <1>3, <2>1, <2>2, RecordStep DEF Committing
<1> QED
  BY <1>2, <1>3 DEF SealBytes


\* SUCCESS joins the sealed bytes, or the run is closed.
LEMMA WriteSuccessSeals ==
  ASSUME TypeOK, SealInvariant, WriteSuccess
  PROVE  SealInvariant'
<1>1. /\ call = "sealed" /\ capability /\ finalizing /\ ~successful
      /\ call' = "idle" /\ Committing
      /\ UNCHANGED <<profile, proc, manifest, registered, keys, rows, tampered,
                     powerLost>>
  BY DEF SealInvariant, FlagsAgree, WriteSuccess, Committing
<1>2. PICK raised \in BOOLEAN :
        \E r \in (IF raised THEN RaisedWrite("SUCCESS") ELSE {Whole}) :
           WriteSuccessAs(raised, r)
  BY DEF WriteSuccess
<1>3. PICK r \in (IF raised THEN RaisedWrite("SUCCESS") ELSE {Whole}) :
        WriteSuccessAs(raised, r)
  BY <1>2
<1>4. r \in Entry
  BY Controls, RaisedTypes, FileTypes DEF TypeOK
<1>5. /\ \A g \in File \ {"FAILURE", "SUCCESS"} : disk'[g] = disk[g]
      /\ disk'["SUCCESS"] = r
  <2>1. disk \in [File -> Entry] /\ "SUCCESS" \in File \ {"FAILURE"}
    BY Controls DEF TypeOK
  <2>2. CASE disk' = [disk EXCEPT !["SUCCESS"] = r]
    BY <2>1, <2>2
  <2>3. CASE Poison([disk EXCEPT !["SUCCESS"] = r])
    BY <1>4, <2>1, <2>3, PoisonWith
  <2> QED
    BY <1>3, <2>2, <2>3 DEF WriteSuccessAs
<1>6. RegisteredIsKept'
  BY <1>1, <1>5, Controls, RegisteredStays DEF SealInvariant, Control
<1>7. CASE ~raised \/ Reconciles(r)
  <2>1. /\ disk' = [disk EXCEPT !["SUCCESS"] = r]
        /\ successful' /\ ~finalizing' /\ ~committed' /\ ~capability'
        /\ reconciled => reconciled'
        /\ raised => reconciled'
    BY <1>3, <1>7 DEF WriteSuccessAs
  <2>2. r.bytes = "exact" /\ ((r.synced /\ r.named) \/ reconciled')
    BY <1>3, <1>7, <2>1 DEF WriteSuccessAs, Whole, Reconciles
  <2>3. FlagsAgree'
    BY <1>1, <2>1 DEF SealInvariant, FlagsAgree
  <2>4. ManifestIsFinal'
    BY <1>1, <1>5, <2>1, Controls, CompleteStays
    DEF SealInvariant, ManifestIsFinal, Kept
  <2>5. CommittedIsKept' /\ SuccessNeedsSeal'
    BY <2>1 DEF CommittedIsKept, SuccessNeedsSeal, Committing
  <2>6. ASSUME Trusted' PROVE SealStays'
    <3>1. Trusted
      BY <1>1, <2>1, <2>6 DEF Trusted
    <3>2. /\ BytesIntact(registered \union MarkersOf(LastCheckpoint))
          /\ PresentFiles \ {"SUCCESS"} = registered \union MarkersOf(LastCheckpoint)
          /\ profile = "official" => Kept("COMMITTED") \/ reconciled
      BY <1>1, <3>1 DEF SealInvariant, SealStays
    <3>3. /\ (MarkersOf(LastCheckpoint))' = MarkersOf(LastCheckpoint)
          /\ registered' = registered
      BY <1>1 DEF MarkersOf, LastCheckpoint
    <3>4. \A g \in File \ {"SUCCESS"} : disk'[g] = disk[g]
      BY <2>1, Controls DEF TypeOK
    <3>5. registered \union MarkersOf(LastCheckpoint) \subseteq File \ {"SUCCESS"}
      BY Controls DEF TypeOK, MarkersOf, LastCheckpoint, Control
    <3>6. BytesIntact(registered \union MarkersOf(LastCheckpoint))'
      BY <3>2, <3>3, <3>4, <3>5 DEF BytesIntact, Exact
    <3>7. (PresentFiles \ {"SUCCESS"})' = PresentFiles \ {"SUCCESS"}
      BY <3>4 DEF PresentFiles, Present
    <3>8. (profile = "official" => Kept("COMMITTED") \/ reconciled)'
      BY <1>1, <2>1, <3>2, <3>4, Controls DEF Kept
    <3>9. (Exact("SUCCESS") /\ (Kept("SUCCESS") \/ reconciled))'
      BY <1>5, <2>2 DEF Exact, Kept
    <3> QED
      BY <3>2, <3>3, <3>6, <3>7, <3>8, <3>9 DEF SealStays
  <2>7. SealStays'
    BY <2>6 DEF SealStays
  <2> QED
    BY <1>6, <2>3, <2>4, <2>5, <2>7 DEF SealInvariant
<1>8. CASE ~(~raised \/ Reconciles(r))
  <2>1. /\ failed' = TRUE
        /\ UNCHANGED <<successful, finalizing, committed, capability, outcome,
                       reconciled>>
    BY <1>3, <1>4, <1>8, Controls, PoisonWith DEF WriteSuccessAs, TypeOK
  <2>2. FlagsAgree'
    BY <1>1, <2>1 DEF SealInvariant, FlagsAgree
  <2>3. ManifestIsFinal'
    BY <1>1, <1>5, <2>1, Controls, CompleteStays
    DEF SealInvariant, ManifestIsFinal, Kept
  <2>4. CommittedIsKept'
    BY <1>5, <2>1, Controls DEF SealInvariant, CommittedIsKept, Kept
  <2>5. SealStays' /\ SuccessNeedsSeal'
    BY <1>1, <1>5, <1>8, <2>1
    DEF SealStays, SuccessNeedsSeal, Committing, Exact, Reconciles
  <2> QED
    BY <1>6, <2>2, <2>3, <2>4, <2>5 DEF SealInvariant
<1> QED
  BY <1>7, <1>8

-----------------------------------------------------------------------------
(* The SUCCESS marker is sound: the environment *)

\* A crash inside a write leaves what that write could leave.
LEMMA CrashSeals ==
  ASSUME TypeOK, SealInvariant, Crash
  PROVE  SealInvariant'
<1>1. /\ proc' = "down"
      /\ UNCHANGED <<profile, call, registered, rows, failed, finalizing, committed,
                     successful, capability, outcome, tampered, powerLost, reconciled>>
  BY DEF Crash, memory, ghosts
<1>2. FlagsAgree'
  BY <1>1 DEF SealInvariant, FlagsAgree
<1>3. /\ (MarkersOf(LastCheckpoint))' = MarkersOf(LastCheckpoint)
      /\ registered \union MarkersOf(LastCheckpoint) \subseteq File \ {"SUCCESS"}
  BY <1>1, Controls DEF TypeOK, MarkersOf, LastCheckpoint, Control
<1>4. CASE UNCHANGED <<disk, manifest>>
  <2>1. RegisteredIsKept' /\ CommittedIsKept' /\ SuccessNeedsSeal'
    BY <1>1, <1>4 DEF SealInvariant, RegisteredIsKept, CommittedIsKept,
                      SuccessNeedsSeal, Committing, Present, Kept, Exact
  <2>2. ManifestIsFinal'
    BY <1>1, <1>4, CompleteStays DEF SealInvariant, ManifestIsFinal, Kept
  <2>3. SealStays'
    BY <1>1, <1>3, <1>4
    DEF SealInvariant, SealStays, Committing, Trusted, BytesIntact, Exact,
        PresentFiles, Present, Kept
  <2> QED
    BY <1>2, <2>1, <2>2, <2>3 DEF SealInvariant
<1>5. CASE /\ call = "finalizing"
           /\ \E r \in RaisedWrite("evaluation-manifest") :
                  disk' = [disk EXCEPT !["evaluation-manifest"] = r]
           /\ manifest' = [listed |-> registered, rows |-> rows]
  <2>1. /\ \A g \in File \ {"evaluation-manifest"} : disk'[g] = disk[g]
        /\ finalizing /\ ~capability /\ ~successful
    BY <1>5 DEF TypeOK, SealInvariant, FlagsAgree
  <2>2. RegisteredIsKept'
    BY <1>1, <2>1, Controls, RegisteredStays DEF SealInvariant, Control
  <2>3. ManifestIsFinal'
    BY <1>1, <1>5, <2>1, Controls, CompleteStays
    DEF SealInvariant, ManifestIsFinal, Kept
  <2>4. CommittedIsKept'
    BY <1>1, <2>1, Controls DEF SealInvariant, CommittedIsKept, Kept
  <2>5. SealStays' /\ SuccessNeedsSeal'
    BY <1>1, <1>5, <2>1, Controls
    DEF SealInvariant, SealStays, SuccessNeedsSeal, Committing, Exact
  <2> QED
    BY <1>2, <2>2, <2>3, <2>4, <2>5 DEF SealInvariant
<1>6. CASE /\ call = "sealed"
           /\ \E r \in RaisedWrite("SUCCESS") :
                  disk' = [disk EXCEPT !["SUCCESS"] = r]
           /\ UNCHANGED manifest
  <2>1. \A g \in File \ {"SUCCESS"} : disk'[g] = disk[g]
    BY <1>6 DEF TypeOK
  <2>2. call = "sealed" /\ ~successful
    BY <1>6 DEF SealInvariant, FlagsAgree
  <2>3. RegisteredIsKept'
    BY <1>1, <2>1, Controls, RegisteredStays DEF SealInvariant, Control
  <2>4. ManifestIsFinal'
    BY <1>1, <1>6, <2>1, Controls, CompleteStays
    DEF SealInvariant, ManifestIsFinal, Kept
  <2>5. CommittedIsKept'
    BY <1>1, <2>1, Controls DEF SealInvariant, CommittedIsKept, Kept
  <2>6. SuccessNeedsSeal'
    BY <1>1, <2>2 DEF SuccessNeedsSeal, Committing
  <2>7. SealStays'
    <3>1. (PresentFiles \ {"SUCCESS"})' = PresentFiles \ {"SUCCESS"}
      BY <2>1 DEF PresentFiles, Present
    <3>2. BytesIntact(registered \union MarkersOf(LastCheckpoint)) =>
            BytesIntact(registered \union MarkersOf(LastCheckpoint))'
      BY <1>1, <1>3, <2>1 DEF BytesIntact, Exact
    <3> QED
      BY <1>1, <1>3, <2>1, <2>2, <3>1, <3>2, Controls
      DEF SealInvariant, SealStays, Committing, Trusted, Kept
  <2> QED
    BY <1>2, <2>3, <2>4, <2>5, <2>6, <2>7 DEF SealInvariant
<1> QED
  BY <1>4, <1>5, <1>6 DEF Crash

\* A power cut spares what is kept.
LEMMA PowerLossSeals ==
  ASSUME TypeOK, SealInvariant, PowerLoss
  PROVE  SealInvariant'
<1>1. /\ proc' = "down" /\ powerLost' = TRUE /\ ~powerLost
      /\ UNCHANGED <<profile, call, manifest, registered, rows, failed, finalizing,
                     committed, successful, capability, outcome, tampered, reconciled>>
  BY DEF PowerLoss, memory
<1>2. \A f \in File : Kept(f) /\ Present(f) => disk'[f] = disk[f]
  BY DEF PowerLoss, Kept, TypeOK
<1>3. \A f \in File : Kept(f) => disk'[f] = disk[f]
  BY <1>2 DEF PowerLoss, PresentFiles, Kept, TypeOK
<1>4. \A f \in File : /\ disk'[f].bytes = "exact" => disk[f].bytes = "exact"
                      /\ disk'[f].bytes # "absent" => disk[f].bytes # "absent"
  BY DEF PowerLoss, Present, PresentFiles, Blank, TypeOK, Entry
<1>5. RegisteredIsKept'
  BY <1>1, <1>3, Controls DEF SealInvariant, RegisteredIsKept, TypeOK, Kept, Present
<1>6. FlagsAgree'
  BY <1>1 DEF SealInvariant, FlagsAgree
<1>7. ManifestIsFinal'
  BY <1>1, <1>3, Controls, CompleteStays DEF SealInvariant, ManifestIsFinal, Kept
<1>8. CommittedIsKept'
  BY <1>1, <1>3, Controls DEF SealInvariant, CommittedIsKept, Kept
<1>9. SuccessNeedsSeal'
  BY <1>1, <1>4, Controls DEF SealInvariant, SuccessNeedsSeal, Committing, Exact
<1>10. ASSUME Committing', Trusted' PROVE SealStays'
  <2>1. Committing /\ Trusted /\ ~reconciled
    BY <1>1, <1>10 DEF Committing, Trusted
  <2>2. /\ BytesIntact(registered \union MarkersOf(LastCheckpoint))
        /\ PresentFiles \ {"SUCCESS"} = registered \union MarkersOf(LastCheckpoint)
        /\ profile = "official" => Kept("COMMITTED")
        /\ successful => Exact("SUCCESS") /\ Kept("SUCCESS")
    BY <2>1 DEF SealInvariant, SealStays
  <2>3. /\ (MarkersOf(LastCheckpoint))' = MarkersOf(LastCheckpoint)
        /\ registered \union MarkersOf(LastCheckpoint) \subseteq File
    BY <1>1, Controls DEF TypeOK, MarkersOf, LastCheckpoint
  <2>4. Kept("FINALIZING") /\ Kept("evaluation-manifest")
    BY <2>1 DEF SealInvariant, FlagsAgree, ManifestIsFinal, Committing
  <2>5. \A f \in registered \union MarkersOf(LastCheckpoint) : Kept(f)
    BY <2>2, <2>4 DEF SealInvariant, RegisteredIsKept, MarkersOf, LastCheckpoint
  <2>6. \A f \in registered \union MarkersOf(LastCheckpoint) : disk'[f] = disk[f]
    BY <1>3, <2>3, <2>5
  <2>7. BytesIntact(registered \union MarkersOf(LastCheckpoint))'
    BY <1>1, <2>2, <2>3, <2>6 DEF BytesIntact, Exact
  <2>8. (PresentFiles \ {"SUCCESS"})' = PresentFiles \ {"SUCCESS"}
    <3>1. \A f \in File \ {"SUCCESS"} :
            disk[f].bytes # "absent" => disk'[f].bytes # "absent"
      BY <2>2, <2>6 DEF PresentFiles, Present
    <3> QED
      BY <1>4, <3>1 DEF PresentFiles, Present
  <2>9. (profile = "official" => Kept("COMMITTED"))'
    BY <1>1, <1>3, <2>2, Controls DEF Kept
  <2>10. (successful => Exact("SUCCESS") /\ Kept("SUCCESS"))'
    BY <1>1, <1>3, <2>2, Controls DEF Kept, Exact
  <2> QED
    BY <1>1, <2>2, <2>3, <2>7, <2>8, <2>9, <2>10 DEF SealStays
<1>11. SealStays'
  BY <1>10 DEF SealStays
<1> QED
  BY <1>5, <1>6, <1>7, <1>8, <1>9, <1>11 DEF SealInvariant

\* Interference after the seal is late, and before it is found by the seal.
LEMMA TamperSeals ==
  ASSUME TypeOK, SealInvariant, NEW f \in File, Tamper(f)
  PROVE  SealInvariant'
<1>1. /\ tampered' = (IF Sealed THEN "late" ELSE "early")
      /\ UNCHANGED <<profile, proc, call, manifest, registered, rows, failed,
                     finalizing, committed, successful, capability, outcome,
                     powerLost, reconciled>>
  BY DEF Tamper, memory
<1>2. /\ \A g \in File \ {f} : disk'[g] = disk[g]
      /\ disk'[f] = Foreign
  BY DEF Tamper, TypeOK
<1>3. \A g \in File : /\ disk[g].synced => disk'[g].synced
                      /\ disk[g].named => disk'[g].named
                      /\ disk[g].bytes # "absent" => disk'[g].bytes # "absent"
                      /\ disk'[g].bytes = "exact" => disk[g].bytes = "exact"
  BY <1>2 DEF Foreign
<1>4. RegisteredIsKept'
  BY <1>1, <1>3, Controls DEF SealInvariant, RegisteredIsKept, TypeOK, Kept,
                              Present
<1>5. FlagsAgree'
  BY <1>1 DEF SealInvariant, FlagsAgree
<1>6. ManifestIsFinal'
  BY <1>1, <1>3, Controls, CompleteStays DEF SealInvariant, ManifestIsFinal, Kept
<1>7. CommittedIsKept'
  BY <1>1, <1>3, Controls DEF SealInvariant, CommittedIsKept, Kept
<1>8. SuccessNeedsSeal'
  BY <1>1, <1>3, Controls DEF SealInvariant, SuccessNeedsSeal, Committing, Exact
<1>9. SealStays'
  BY <1>1 DEF SealStays, Committing, Trusted, Sealed
<1> QED
  BY <1>4, <1>5, <1>6, <1>7, <1>8, <1>9 DEF SealInvariant


-----------------------------------------------------------------------------
(* The SUCCESS marker is sound: theorems *)

\* A fresh run has nothing to seal.
LEMMA InitSeals == Init => SealInvariant
  BY DEF Init, SealInvariant, RegisteredIsKept, FlagsAgree, ManifestIsFinal,
         CommittedIsKept, SealStays, SuccessNeedsSeal, Committing, Exact, Blank,
         File, Control

\* A step that changes nothing.
LEMMA StutterSeals ==
  ASSUME SealInvariant, UNCHANGED vars
  PROVE  SealInvariant'
<1>1. UNCHANGED <<profile, proc, call, disk, manifest, registered, keys, rows,
                  failed, finalizing, committed, successful, capability, outcome,
                  tampered, powerLost, reconciled>>
  BY DEF vars, memory, ghosts
<1>2. RegisteredIsKept' /\ FlagsAgree' /\ CommittedIsKept' /\ SuccessNeedsSeal'
  BY <1>1 DEF SealInvariant, RegisteredIsKept, FlagsAgree, CommittedIsKept,
              SuccessNeedsSeal, Committing, Present, Kept, Exact
<1>3. ManifestIsFinal'
  BY <1>1, CompleteStays DEF SealInvariant, ManifestIsFinal, Kept
<1>4. SealStays'
  BY <1>1 DEF SealInvariant, SealStays, Committing, Trusted, BytesIntact, Exact,
              PresentFiles, Present, MarkersOf, LastCheckpoint, Kept
<1> QED
  BY <1>2, <1>3, <1>4 DEF SealInvariant

\* The induction step: one case per action.
LEMMA StepSeals == TypeOK /\ SealInvariant /\ [Next]_vars => SealInvariant'
<1> SUFFICES ASSUME TypeOK, SealInvariant, [Next]_vars PROVE SealInvariant'
  OBVIOUS
<1>1. CASE WriteArtifact
  BY <1>1, WriteArtifactSeals
<1>2. CASE BeginFinalization
  BY <1>2, BeginFinalizationSeals
<1>3. CASE PublishManifest
  BY <1>3, PublishManifestSeals
<1>4. CASE ConfirmPrepared
  BY <1>4, ConfirmPreparedSeals
<1>5. CASE MarkCommittedForVerification
  BY <1>5, MarkCommittedSeals
<1>6. CASE SealBytes
  BY <1>6, SealBytesSeals
<1>7. CASE WriteSuccess
  BY <1>7, WriteSuccessSeals
<1>8. CASE AbortFinalization
  BY <1>8, AbortFinalizationSeals
<1>9. CASE Fail
  BY <1>9, RefuseSeals DEF Fail
<1>10. CASE Crash
  BY <1>10, CrashSeals
<1>11. CASE PowerLoss
  BY <1>11, PowerLossSeals
<1>12. CASE \E f \in File : Tamper(f)
  BY <1>12, TamperSeals
<1>13. CASE UNCHANGED vars
  BY <1>13, StutterSeals
<1> QED
  BY <1>1, <1>2, <1>3, <1>4, <1>5, <1>6, <1>7, <1>8, <1>9, <1>10, <1>11, <1>12,
     <1>13
  DEF Next, Finalize, Environment

\* In every reachable state what is registered is durable, the manifest is final
\* once it exists, and the bytes under the seal stay what they were.
THEOREM SealIsInvariant == Spec => [](TypeOK /\ SealInvariant)
<1>1. Init => TypeOK /\ SealInvariant
  BY InitTypes, InitSeals
<1>2. TypeOK /\ SealInvariant /\ [Next]_vars => (TypeOK /\ SealInvariant)'
  BY StepTypes, StepSeals
<1> QED
  BY <1>1, <1>2, PTL DEF Spec

\* The sealed bytes with SUCCESS among them are what the verifier accepts.
LEMMA SealGivesAcceptance ==
  ASSUME TypeOK, SealInvariant
  PROVE  CommitSound
<1> SUFFICES ASSUME Exact("SUCCESS") \/ outcome = "success", Trusted
             PROVE  Accepted
  BY DEF CommitSound, Trusted
<1>1. Committing
  BY DEF SealInvariant, SuccessNeedsSeal, FlagsAgree, Committing
<1>2. Exact("SUCCESS")
  BY <1>1 DEF SealInvariant, FlagsAgree, SealStays
<1>3. /\ BytesIntact(registered \union MarkersOf(LastCheckpoint))
      /\ PresentFiles \ {"SUCCESS"} = registered \union MarkersOf(LastCheckpoint)
  BY <1>1 DEF SealInvariant, SealStays
<1>4. /\ manifest = [listed |-> registered, rows |-> rows]
      /\ Complete(registered, rows)
  BY <1>1 DEF SealInvariant, FlagsAgree, ManifestIsFinal, Committing
<1>5. MarkersOf("success") = MarkersOf(LastCheckpoint) \union {"SUCCESS"}
  BY DEF MarkersOf, LastCheckpoint, TypeOK
<1>6. ~Present("FAILURE")
  <2>1. "FAILURE" \notin registered \union MarkersOf(LastCheckpoint)
    BY Controls DEF TypeOK, MarkersOf, LastCheckpoint, Control
  <2> QED
    BY <1>3, <2>1, Controls DEF PresentFiles
<1>7. PresentFiles = registered \union MarkersOf("success")
  BY <1>2, <1>3, <1>5, Controls DEF PresentFiles, Present, Exact
<1>8. BytesIntact(registered) /\ BytesIntact(MarkersOf("success"))
  BY <1>2, <1>3, <1>5 DEF BytesIntact
<1> QED
  BY <1>4, <1>6, <1>7, <1>8 DEF Accepted, Verifies, ExactMembers

\* For every matrix of expected rows and every caller: a run that bears the exact
\* SUCCESS marker verifies as a success, through crashes, through interference
\* before the seal, and through power cuts unless an fsync error was reconciled.
THEOREM CommitIsSound == Spec => []CommitSound
  BY SealIsInvariant, SealGivesAcceptance, PTL

-----------------------------------------------------------------------------
(* Failure is permanent *)

\* The artifact writers touch their own path and the failure record.
LEMMA WritersSpareMarkers ==
  ASSUME TypeOK, WriteArtifact \/ Fail,
         NEW g \in {"FINALIZING", "evaluation-manifest", "COMMITTED", "SUCCESS"}
  PROVE  disk'[g] = disk[g]
<1>1. disk \in [File -> Entry] /\ g \in File \ {"FAILURE"}
  BY Controls DEF TypeOK
<1>2. ASSUME Refuse PROVE disk'[g] = disk[g]
  BY <1>1, <1>2, PoisonTypes DEF Refuse
<1>3. ASSUME NEW f \in Artifact, Register(f) \/ FailAt(f)
      PROVE  disk'[g] = disk[g]
  <2>1. f \in File /\ f # g
    BY Controls DEF Control
  <2>2. CASE Register(f)
    BY <1>1, <2>1, <2>2 DEF Register
  <2>3. CASE FailAt(f)
    BY <1>1, <2>1, <2>3, FailAtTypes
  <2> QED
    BY <1>3, <2>2, <2>3
<1>4. ASSUME NEW f \in Artifact, WritePlain(f) PROVE disk'[g] = disk[g]
  BY <1>3, <1>4 DEF WritePlain
<1>5. ASSUME NEW d, NEW f \in Artifact, NEW R, WriteDataset(d, f, R)
      PROVE  disk'[g] = disk[g]
  BY <1>3, <1>5 DEF WriteDataset, PublishRows
<1>6. /\ PartFiles \subseteq Artifact
      /\ {"slice-membership", "scorecards", "waymax-parity-summary",
          "parity-order-receipt", "determinism-receipt", "scorecard-report"}
           \subseteq Artifact
  BY DEF Artifact, Singletons, Supplemental
<1>7. CASE WriteParityOrderReceipt \/ WriteDeterminismReceipt
             \/ WriteHumanReadableScorecard
  BY <1>2, <1>4, <1>6, <1>7 DEF WriteParityOrderReceipt, WriteDeterminismReceipt,
                                WriteHumanReadableScorecard
<1>8. CASE \E f \in PartFiles, R \in SUBSET Expected["metric-results"] :
             WriteMetricResultsPart(f, R)
  BY <1>2, <1>5, <1>6, <1>8 DEF WriteMetricResultsPart
<1>9. CASE \/ \E R \in SUBSET Expected["slice-membership"] : WriteSliceMembership(R)
           \/ \E R \in SUBSET Expected["scorecards"] : WriteScorecards(R)
           \/ \E R \in SUBSET Expected["waymax-parity-summary"] :
                 WriteWaymaxParitySummary(R)
  BY <1>2, <1>5, <1>6, <1>9 DEF WriteSliceMembership, WriteScorecards,
                                WriteWaymaxParitySummary
<1>10. CASE Fail
  BY <1>2, <1>10 DEF Fail
<1> QED
  BY <1>7, <1>8, <1>9, <1>10 DEF WriteArtifact

\* Only the last step of the commit, or a crash inside it, creates SUCCESS.
LEMMA OneAuthor ==
  ASSUME TypeOK, [Next]_vars, ~Exact("SUCCESS"), Exact("SUCCESS")'
  PROVE  proc = "up" /\ call = "sealed"
<1>1. disk \in [File -> Entry] /\ "SUCCESS" \in File \ {"FAILURE"}
  BY Controls DEF TypeOK
<1>2. disk["SUCCESS"].bytes # "exact" /\ disk'["SUCCESS"].bytes = "exact"
  BY DEF Exact
<1>3. /\ {"FINALIZING", "evaluation-manifest", "COMMITTED"} \subseteq File \ {"FAILURE"}
      /\ Landings \subseteq Entry
  BY Controls, FileTypes
<1>4. ~(WriteArtifact \/ Fail)
  BY <1>2, WritersSpareMarkers
<1>5. ~BeginFinalization
  <2>1. ~(disk' = [disk EXCEPT !["FINALIZING"] = Whole])
    BY <1>1, <1>2
  <2>2. ~Poison(disk)
    BY <1>1, <1>2, PoisonTypes
  <2>3. ~(\E r \in RaisedWrite("FINALIZING") :
             Poison([disk EXCEPT !["FINALIZING"] = r]))
    BY <1>1, <1>2, <1>3, RaisedTypes, PoisonWith
  <2> QED
    BY <2>1, <2>2, <2>3 DEF BeginFinalization
<1>6. ~PublishManifest
  BY <1>1, <1>2, <1>3, RaisedTypes, PoisonWith DEF PublishManifest
<1>7. ~ConfirmPrepared /\ ~SealBytes /\ ~AbortFinalization
  BY <1>1, <1>2, PoisonTypes DEF ConfirmPrepared, SealBytes, AbortFinalization
<1>8. ~MarkCommittedForVerification
  BY <1>1, <1>2, <1>3, PoisonWith DEF MarkCommittedForVerification
<1>9. ~PowerLoss
  BY <1>1, <1>2 DEF PowerLoss, Blank, Entry
<1>10. ~(\E f \in File : Tamper(f))
  BY <1>1, <1>2 DEF Tamper, Foreign
<1>11. CASE WriteSuccess
  BY <1>11 DEF WriteSuccess
<1>12. CASE Crash
  BY <1>1, <1>2, <1>12 DEF Crash
<1>13. ~UNCHANGED vars
  BY <1>2 DEF vars
<1> QED
  BY <1>4, <1>5, <1>6, <1>7, <1>8, <1>9, <1>10, <1>11, <1>12, <1>13
  DEF Next, Finalize, Environment

\* Before that step nothing has failed: the seal saw no failure record.
LEMMA SealSawNoFailure ==
  ASSUME TypeOK, SealInvariant, proc = "up", call = "sealed", tampered # "late"
  PROVE  ~failed /\ ~Present("FAILURE")
<1>1. ~failed /\ Trusted /\ Committing
  BY DEF SealInvariant, FlagsAgree, Trusted, Committing
<1>2. PresentFiles \ {"SUCCESS"} = registered \union MarkersOf(LastCheckpoint)
  BY <1>1 DEF SealInvariant, SealStays
<1>3. "FAILURE" \notin registered \union MarkersOf(LastCheckpoint)
  BY Controls DEF TypeOK, MarkersOf, LastCheckpoint, Control
<1> QED
  BY <1>1, <1>2, <1>3, Controls DEF PresentFiles

\* A run that failed, in memory or on disk, never gains the SUCCESS marker.
THEOREM FailureStays == Spec => FailureIsPermanent
<1>1. TypeOK /\ SealInvariant /\ [Next]_vars
        => [/\ failed \/ Present("FAILURE")
            /\ ~Exact("SUCCESS") /\ tampered # "late"
            => ~Exact("SUCCESS")']_vars
  BY OneAuthor, SealSawNoFailure
<1> QED
  BY <1>1, SealIsInvariant, PTL DEF Spec, FailureIsPermanent

-----------------------------------------------------------------------------
(* Parity first *)

\* A run whose metrics came before its parity receipt never gets the receipt.
LEMMA StepKeepsMisorder ==
  TypeOK /\ MisorderedIsStuck /\ [Next]_vars => MisorderedIsStuck'
<1> SUFFICES ASSUME TypeOK, MisorderedIsStuck, [Next]_vars, misordered'
             PROVE  /\ "parity-order-receipt" \notin registered'
                    /\ \E d \in MetricDerived : PartOf(d) \intersect registered' # {}
  BY DEF MisorderedIsStuck, PartOf, MetricDerived
<1>1. ASSUME UNCHANGED <<registered, misordered>>
      PROVE  /\ "parity-order-receipt" \notin registered'
             /\ \E d \in MetricDerived : PartOf(d) \intersect registered' # {}
  BY <1>1 DEF MisorderedIsStuck
<1>2. ASSUME NEW d \in Datasets, NEW f \in PartOf(d), NEW R, WriteDataset(d, f, R)
      PROVE  /\ "parity-order-receipt" \notin registered'
             /\ \E e \in MetricDerived : PartOf(e) \intersect registered' # {}
  <2>1. CASE FailAt(f)
    BY <1>1, <2>1 DEF FailAt
  <2>2. CASE PublishRows(d, f, R)
    <3>1. registered' = registered \union {f} /\ f # "parity-order-receipt"
      BY <2>2, Names DEF PublishRows, Register, PartOf, Datasets, Singletons,
                         Supplemental
    <3>2. CASE misordered
      BY <3>1, <3>2 DEF MisorderedIsStuck
    <3>3. CASE ~misordered
      <4>1. d \in MetricDerived /\ "parity-order-receipt" \notin registered
        BY <2>2, <3>3 DEF PublishRows
      <4> QED
        BY <3>1, <4>1
    <3> QED
      BY <3>2, <3>3
  <2> QED
    BY <1>2, <2>1, <2>2 DEF WriteDataset
<1>3. ASSUME NEW f \in Artifact \ {"parity-order-receipt"}, WritePlain(f)
      PROVE  /\ "parity-order-receipt" \notin registered'
             /\ \E e \in MetricDerived : PartOf(e) \intersect registered' # {}
  <2>1. misordered /\ registered \subseteq registered'
        /\ registered' \subseteq registered \union {f}
    BY <1>3 DEF WritePlain, Register, FailAt
  <2> QED
    BY <2>1 DEF MisorderedIsStuck
<1>4. ASSUME Refuse
      PROVE  /\ "parity-order-receipt" \notin registered'
             /\ \E e \in MetricDerived : PartOf(e) \intersect registered' # {}
  BY <1>1, <1>4 DEF Refuse, ghosts
<1>5. CASE WriteParityOrderReceipt
  <2>1. CASE ParityLate
    BY <1>4, <1>5, <2>1 DEF WriteParityOrderReceipt
  <2>2. CASE ~ParityLate
    <3>1. ~misordered
      BY <2>2 DEF ParityLate, MisorderedIsStuck
    <3>2. misordered' = misordered
      BY <1>5, <2>2 DEF WriteParityOrderReceipt, WritePlain, FailAt
    <3> QED
      BY <3>1, <3>2
  <2> QED
    BY <2>1, <2>2
<1>6. CASE WriteDeterminismReceipt \/ WriteHumanReadableScorecard
  <2>1. {"determinism-receipt", "scorecard-report"}
          \subseteq Artifact \ {"parity-order-receipt"}
    BY DEF Artifact, Supplemental
  <2> QED
    BY <1>3, <1>4, <1>6, <2>1
    DEF WriteDeterminismReceipt, WriteHumanReadableScorecard
<1>7. CASE \E f \in PartFiles, R \in SUBSET Expected["metric-results"] :
             WriteMetricResultsPart(f, R)
  <2>1. "metric-results" \in Datasets /\ PartOf("metric-results") = PartFiles
    BY DEF Datasets, PartOf
  <2> QED
    BY <1>2, <1>4, <1>7, <2>1 DEF WriteMetricResultsPart
<1>8. CASE \/ \E R \in SUBSET Expected["slice-membership"] : WriteSliceMembership(R)
           \/ \E R \in SUBSET Expected["scorecards"] : WriteScorecards(R)
           \/ \E R \in SUBSET Expected["waymax-parity-summary"] :
                 WriteWaymaxParitySummary(R)
  <2>1. \A d \in Singletons : d \in Datasets /\ d \in PartOf(d)
    BY DEF Singletons, Datasets, PartOf
  <2>2. {"slice-membership", "scorecards", "waymax-parity-summary"} = Singletons
    BY DEF Singletons
  <2> QED
    BY <1>2, <1>4, <1>8, <2>1, <2>2
    DEF WriteSliceMembership, WriteScorecards, WriteWaymaxParitySummary
<1>9. CASE Finalize
  BY <1>1, <1>9
  DEF Finalize, BeginFinalization, PublishManifest, ConfirmPrepared,
      MarkCommittedForVerification, SealBytes, WriteSuccess, AbortFinalization,
      ghosts
<1>10. CASE Fail
  BY <1>4, <1>10 DEF Fail
<1>11. CASE Crash \/ Environment
  BY <1>1, <1>11 DEF Crash, Environment, PowerLoss, Tamper, memory, ghosts
<1>12. CASE UNCHANGED vars
  BY <1>1, <1>12 DEF vars, memory, ghosts
<1> QED
  BY <1>5, <1>6, <1>7, <1>8, <1>9, <1>10, <1>11, <1>12 DEF Next, WriteArtifact

\* An official run that was committed had its parity-order receipt before any row
\* derived from metrics.
THEOREM ParityFirst == Spec => []ParityPrecedesMetrics
<1>1. Init => MisorderedIsStuck
  BY DEF Init, MisorderedIsStuck
<1>2. TypeOK /\ SealInvariant /\ MisorderedIsStuck => ParityPrecedesMetrics
  <2> SUFFICES ASSUME TypeOK, SealInvariant, MisorderedIsStuck,
                      outcome = "success", profile = "official"
               PROVE  ~misordered
    BY DEF ParityPrecedesMetrics
  <2>1. successful
    BY DEF SealInvariant, FlagsAgree
  <2>2. "parity-order-receipt" \in registered
    BY <2>1 DEF SealInvariant, ManifestIsFinal, Complete, SupplementalComplete,
                Supplemental
  <2> QED
    BY <2>2 DEF MisorderedIsStuck
<1> QED
  BY <1>1, <1>2, SealIsInvariant, StepKeepsMisorder, PTL DEF Spec


-----------------------------------------------------------------------------
(* An accepted run holds every expected row *)

\* The callers that the matrix knows never add a foreign key.
LEMMA StepKeepsExpected ==
  TypeOK /\ KeysAreExpected /\ [Next]_vars => KeysAreExpected'
<1> SUFFICES ASSUME TypeOK, KeysAreExpected, [Next]_vars PROVE KeysAreExpected'
  OBVIOUS
<1>1. ASSUME UNCHANGED keys PROVE KeysAreExpected'
  BY <1>1 DEF KeysAreExpected
<1>2. ASSUME NEW d \in Datasets, NEW f, NEW R \in SUBSET Expected[d],
             WriteDataset(d, f, R)
      PROVE  KeysAreExpected'
  <2>1. CASE FailAt(f)
    BY <1>1, <2>1 DEF FailAt
  <2>2. CASE PublishRows(d, f, R)
    BY <1>2, <2>2 DEF PublishRows, KeysAreExpected, TypeOK
  <2> QED
    BY <1>2, <2>1, <2>2 DEF WriteDataset
<1>3. ASSUME NEW f, WritePlain(f) PROVE KeysAreExpected'
  BY <1>1, <1>3 DEF WritePlain, FailAt
<1>4. ASSUME Refuse PROVE KeysAreExpected'
  BY <1>1, <1>4 DEF Refuse
<1>5. CASE WriteParityOrderReceipt \/ WriteDeterminismReceipt
             \/ WriteHumanReadableScorecard
  BY <1>3, <1>4, <1>5 DEF WriteParityOrderReceipt, WriteDeterminismReceipt,
                          WriteHumanReadableScorecard
<1>6. CASE \/ \E f \in PartFiles, R \in SUBSET Expected["metric-results"] :
                 WriteMetricResultsPart(f, R)
           \/ \E R \in SUBSET Expected["slice-membership"] : WriteSliceMembership(R)
           \/ \E R \in SUBSET Expected["scorecards"] : WriteScorecards(R)
           \/ \E R \in SUBSET Expected["waymax-parity-summary"] :
                 WriteWaymaxParitySummary(R)
  <2>1. {"metric-results", "slice-membership", "scorecards",
         "waymax-parity-summary"} \subseteq Datasets
    BY DEF Datasets, Singletons
  <2> QED
    BY <1>2, <1>4, <1>6, <2>1
    DEF WriteMetricResultsPart, WriteSliceMembership, WriteScorecards,
        WriteWaymaxParitySummary
<1>7. CASE Finalize
  BY <1>1, <1>7
  DEF Finalize, BeginFinalization, PublishManifest, ConfirmPrepared,
      MarkCommittedForVerification, SealBytes, WriteSuccess, AbortFinalization
<1>8. CASE Fail
  BY <1>4, <1>8 DEF Fail
<1>9. CASE Crash \/ Environment \/ UNCHANGED vars
  BY <1>1, <1>9 DEF Crash, Environment, PowerLoss, Tamper, memory, vars
<1> QED
  BY <1>5, <1>6, <1>7, <1>8, <1>9 DEF Next, WriteArtifact

\* Although writer and verifier only compare numbers, a run that verifies holds
\* exactly the expected keys of every dataset.
THEOREM AcceptedRunsAreComplete == Spec => []AcceptedIsComplete
<1>1. Init => KeysAreExpected
  BY DEF Init, KeysAreExpected
<1>2. TypeOK /\ SealInvariant /\ KeysAreExpected => AcceptedIsComplete
  <2> SUFFICES ASSUME TypeOK, SealInvariant, KeysAreExpected, Accepted,
                      NEW d \in Datasets
               PROVE  keys[d] = Expected[d]
    BY DEF AcceptedIsComplete
  <2>1. FullCount(manifest.rows) /\ Layout(manifest.listed)
    BY DEF Accepted, Verifies, Complete
  <2>2. manifest.listed # {}
    BY <2>1 DEF Layout
  <2>3. manifest.rows = rows
    BY <2>2 DEF SealInvariant, ManifestIsFinal
  <2>4. Cardinality(keys[d]) = Cardinality(Expected[d])
    BY <2>1, <2>3 DEF FullCount, TypeOK
  <2>5. keys[d] \in SUBSET Expected[d] /\ IsFiniteSet(Expected[d])
    BY StoreAssumption, FS_Subset DEF KeysAreExpected
  <2> QED
    BY <2>4, <2>5, FS_Subset
<1> QED
  BY <1>1, <1>2, SealIsInvariant, StepKeepsExpected, PTL DEF Spec

-----------------------------------------------------------------------------
(* One verdict: the store implements RunVerdict *)

\* What the program itself does, as opposed to a crash or something outside.
ProgramStep == WriteArtifact \/ Finalize \/ Fail

\* The process that wrote an exact SUCCESS knows it, unless it is dead.
OwnSuccess == Exact("SUCCESS") => successful \/ proc = "down"

\* What does not belong to a sealed run is there to stay: it was planted, and a
\* power cut will not remove it and make the run acceptable again.
StraysStay ==
  Committing => \A f \in PresentFiles \ (registered \union MarkersOf("success")) : Kept(f)

VerdictInv == TypeOK /\ SealInvariant /\ OwnSuccess /\ StraysStay

\* A failure record stays through every later record.
LEMMA PoisonKeepsRecord ==
  ASSUME NEW d \in [File -> Entry], Poison(d),
         d["FAILURE"].bytes # "absent"
  PROVE  disk'["FAILURE"].bytes # "absent"
BY DEF Poison, PoisonedDisks

\* The program neither forgets a failure nor takes its record away, and it makes
\* no record without failing.
LEMMA FailuresRemain ==
  ASSUME TypeOK, ProgramStep
  PROVE  /\ failed => failed'
         /\ Present("FAILURE") => Present("FAILURE")'
         /\ Present("FAILURE")' => Present("FAILURE") \/ failed'
<1> DEFINE Remain == /\ failed => failed'
                     /\ Present("FAILURE") => Present("FAILURE")'
                     /\ Present("FAILURE")' => Present("FAILURE") \/ failed'
<1>1. disk \in [File -> Entry] /\ "FAILURE" \in File
  BY Controls DEF TypeOK
<1>2. ASSUME NEW f \in File \ {"FAILURE"}, NEW r \in Entry,
             \/ disk' = [disk EXCEPT ![f] = r] /\ UNCHANGED failed
             \/ Poison([disk EXCEPT ![f] = r])
      PROVE  Remain
  <2>1. [disk EXCEPT ![f] = r] \in [File -> Entry]
        /\ [disk EXCEPT ![f] = r]["FAILURE"] = disk["FAILURE"]
    BY <1>1
  <2>2. CASE disk' = [disk EXCEPT ![f] = r] /\ UNCHANGED failed
    BY <2>1, <2>2 DEF Present
  <2>3. CASE Poison([disk EXCEPT ![f] = r])
    BY <2>1, <2>3, PoisonKeepsRecord DEF Present, Poison
  <2> QED
    BY <1>2, <2>2, <2>3
<1>3. Poison(disk) => Remain
  BY <1>1, PoisonKeepsRecord DEF Present, Poison
<1>4. UNCHANGED <<disk, failed>> => Remain
  BY DEF Present
<1>5. ASSUME NEW f \in Artifact, FailAt(f) \/ (Register(f) /\ UNCHANGED failed) PROVE Remain
  <2>1. f \in File \ {"FAILURE"}
    BY Controls DEF Control
  <2>2. Whole \in Entry /\ RaisedArtifact(f) \subseteq Entry
    BY <1>1, <2>1, FileTypes, RaisedTypes
  <2> QED
    BY <1>2, <1>5, <2>1, <2>2 DEF FailAt, Register
<1>6. ASSUME NEW f \in Artifact, WritePlain(f) PROVE Remain
  BY <1>5, <1>6 DEF WritePlain
<1>7. ASSUME NEW d, NEW f \in Artifact, NEW R, WriteDataset(d, f, R) PROVE Remain
  BY <1>5, <1>7 DEF WriteDataset, PublishRows
<1>8. Refuse => Remain
  BY <1>3 DEF Refuse
<1>9. /\ PartFiles \subseteq Artifact
      /\ {"slice-membership", "scorecards", "waymax-parity-summary",
          "parity-order-receipt", "determinism-receipt", "scorecard-report"}
           \subseteq Artifact
  BY DEF Artifact, Singletons, Supplemental
<1> HIDE DEF Remain
<1>10. WriteArtifact \/ Fail => Remain
  BY <1>6, <1>7, <1>8, <1>9
     DEF WriteArtifact, Fail, WriteParityOrderReceipt, WriteDeterminismReceipt,
         WriteHumanReadableScorecard, WriteMetricResultsPart, WriteSliceMembership,
         WriteScorecards, WriteWaymaxParitySummary
<1>11. /\ {"FINALIZING", "evaluation-manifest", "COMMITTED", "SUCCESS"}
             \subseteq File \ {"FAILURE"}
       /\ Landings \subseteq Entry /\ Whole \in Entry
       /\ \A f \in File : RaisedWrite(f) \subseteq Entry
  BY <1>1, Controls, FileTypes, RaisedTypes
<1>12. BeginFinalization => Remain
  BY <1>2, <1>3, <1>11 DEF BeginFinalization
<1>13. PublishManifest => Remain
  BY <1>2, <1>3, <1>11 DEF PublishManifest
<1>14. ConfirmPrepared \/ SealBytes \/ AbortFinalization => Remain
  <2>1. AbortFinalization => Remain
    BY <1>3 DEF AbortFinalization
  <2> QED
  BY <1>3, <1>4, <2>1 DEF ConfirmPrepared, SealBytes
<1>15. MarkCommittedForVerification => Remain
  BY <1>2, <1>11 DEF MarkCommittedForVerification
<1>16. WriteSuccess => Remain
  BY <1>2, <1>11 DEF WriteSuccess, WriteSuccessAs
<1> QED
  BY <1>10, <1>12, <1>13, <1>14, <1>15, <1>16 DEF ProgramStep, Finalize, Remain

\* The program moves only while the process lives and has no success, and between
\* the byte seal and SUCCESS it does nothing else.
LEMMA ProgramIsAlive ==
  ASSUME TypeOK, FlagsAgree, ProgramStep
  PROVE  /\ proc = "up" /\ ~successful
         /\ UNCHANGED <<profile, proc, tampered, powerLost>>
         /\ call = "sealed" => WriteSuccess
         /\ Committing' => SealBytes \/ WriteSuccess
<1> USE DEF Idle, Active, FlagsAgree, Committing, ghosts, TypeOK
<1>1. CASE Fail
  BY <1>1 DEF Fail, Refuse
<1>2. CASE WriteArtifact
  BY <1>2 DEF WriteArtifact, WriteParityOrderReceipt, WriteDeterminismReceipt,
              WriteHumanReadableScorecard, WriteMetricResultsPart, WriteSliceMembership,
              WriteScorecards, WriteWaymaxParitySummary, WriteDataset, WritePlain, Refuse
<1>3. CASE BeginFinalization
  BY <1>3 DEF BeginFinalization
<1>4. CASE PublishManifest
  BY <1>4 DEF PublishManifest
<1>5. CASE ConfirmPrepared
  BY <1>5 DEF ConfirmPrepared
<1>6. CASE MarkCommittedForVerification
  BY <1>6 DEF MarkCommittedForVerification, PreparedAndOpen
<1>7. CASE SealBytes
  BY <1>7 DEF SealBytes, CommitAllowed, PreparedAndOpen
<1>8. CASE WriteSuccess
  BY <1>8 DEF WriteSuccess
<1>9. CASE AbortFinalization
  BY <1>9 DEF AbortFinalization, AbortAllowed
<1> QED
  BY <1>1, <1>2, <1>3, <1>4, <1>5, <1>6, <1>7, <1>8, <1>9 DEF ProgramStep, Finalize

\* The byte seal sees no stray, and nothing later leaves one that could go away.
LEMMA StraysRemain ==
  ASSUME VerdictInv, [Next]_vars
  PROVE  StraysStay'
<1> SUFFICES ASSUME Committing',
                    NEW f \in File, disk'[f].bytes # "absent",
                    f \notin registered', f \notin (MarkersOf("success"))'
             PROVE  disk'[f].synced /\ disk'[f].named
  BY DEF StraysStay, PresentFiles, Present, Kept
<1>1. TypeOK /\ FlagsAgree /\ disk \in [File -> Entry]
  BY DEF VerdictInv, SealInvariant, TypeOK
<1>2. (MarkersOf("success"))' = MarkersOf("success") /\ registered' = registered
  <2>1. CASE ProgramStep
    <3>1. profile' = profile /\ (SealBytes \/ WriteSuccess)
      BY <1>1, <2>1, ProgramIsAlive
    <3> QED
      BY <3>1 DEF MarkersOf, SealBytes, WriteSuccess
  <2>2. CASE Crash \/ Environment \/ UNCHANGED vars
    BY <2>2 DEF Crash, Environment, PowerLoss, Tamper, vars, memory, MarkersOf
  <2> QED
    BY <2>1, <2>2 DEF Next, ProgramStep
<1>3. f \notin registered \union MarkersOf("success") /\ f # "SUCCESS"
  BY <1>2 DEF MarkersOf
<1>4. CASE SealBytes
  <2>1. call' = "sealed"
    BY <1>1, <1>4 DEF SealBytes, Committing, CommitAllowed, PreparedAndOpen, Idle
  <2>2. SealHolds /\ disk' = disk
    BY <1>4, <2>1 DEF SealBytes, Idle
  <2>3. f \in registered \union MarkersOf(LastCheckpoint)
    BY <2>2 DEF SealHolds, ExactMembers, PresentFiles, Present
  <2> QED
    BY <1>1, <1>3, <2>3 DEF MarkersOf, LastCheckpoint, TypeOK
<1>5. CASE WriteSuccess
  <2>1. call = "sealed" /\ call' = "idle" /\ ~successful
    BY <1>1, <1>5 DEF WriteSuccess, FlagsAgree
  <2>2. disk'[f] = disk[f]
    <3>1. PICK raised \in BOOLEAN : \E r \in (IF raised THEN RaisedWrite("SUCCESS")
                                               ELSE {Whole}) : WriteSuccessAs(raised, r)
      BY <1>5 DEF WriteSuccess
    <3>2. \E r : disk' = [disk EXCEPT !["SUCCESS"] = r]
      BY <2>1, <3>1 DEF WriteSuccessAs, Committing
    <3> QED
      BY <1>1, <1>3, <3>2
  <2> QED
    BY <1>3, <2>1, <2>2 DEF VerdictInv, StraysStay, Committing, PresentFiles, Present, Kept
<1>6. ASSUME Committing, disk'[f] = disk[f] PROVE disk'[f].synced /\ disk'[f].named
  BY <1>3, <1>6 DEF VerdictInv, StraysStay, PresentFiles, Present, Kept
<1>7. CASE Crash
  <2>1. Committing /\ call # "finalizing"
    BY <1>1, <1>7 DEF Crash, memory, Committing, FlagsAgree
  <2>2. disk'[f] = disk[f]
    BY <1>1, <1>3, <1>7, <2>1 DEF Crash
  <2> QED
    BY <1>6, <2>1, <2>2
<1>8. CASE PowerLoss
  <2>1. Committing
    BY <1>8 DEF PowerLoss, memory, Committing
  <2>2. disk[f].bytes # "absent"
    BY <1>1, <1>8 DEF PowerLoss, PresentFiles, Present, Blank, Entry
  <2>3. disk[f].synced /\ disk[f].named
    BY <1>3, <2>1, <2>2 DEF VerdictInv, StraysStay, PresentFiles, Present, Kept
  <2> QED
    BY <1>1, <1>8, <2>3 DEF PowerLoss
<1>9. CASE \E g \in File : Tamper(g)
  <2>1. PICK g \in File : Tamper(g)
    BY <1>9
  <2>2. Committing
    BY <2>1 DEF Tamper, memory, Committing
  <2>3. f = g => disk'[f] = Foreign
    BY <1>1, <2>1 DEF Tamper
  <2>4. f # g => disk'[f] = disk[f]
    BY <1>1, <2>1 DEF Tamper
  <2> QED
    BY <1>6, <2>2, <2>3, <2>4 DEF Foreign
<1>10. CASE UNCHANGED vars
  BY <1>6, <1>10 DEF vars, memory, Committing
<1>11. ProgramStep => SealBytes \/ WriteSuccess
  BY <1>1, ProgramIsAlive
<1> QED
  BY <1>4, <1>5, <1>7, <1>8, <1>9, <1>10, <1>11 DEF Next, Environment, ProgramStep

LEMMA OwnSuccessRemains ==
  ASSUME VerdictInv, [Next]_vars
  PROVE  OwnSuccess'
<1>1. TypeOK /\ FlagsAgree
  BY DEF VerdictInv, SealInvariant
<1> SUFFICES ASSUME Exact("SUCCESS")' PROVE successful' \/ proc' = "down"
  BY DEF OwnSuccess
<1>2. CASE ~Exact("SUCCESS")
  <2>1. proc = "up" /\ call = "sealed"
    BY <1>1, <1>2, OneAuthor
  <2>2. CASE WriteSuccess
    <3>0. PICK raised \in BOOLEAN : \E r \in (IF raised THEN RaisedWrite("SUCCESS")
                                               ELSE {Whole}) : WriteSuccessAs(raised, r)
      BY <2>2 DEF WriteSuccess
    <3>1. PICK r \in (IF raised THEN RaisedWrite("SUCCESS") ELSE {Whole}) :
             WriteSuccessAs(raised, r)
      BY <3>0
    <3>2. CASE ~raised \/ Reconciles(r)
      BY <3>1, <3>2 DEF WriteSuccessAs
    <3>3. CASE ~(~raised \/ Reconciles(r))
      <4>1. r \in Entry /\ disk \in [File -> Entry] /\ "SUCCESS" \in File \ {"FAILURE"}
        BY <1>1, <3>1, Controls, RaisedTypes, FileTypes DEF TypeOK
      <4>2. disk'["SUCCESS"] = r
        BY <3>1, <3>3, <4>1, PoisonWith DEF WriteSuccessAs
      <4> QED
        BY <3>3, <4>2 DEF Exact, Reconciles
    <3> QED
      BY <3>2, <3>3
  <2>3. CASE Crash \/ PowerLoss
    BY <2>3 DEF Crash, PowerLoss
  <2>4. CASE \E f \in File : Tamper(f)
    BY <1>1, <1>2, <2>4, Controls DEF Tamper, Exact, TypeOK, Foreign
  <2>5. CASE UNCHANGED vars
    BY <1>2, <2>5 DEF vars, Exact
  <2>6. ProgramStep => WriteSuccess
    BY <1>1, <2>1, ProgramIsAlive
  <2> QED
    BY <2>2, <2>3, <2>4, <2>5, <2>6 DEF Next, ProgramStep, Environment
<1>3. CASE Exact("SUCCESS")
  <2>1. successful \/ proc = "down"
    BY <1>3 DEF VerdictInv, OwnSuccess
  <2>2. ~ProgramStep
    BY <1>1, <2>1, ProgramIsAlive
  <2> QED
    BY <2>1, <2>2 DEF Next, ProgramStep, Crash, Environment, PowerLoss, Tamper, vars, memory
<1> QED
  BY <1>2, <1>3

LEMMA VerdictInvHolds == Spec => []VerdictInv
<1>1. Init => OwnSuccess /\ StraysStay
  BY Controls DEF Init, OwnSuccess, StraysStay, Committing, Exact, Blank
<1>2. Init => VerdictInv
  BY <1>1, InitTypes, InitSeals DEF VerdictInv
<1>3. VerdictInv /\ [Next]_vars => VerdictInv'
  BY StepTypes, StepSeals, StraysRemain, OwnSuccessRemains DEF VerdictInv
<1> QED
  BY <1>2, <1>3, PTL DEF Spec

\* The verdict of a reader, and whether something outside touched the run, as the
\* refinement mapping of M5Store has them.
Undecided == proc = "up" /\ ~failed /\ ~successful /\ ~Present("FAILURE")

VerdictNow == IF Accepted THEN "accepted" ELSE IF Undecided THEN "open" ELSE "closed"

Harmed == tampered # "no" \/ powerLost

\* An accepted run is finished: nothing but a crash or outside harm comes after.
LEMMA AcceptedIsFinal ==
  ASSUME VerdictInv, Accepted
  PROVE  /\ Exact("SUCCESS") /\ ~Undecided
         /\ ~ProgramStep
         /\ Crash => Accepted'
<1>1. Exact("SUCCESS") /\ (successful \/ proc = "down")
  BY DEF VerdictInv, OwnSuccess, Accepted, Verifies, BytesIntact, MarkersOf
<1>2. ~ProgramStep
  BY <1>1, ProgramIsAlive DEF VerdictInv, SealInvariant
<1>3. ASSUME Crash PROVE Accepted'
  <2>1. successful /\ call = "idle"
    BY <1>1, <1>3 DEF Crash, VerdictInv, SealInvariant, FlagsAgree, TypeOK
  <2>2. UNCHANGED <<profile, disk, manifest>>
    BY <1>3, <2>1 DEF Crash
  <2> QED
    BY <2>2 DEF Accepted, Verifies, Present, BytesIntact, Exact, MarkersOf, Complete,
                FullCount, Layout, SupplementalComplete, ExactMembers, PresentFiles
<1> QED
  BY <1>1, <1>2, <1>3 DEF Undecided

\* Outside harm never makes a run acceptable.
LEMMA HarmAcceptsNothing ==
  ASSUME VerdictInv, Environment, ~Accepted
  PROVE  ~Accepted'
<1>1. TypeOK /\ disk \in [File -> Entry]
  BY DEF VerdictInv, TypeOK
<1>2. UNCHANGED <<profile, manifest, registered, rows, call, successful>>
  BY DEF Environment, PowerLoss, Tamper, memory
<1>3. MarkersOf("success")' = MarkersOf("success")
  BY <1>2 DEF MarkersOf
<1>4. CASE PowerLoss
  <2> SUFFICES ASSUME Accepted' PROVE FALSE
    OBVIOUS
  <2>1. \A f \in File : \/ disk'[f] = disk[f]
                        \/ disk'[f] = Blank /\ disk[f].bytes # "absent" /\ ~disk[f].named
                        \/ disk'[f].bytes = "other" /\ disk[f].bytes # "absent"
    BY <1>1, <1>4 DEF PowerLoss, PresentFiles, Present, Entry
  <2>2. \A f \in File : disk'[f].bytes = "exact" => disk'[f] = disk[f]
    BY <2>1 DEF Blank
  <2>3. /\ BytesIntact(MarkersOf("success"))' /\ BytesIntact(manifest.listed)'
        /\ ExactMembers(manifest.listed, MarkersOf("success"))'
        /\ ~Present("FAILURE")' /\ Complete(manifest.listed, manifest.rows)'
    BY DEF Accepted, Verifies
  <2>4. MarkersOf("success") \subseteq File /\ manifest.listed \subseteq File
        /\ "SUCCESS" \in MarkersOf("success")
    BY <1>1, Controls DEF MarkersOf, TypeOK
  <2>5. BytesIntact(MarkersOf("success")) /\ BytesIntact(manifest.listed)
    BY <1>2, <1>3, <2>2, <2>3, <2>4 DEF BytesIntact, Exact
  <2>6. Committing /\ manifest.listed = registered
    BY <2>4, <2>5 DEF BytesIntact, VerdictInv, SealInvariant, SuccessNeedsSeal,
                      Committing, FlagsAgree, ManifestIsFinal
  <2>7. \A f \in PresentFiles \ (manifest.listed \union MarkersOf("success")) :
           disk[f].synced /\ disk[f].named
    BY <2>6 DEF VerdictInv, StraysStay, Kept
  <2>8. PresentFiles' = PresentFiles
    <3>1. ASSUME NEW f \in File, disk[f].bytes # "absent" PROVE disk'[f].bytes # "absent"
      <4>1. CASE f \in manifest.listed \union MarkersOf("success")
        BY <1>2, <1>3, <2>3, <4>1 DEF BytesIntact, Exact
      <4>2. CASE f \notin manifest.listed \union MarkersOf("success")
        BY <2>1, <2>7, <3>1, <4>2 DEF PresentFiles, Present
      <4> QED
        BY <4>1, <4>2
    <3> QED
      BY <2>1, <3>1 DEF PresentFiles, Present, Blank
  <2>9. ExactMembers(manifest.listed, MarkersOf("success"))
    BY <1>2, <1>3, <2>3, <2>8 DEF ExactMembers
  <2>10. Complete(manifest.listed, manifest.rows)
    BY <1>2, <2>3 DEF Complete, FullCount, Layout, SupplementalComplete
  <2>11. ~Present("FAILURE")
    BY <2>3, <2>8, Controls DEF PresentFiles, Present
  <2> QED
    BY <2>5, <2>9, <2>10, <2>11 DEF Accepted, Verifies
<1>5. CASE \E f \in File : Tamper(f)
  <2>1. PICK f \in File : Tamper(f)
    BY <1>5
  <2>2. disk'[f] = Foreign
    BY <1>1, <2>1 DEF Tamper
  <2> QED
    BY <2>2 DEF Foreign, Accepted, Verifies, BytesIntact, ExactMembers, PresentFiles,
                Present, Exact
<1> QED
  BY <1>4, <1>5 DEF Environment

\* Every step of the store is a step of its verdict, or leaves it alone.
LEMMA VerdictStep ==
  ASSUME VerdictInv, [Next]_vars
  PROVE  \/ VerdictNow = "open" /\ VerdictNow' \in {"accepted", "closed"}
            /\ Harmed' = Harmed
         \/ Harmed' = TRUE /\ VerdictNow' \in {VerdictNow, "closed"}
         \/ VerdictNow' = VerdictNow /\ Harmed' = Harmed
<1>1. TypeOK /\ FlagsAgree /\ SealInvariant
  BY DEF VerdictInv, SealInvariant
<1>2. CASE ProgramStep
  <2>1. /\ proc = "up" /\ ~successful
        /\ UNCHANGED <<profile, proc, tampered, powerLost>>
    BY <1>1, <1>2, ProgramIsAlive
  <2>2. Harmed' = Harmed
    BY <2>1 DEF Harmed
  <2>3. ~Accepted
    BY <1>2, AcceptedIsFinal
  <2>4. CASE Undecided
    BY <2>2, <2>3, <2>4 DEF VerdictNow
  <2>5. CASE ~Undecided
    <3>1. failed \/ Present("FAILURE")
      BY <2>1, <2>5 DEF Undecided
    <3>2. failed' \/ Present("FAILURE")'
      BY <1>1, <1>2, <3>1, FailuresRemain
    <3>3. ASSUME Accepted' PROVE FALSE
      <4>1. Exact("SUCCESS")' /\ ~Present("FAILURE")'
        BY <3>3 DEF Accepted, Verifies, BytesIntact, MarkersOf
      <4>2. ~Exact("SUCCESS")
        BY <2>1 DEF VerdictInv, OwnSuccess
      <4>3. call = "sealed"
        BY <1>1, <4>1, <4>2, OneAuthor
      <4>4. ~failed
        BY <1>1, <4>3 DEF FlagsAgree
      <4> QED
        BY <1>1, <1>2, <3>1, <4>1, <4>4, FailuresRemain
    <3> QED
      BY <2>2, <2>3, <2>5, <3>2, <3>3 DEF VerdictNow, Undecided
  <2> QED
    BY <2>4, <2>5
<1>3. CASE Crash
  <2>1. Harmed' = Harmed /\ ~Undecided' /\ proc = "up"
    BY <1>3 DEF Crash, ghosts, Harmed, Undecided
  <2>2. CASE Accepted
    BY <1>3, <2>1, <2>2, AcceptedIsFinal DEF VerdictNow
  <2>3. CASE ~Accepted /\ Undecided
    BY <2>1, <2>3 DEF VerdictNow
  <2>4. CASE ~Accepted /\ ~Undecided
    <3>1. ASSUME Accepted' PROVE FALSE
      <4>1. Exact("SUCCESS")' /\ ~Present("FAILURE")'
        BY <3>1 DEF Accepted, Verifies, BytesIntact, MarkersOf
      <4>2. CASE call = "sealed"
        <5>1. ~failed /\ ~successful
          BY <1>1, <4>2 DEF FlagsAgree
        <5>2. Present("FAILURE")
          BY <2>1, <2>4, <5>1 DEF Undecided
        <5> QED
          BY <1>1, <1>3, <4>1, <4>2, <5>2, Controls DEF Crash, Present, TypeOK
      <4>3. CASE call # "sealed"
        <5>1. Exact("SUCCESS")
          BY <1>1, <1>3, <4>1, <4>3, OneAuthor
        <5>2. successful
          BY <2>1, <5>1 DEF VerdictInv, OwnSuccess
        <5>3. UNCHANGED <<profile, disk, manifest>>
          BY <1>1, <1>3, <4>3, <5>2 DEF Crash, FlagsAgree
        <5> QED
          BY <2>4, <3>1, <5>3
             DEF Accepted, Verifies, Present, BytesIntact, Exact, MarkersOf, Complete,
                 FullCount, Layout, SupplementalComplete, ExactMembers, PresentFiles
      <4> QED
        BY <4>2, <4>3
    <3> QED
      BY <2>1, <2>4, <3>1 DEF VerdictNow
  <2> QED
    BY <2>2, <2>3, <2>4
<1>4. CASE Environment
  <2>1. Harmed' = TRUE
    BY <1>4 DEF Environment, PowerLoss, Tamper, Sealed, Harmed
  <2>2. ~Accepted => ~Accepted'
    BY <1>4, HarmAcceptsNothing
  <2>3. Undecided' => Undecided
    <3>1. CASE PowerLoss
      BY <3>1 DEF PowerLoss, Undecided
    <3>2. CASE \E f \in File : Tamper(f)
      <4>1. PICK f \in File : Tamper(f)
        BY <3>2
      <4>2. disk["FAILURE"].bytes # "absent" => disk'["FAILURE"].bytes # "absent"
        BY <1>1, <4>1, Controls DEF Tamper, TypeOK, Foreign
      <4> QED
        BY <4>1, <4>2 DEF Tamper, memory, Undecided, Present
    <3> QED
      BY <1>4, <3>1, <3>2 DEF Environment
  <2>4. Accepted => ~Undecided
    BY AcceptedIsFinal
  <2> QED
    BY <2>1, <2>2, <2>3, <2>4 DEF VerdictNow
<1>5. CASE UNCHANGED vars
  BY <1>5 DEF vars, memory, ghosts, VerdictNow, Harmed, Undecided, Accepted, Verifies,
     Present, BytesIntact, Exact, MarkersOf, Complete, FullCount, Layout,
     SupplementalComplete, ExactMembers, PresentFiles
<1> QED
  BY <1>2, <1>3, <1>4, <1>5 DEF Next, ProgramStep

\* The store implements the verdict that its readers rely on: a run is decided
\* once, no step of the program takes a decision back, and nothing but outside
\* harm does.
THEOREM StoreImplementsVerdict == Spec => ImplementsRunVerdict
<1>1. Init => Verdict!Init
  <2> SUFFICES ASSUME Init PROVE Verdict!Init
    OBVIOUS
  <2>1. ~Accepted /\ Undecided /\ ~Harmed
    BY Controls DEF Init, Accepted, Verifies, BytesIntact, MarkersOf, Exact, Blank,
                    Undecided, Present, Harmed
  <2> QED
    BY <2>1 DEF Verdict!Init, Undecided, Harmed
<1>2. VerdictInv /\ [Next]_vars => Verdict!Next \/ UNCHANGED <<VerdictNow, Harmed>>
  BY VerdictStep DEF Verdict!Next, Verdict!Accept, Verdict!Close, Verdict!Harm,
                     VerdictNow, Harmed, Undecided
<1>3. VerdictInv /\ [Next]_vars => [Verdict!Next]_(<<IF Accepted THEN "accepted"
             ELSE IF proc = "up" /\ ~failed /\ ~successful /\ ~Present("FAILURE")
             THEN "open" ELSE "closed", tampered # "no" \/ powerLost>>)
  BY <1>2 DEF VerdictNow, Harmed, Undecided
<1> QED
  BY <1>1, <1>3, VerdictInvHolds, PTL DEF Spec, ImplementsRunVerdict, Verdict!Spec

-----------------------------------------------------------------------------
(* The command is a caller of the store *)

\* What is inside a case of the metrics is one part of the expected matrix.
LEMMA MemberPart ==
  ASSUME NEW f \in PartFiles, WriteMetricResultsPart(f, CaseKeys[f])
  PROVE  WriteArtifact
BY OfficialAssumption DEF WriteArtifact

\* A step of the command, interrupted or not, calls a method of the store, leaves it
\* alone, or ends the process.
LEMMA CommandCallsStore ==
  ASSUME Command \/ InterruptPersist
  PROVE  [Next]_vars
<1> USE DEF StoreCall, CallStore, Next, Finalize
<1>1. OpenVisit => WriteArtifact
  BY DEF OpenVisit, WriteArtifact
<1>2. PublishAggregates => WriteArtifact
  BY StoreAssumption DEF PublishAggregates, WriteArtifact, Datasets, Singletons
<1>3. PrepareFinalization => Finalize
  BY DEF PrepareFinalization
<1>4. HoldStore \/ HoldPrepared \/ VerifyPrepared => UNCHANGED vars
  BY DEF HoldStore, HoldPrepared, VerifyPrepared, Check
<1>5. ArmVerifiedSuccess => Finalize \/ UNCHANGED vars
  BY DEF ArmVerifiedSuccess, Check
<1>6. CollectTranscript \/ ReadFailureRecord => UNCHANGED vars
  BY DEF CollectTranscript, ReadFailureRecord
<1>7. PromoteSuccess => Finalize \/ UNCHANGED vars
  BY DEF PromoteSuccess, Raise
<1>8. PersistFailure \/ InterruptPersist => Finalize \/ Fail \/ UNCHANGED vars
  BY DEF PersistFailure, InterruptPersist, FailStore
<1>9. EmitStatus => Crash
  BY DEF EmitStatus, Crash
<1> QED
  BY <1>1, <1>2, <1>3, <1>4, <1>5, <1>6, <1>7, <1>8, <1>9 DEF Command, Callback

LEMMA RunStepsAreStoreSteps ==
  ASSUME [RunNext]_<<officialVars, evaluation>>
  PROVE  [Next]_vars
<1>1. RaiseInCallback => UNCHANGED vars
  BY DEF RaiseInCallback
<1>2. WriteMember => WriteArtifact
  BY MemberPart DEF WriteMember, StoreCall, CallStore
<1>3. Visit => [Next]_vars
  BY <1>2 DEF Visit, Check, officialVars, Next
<1>4. Reverify => UNCHANGED vars
  BY DEF Reverify, ReverifyContext, Check
<1>5. OtherCommand => [Next]_vars
  BY CommandCallsStore DEF OtherCommand
<1>6. Disturbance => [Next]_vars
  BY CommandCallsStore DEF Disturbance, officialVars, Next
<1> QED
  BY <1>1, <1>3, <1>4, <1>5, <1>6 DEF RunNext, RunCommand, officialVars

\* Whatever holds of every caller of the store holds of this one.
LEMMA RunImplementsStore == RunSpec => Spec
<1>1. RunInit => Init
  BY DEF RunInit, OfficialInit
<1>2. [RunNext]_<<officialVars, evaluation>> => [Next]_vars
  BY RunStepsAreStoreSteps
<1> QED
  BY <1>1, <1>2, PTL DEF RunSpec, Spec

-----------------------------------------------------------------------------
(* What the command knows at each step *)

\* A store method is under way exactly at the step that called it.
Progress ==
  /\ call = "finalizing" <=> pc = "publish"
  /\ call = "manifest" <=> pc = "confirm"
  /\ call = "sealed" <=> pc = "success"

\* The callback goes on only while nothing has failed.
CallbackIsWell ==
  pc \in CallbackSteps => ~failed /\ ~primary /\ ~interrupted

\* Who is to fail the store: the holder, once it has it. And who is to give a begun
\* finalization up: the holder of the capability, or the callback that is about to
\* hold it.
Holding ==
  /\ pc = "created" => held = "nothing"
  /\ held = "nothing" => pc = "created" \/ interrupted
  /\ finalizing /\ ~failed =>
       held = "prepared" \/ interrupted \/ pc \in {"publish", "confirm", "hold"}
  /\ held = "prepared" \/ pc = "hold" => capability \/ failed \/ successful

\* Success is reported only after commit_finalization has returned.
Reporting ==
  /\ pc = "returned" => outcome = "success"
  /\ report = "success" => outcome = "success" /\ pc \in {"emit", "done"}
  /\ exit # "none" => pc = "done"
  /\ exit = "0" => report = "success"

Unharmed == tampered = "no" /\ ~powerLost

\* Without outside harm the files say no more than the writer knows, and the
\* failure path has seen to the record before the status line.
Recording ==
  Unharmed =>
    /\ Present("FAILURE") => failed
    /\ Present("FINALIZING") \/ Present("evaluation-manifest") => finalizing \/ successful
    /\ pc \in {"read", "emit", "done"} /\ ~Present("SUCCESS") => failed \/ interrupted

CommandInv == Progress /\ CallbackIsWell /\ Holding /\ Reporting /\ Recording

StoreInv == TypeOK /\ SealInvariant

-----------------------------------------------------------------------------
(* Every step keeps it *)

\* A step of the command or its visit that leaves the store alone.
LEMMA StoreAloneKeeps ==
  ASSUME CommandInv, UNCHANGED vars
  PROVE  /\ UNCHANGED <<call, failed, finalizing, capability, successful, outcome,
                        tampered, powerLost, disk, proc>>
         /\ \A f : Present(f)' = Present(f)
         /\ Unharmed' = Unharmed
BY DEF vars, memory, ghosts, Present, Unharmed

\* The checks, the end of the callback and the status line.
LEMMA QuietStepsKeep ==
  ASSUME CommandInv, UNCHANGED vars,
         \/ RaiseInCallback
         \/ UNCHANGED command
         \/ \E at, next \in CallbackSteps \ {"created", "publish", "confirm", "hold"} :
              Check(at, TRUE, next)
         \/ Check("verify_committed", TRUE, "collect")
         \/ HoldStore \/ HoldPrepared \/ CollectTranscript
         \/ Raise("promote", "persist") \/ Raise("returned", "persist")
         \/ ReadFailureRecord
  PROVE  CommandInv'
<1> USE StoreAloneKeeps
<1> USE DEF CommandInv, CallbackSteps
<1>1. CASE RaiseInCallback
  <2>1. /\ pc \in CallbackSteps /\ call = "idle"
        /\ pc' = "collect" /\ (interrupted' <=> pc \in {"created", "hold"})
        /\ UNCHANGED <<held, report, exit>>
    BY <1>1 DEF RaiseInCallback
  <2>2. ~failed /\ ~primary /\ ~interrupted /\ pc \notin {"publish", "confirm", "success"}
    BY <2>1 DEF CallbackIsWell, Progress
  <2>3. Progress' /\ CallbackIsWell' /\ Reporting'
    BY <2>1, <2>2 DEF Progress, CallbackIsWell, Reporting
  <2>4. Holding'
    BY <2>1, <2>2 DEF Holding
  <2>5. Recording'
    BY <2>1 DEF Recording
  <2> QED
    BY <2>3, <2>4, <2>5
<1>2. CASE UNCHANGED command
  BY <1>2 DEF command, Progress, CallbackIsWell, Holding, Reporting, Recording
<1>3. ASSUME NEW at \in CallbackSteps \ {"created", "publish", "confirm", "hold"},
             NEW next \in CallbackSteps \ {"created", "publish", "confirm", "hold"},
             Check(at, TRUE, next)
      PROVE  CommandInv'
  BY <1>3 DEF Check, Progress, CallbackIsWell, Holding, Reporting, Recording
<1>4. CASE Check("verify_committed", TRUE, "collect")
  BY <1>4 DEF Check, Progress, CallbackIsWell, Holding, Reporting, Recording
<1>5. CASE HoldStore
  BY <1>5 DEF HoldStore, Progress, CallbackIsWell, Holding, Reporting, Recording
<1>6. CASE HoldPrepared
  BY <1>6 DEF HoldPrepared, Progress, CallbackIsWell, Holding, Reporting, Recording
<1>7. CASE CollectTranscript
  BY <1>7 DEF CollectTranscript, Progress, CallbackIsWell, Holding, Reporting, Recording
<1>8. CASE Raise("promote", "persist") \/ Raise("returned", "persist")
  BY <1>8 DEF Raise, Progress, CallbackIsWell, Holding, Reporting, Recording
<1>9. CASE ReadFailureRecord
  BY <1>9 DEF ReadFailureRecord, Progress, CallbackIsWell, Holding, Reporting, Recording
<1> QED
  BY <1>1, <1>2, <1>3, <1>4, <1>5, <1>6, <1>7, <1>8, <1>9

\* Success is reported only over the marker.
LEMMA SuccessHasMarker ==
  ASSUME SealInvariant, Unharmed, outcome = "success" \/ successful
  PROVE  Present("SUCCESS")
<1>1. Committing /\ Trusted /\ successful
  BY DEF SealInvariant, FlagsAgree, Unharmed, Committing, Trusted
<1> QED
  BY <1>1 DEF SealInvariant, SealStays, Exact, Present

LEMMA StatusStepsKeep ==
  ASSUME StoreInv, CommandInv,
         \/ pc = "returned" /\ PromoteSuccess
         \/ EmitStatus
  PROVE  CommandInv'
<1>1. CASE pc = "returned" /\ UNCHANGED vars /\ report' = "success" /\ pc' = "emit"
             /\ UNCHANGED <<primary, held, interrupted, transcript, capture, exit>>
  <2>1. Recording'
    BY <1>1, StoreAloneKeeps, SuccessHasMarker
       DEF StoreInv, CommandInv, Recording, Reporting
  <2> QED
    BY <1>1, <2>1, StoreAloneKeeps
       DEF CommandInv, Progress, CallbackIsWell, Holding, Reporting, CallbackSteps
<1>2. CASE Raise("returned", "persist")
  BY <1>2, QuietStepsKeep DEF Raise
<1>3. CASE EmitStatus
  <2>1. /\ UNCHANGED <<call, disk, failed, finalizing, capability, successful, outcome,
                       tampered, powerLost>>
        /\ UNCHANGED <<primary, held, interrupted, report>>
        /\ pc = "emit" /\ pc' = "done"
        /\ exit' = "0" => report = "success"
    BY <1>3 DEF EmitStatus, memory, ghosts
  <2>2. Progress' /\ CallbackIsWell' /\ Holding' /\ Reporting'
    BY <2>1 DEF CommandInv, Progress, CallbackIsWell, Holding, Reporting, CallbackSteps
  <2>3. Recording'
    BY <2>1 DEF CommandInv, Recording, Unharmed, Present
  <2> QED
    BY <2>2, <2>3 DEF CommandInv
<1>4. pc = "returned" => ~Raise("promote", "persist")
  BY DEF Raise
<1> QED
  BY <1>1, <1>2, <1>3, <1>4 DEF PromoteSuccess, CallStore

\* The artifact writers run before the finalization, and _fail too.
LEMMA WritersAreEarly ==
  ASSUME WriteArtifact \/ Fail
  PROVE  /\ ~finalizing
         /\ UNCHANGED <<call, finalizing, capability, successful, outcome>>
BY DEF WriteArtifact, Fail, WriteParityOrderReceipt, WriteDeterminismReceipt,
       WriteHumanReadableScorecard, WriteMetricResultsPart, WriteSliceMembership,
       WriteScorecards, WriteWaymaxParitySummary, WriteDataset, WritePlain, Refuse,
       Active, ghosts

\* What every call of the store keeps.
LEMMA CallsKeep ==
  ASSUME StoreInv, CommandInv, ProgramStep
  PROVE  /\ proc = "up" /\ ~successful
         /\ Unharmed' = Unharmed
         /\ failed => failed'
         /\ failed \in BOOLEAN /\ failed' \in BOOLEAN
         /\ Unharmed /\ Present("FAILURE")' => failed'
<1>1. TypeOK /\ TypeOK' /\ FlagsAgree
  BY StepTypes DEF StoreInv, SealInvariant, ProgramStep, Next
<1>2. UNCHANGED <<tampered, powerLost>> /\ proc = "up" /\ ~successful
  BY <1>1, ProgramIsAlive
<1>3. /\ failed => failed'
      /\ Present("FAILURE")' => Present("FAILURE") \/ failed'
  BY <1>1, FailuresRemain
<1> QED
  BY <1>1, <1>2, <1>3 DEF Unharmed, TypeOK, CommandInv, Recording

\* Writing an artifact, from one step of the callback to the next.
LEMMA WritesKeep ==
  ASSUME StoreInv, CommandInv, WriteArtifact,
         NEW at \in CallbackSteps \ {"created", "publish", "confirm", "hold"},
         NEW next \in CallbackSteps \ {"created", "publish", "confirm", "hold"},
         pc = at, primary' = failed', pc' = IF failed' THEN "collect" ELSE next,
         UNCHANGED <<held, interrupted, report, exit>>
  PROVE  CommandInv'
<1>1. ProgramStep /\ TypeOK
  BY DEF ProgramStep, StoreInv
<1>2. /\ disk'["FINALIZING"] = disk["FINALIZING"]
      /\ disk'["evaluation-manifest"] = disk["evaluation-manifest"]
  BY <1>1, WritersSpareMarkers
<1>3. Progress' /\ CallbackIsWell'
  BY WritersAreEarly, CallsKeep, <1>1
     DEF CommandInv, Progress, CallbackIsWell, CallbackSteps
<1>4. Holding' /\ Reporting'
  BY WritersAreEarly, CallsKeep, <1>1
     DEF CommandInv, Holding, Reporting, CallbackSteps
<1>5. Recording'
  BY WritersAreEarly, CallsKeep, <1>1, <1>2
     DEF CommandInv, Recording, Present, CallbackSteps
<1> QED
  BY <1>3, <1>4, <1>5 DEF CommandInv

\* prepare_finalization, in its three steps.
LEMMA PrepareKeeps ==
  ASSUME StoreInv, CommandInv, PrepareFinalization
  PROVE  CommandInv'
<1>1. disk \in [File -> Entry] /\ Landings \subseteq Entry /\ Whole \in Entry
  BY FileTypes DEF StoreInv, TypeOK
<1>2. /\ {"FINALIZING", "evaluation-manifest"} \subseteq File \ {"FAILURE"}
      /\ \A f \in File : RaisedWrite(f) \subseteq Entry
  BY <1>1, Controls, RaisedTypes
<1>3. FlagsAgree
  BY DEF StoreInv, SealInvariant
<1>4. BeginFinalization \/ PublishManifest \/ ConfirmPrepared => ProgramStep
  BY DEF ProgramStep, Finalize
<1>5. Poison(disk) => failed' /\ UNCHANGED <<disk["FINALIZING"], disk["evaluation-manifest"]>>
  BY <1>1, <1>2, PoisonTypes
<1>6. CASE StoreCall("prepare", BeginFinalization, "publish")
  <2>1. /\ pc = "prepare" /\ (primary' <=> failed') /\ BeginFinalization
        /\ pc' = IF failed' THEN "collect" ELSE "publish"
        /\ UNCHANGED <<held, interrupted, report, exit>>
    BY <1>4, <1>6, CallsKeep DEF StoreCall, CallStore
  <2>2. /\ ~failed /\ ~finalizing /\ call = "idle"
        /\ UNCHANGED <<capability, successful, outcome>>
    BY <2>1, CallsKeep DEF BeginFinalization, Active, Idle, ghosts
  <2>3. IF failed' THEN call' = "idle" ELSE call' = "finalizing" /\ finalizing'
    BY <1>5, <2>1, <2>2, PoisonWith, <1>1, <1>2 DEF BeginFinalization
  <2>4. Present("FINALIZING")' => finalizing' \/ Present("FINALIZING")
    BY <1>1, <1>2, <1>5, <2>1 DEF BeginFinalization, Present
  <2>5. Present("evaluation-manifest")' => Present("evaluation-manifest")
    <3>1. disk' = [disk EXCEPT !["FINALIZING"] = Whole]
          => disk'["evaluation-manifest"] = disk["evaluation-manifest"]
      BY <1>1
    <3>2. ASSUME NEW r \in RaisedWrite("FINALIZING"),
                 Poison([disk EXCEPT !["FINALIZING"] = r])
          PROVE  disk'["evaluation-manifest"] = disk["evaluation-manifest"]
      BY <1>1, <1>2, <3>2, PoisonWith
    <3> QED
      BY <1>5, <2>1, <3>1, <3>2 DEF BeginFinalization, Present
  <2>6. Active
    BY <2>1 DEF BeginFinalization
  <2>7. Progress' /\ CallbackIsWell' /\ Reporting'
    BY <1>4, <2>1, <2>2, <2>3, CallsKeep
       DEF CommandInv, Progress, CallbackIsWell, Reporting, CallbackSteps
  <2>8. Holding'
    BY <1>4, <2>1, <2>2, <2>3, CallsKeep DEF CommandInv, Holding, FlagsAgree
  <2>9. Recording'
    BY <1>4, <2>1, <2>4, <2>5, <2>6, CallsKeep DEF CommandInv, Recording, Active
  <2> QED
    BY <2>7, <2>8, <2>9 DEF CommandInv
<1>7. CASE StoreCall("publish", PublishManifest, "confirm")
  <2>1. /\ pc = "publish" /\ (primary' <=> failed') /\ PublishManifest
        /\ pc' = IF failed' THEN "collect" ELSE "confirm"
        /\ UNCHANGED <<held, interrupted, report, exit>>
    BY <1>4, <1>7, CallsKeep DEF StoreCall, CallStore
  <2>2. /\ ~failed /\ finalizing /\ UNCHANGED <<finalizing, capability, successful, outcome>>
    BY <1>3, <2>1 DEF PublishManifest, FlagsAgree, ghosts, CommandInv, CallbackIsWell,
                      CallbackSteps
  <2>3. call' = IF failed' THEN "idle" ELSE "manifest"
    BY <2>1, <2>2 DEF PublishManifest, Poison
  <2>4. Progress' /\ CallbackIsWell' /\ Reporting'
    BY <1>4, <2>1, <2>2, <2>3, CallsKeep
       DEF CommandInv, Progress, CallbackIsWell, Reporting, CallbackSteps
  <2>5. Holding' /\ Recording'
    BY <1>4, <2>1, <2>2, <2>3, CallsKeep DEF CommandInv, Holding, Recording
  <2> QED
    BY <2>4, <2>5 DEF CommandInv
<1>8. CASE StoreCall("confirm", ConfirmPrepared, "hold")
  <2>1. /\ pc = "confirm" /\ (primary' <=> failed') /\ ConfirmPrepared
        /\ pc' = IF failed' THEN "collect" ELSE "hold"
        /\ UNCHANGED <<held, interrupted, report, exit>>
    BY <1>4, <1>8, CallsKeep DEF StoreCall, CallStore
  <2>2. /\ ~failed /\ finalizing /\ UNCHANGED <<finalizing, successful, outcome>>
        /\ call' = "idle"
    BY <1>3, <2>1 DEF ConfirmPrepared, FlagsAgree, ghosts, CommandInv, CallbackIsWell,
                      CallbackSteps
  <2>3. capability' \/ failed'
    BY <2>1 DEF ConfirmPrepared, Poison
  <2>4. Progress' /\ CallbackIsWell' /\ Reporting'
    BY <1>4, <2>1, <2>2, CallsKeep
       DEF CommandInv, Progress, CallbackIsWell, Reporting, CallbackSteps
  <2>5. Holding' /\ Recording'
    BY <1>4, <2>1, <2>2, <2>3, CallsKeep DEF CommandInv, Holding, Recording
  <2> QED
    BY <2>4, <2>5 DEF CommandInv
<1> QED
  BY <1>6, <1>7, <1>8 DEF PrepareFinalization

\* The commit marker of an official run.
LEMMA MarkKeeps ==
  ASSUME StoreInv, CommandInv,
         StoreCall("mark", MarkCommittedForVerification, "reverify_after_commit")
  PROVE  CommandInv'
<1>1. /\ pc = "mark" /\ (primary' <=> failed') /\ MarkCommittedForVerification
      /\ pc' = IF failed' THEN "collect" ELSE "reverify_after_commit"
      /\ UNCHANGED <<held, interrupted, report, exit>>
      /\ ProgramStep
  BY CallsKeep DEF StoreCall, CallStore, ProgramStep, Finalize
<1>2. /\ ~failed /\ finalizing /\ call = "idle"
      /\ UNCHANGED <<call, finalizing, capability, successful, outcome>>
  BY <1>1 DEF MarkCommittedForVerification, PreparedAndOpen, Idle
<1>3. Progress' /\ CallbackIsWell' /\ Reporting'
  BY <1>1, <1>2, CallsKeep
     DEF CommandInv, Progress, CallbackIsWell, Reporting, CallbackSteps
<1>4. Holding' /\ Recording'
  BY <1>1, <1>2, CallsKeep DEF CommandInv, Holding, Recording
<1> QED
  BY <1>3, <1>4 DEF CommandInv

\* commit_finalization, up to its return.
LEMMA PromoteKeeps ==
  ASSUME StoreInv, CommandInv,
         \/ CallStore("promote", SealBytes, "success", "persist")
         \/ CallStore("success", WriteSuccess, "returned", "persist")
  PROVE  CommandInv'
<1>1. CASE CallStore("promote", SealBytes, "success", "persist")
  <2>1. /\ pc = "promote" /\ (primary' <=> failed') /\ SealBytes
        /\ pc' = IF failed' THEN "persist" ELSE "success"
        /\ UNCHANGED <<held, interrupted, report, exit>>
        /\ ProgramStep
    BY <1>1, CallsKeep DEF CallStore, ProgramStep, Finalize
  <2>2. /\ ~failed /\ finalizing /\ call = "idle"
        /\ UNCHANGED <<finalizing, capability, successful, outcome>>
    BY <2>1 DEF SealBytes, CommitAllowed, PreparedAndOpen, Idle, ghosts
  <2>3. call' = IF failed' THEN "idle" ELSE "sealed"
    BY <2>1, <2>2 DEF SealBytes, Poison
  <2>4. Progress' /\ CallbackIsWell' /\ Reporting'
    BY <2>1, <2>2, <2>3, CallsKeep
       DEF CommandInv, Progress, CallbackIsWell, Reporting, CallbackSteps
  <2>5. Holding' /\ Recording'
    BY <2>1, <2>2, CallsKeep DEF CommandInv, Holding, Recording
  <2> QED
    BY <2>4, <2>5 DEF CommandInv
<1>2. CASE CallStore("success", WriteSuccess, "returned", "persist")
  <2>1. /\ pc = "success" /\ (primary' <=> failed') /\ WriteSuccess
        /\ pc' = IF failed' THEN "persist" ELSE "returned"
        /\ UNCHANGED <<held, interrupted, report, exit>>
        /\ ProgramStep
    BY <1>2, CallsKeep DEF CallStore, ProgramStep, Finalize
  <2>2. ~failed /\ finalizing /\ capability /\ call = "sealed" /\ call' = "idle"
    BY <2>1 DEF WriteSuccess, StoreInv, SealInvariant, FlagsAgree
  <2>3. IF failed' THEN UNCHANGED <<finalizing, capability, successful, outcome>>
                   ELSE successful' /\ ~finalizing' /\ outcome' = "success"
    BY <2>1, <2>2 DEF WriteSuccess, WriteSuccessAs, Poison
  <2>4. Progress' /\ CallbackIsWell' /\ Reporting'
    BY <2>1, <2>2, <2>3, CallsKeep
       DEF CommandInv, Progress, CallbackIsWell, Reporting, CallbackSteps
  <2>5. failed' \/ successful'
    BY <2>3
  <2>6. Holding'
    BY <2>1, <2>3, <2>5 DEF CommandInv, Holding
  <2>7. finalizing' \/ successful'
    BY <2>2, <2>3
  <2>8. Recording'
    BY <2>1, <2>7, CallsKeep DEF Recording
  <2> QED
    BY <2>4, <2>6, <2>8 DEF CommandInv
<1> QED
  BY <1>1, <1>2

\* Failing the store, with the capability or without it.
LEMMA FailStoreKeeps ==
  ASSUME StoreInv, CommandInv, pc = "persist", Recordable, FailStoreAllowed, FailStore,
         pc' \in {"read", "emit"}, report' # "success" \/ report' = report,
         UNCHANGED <<held, exit>>, interrupted => interrupted'
  PROVE  CommandInv'
<1>1. TypeOK
  BY DEF StoreInv
<1>2. ProgramStep /\ Poison(disk)
      /\ UNCHANGED <<call, finalizing, successful, outcome>>
  BY DEF FailStore, ProgramStep, Finalize, AbortFinalization, Fail, Refuse, ghosts
<1>3. failed' /\ UNCHANGED <<disk["FINALIZING"], disk["evaluation-manifest"]>>
  BY <1>1, <1>2, Controls, PoisonTypes DEF TypeOK
<1>4. Progress' /\ CallbackIsWell' /\ Reporting'
  BY <1>2 DEF CommandInv, Progress, CallbackIsWell, Reporting, CallbackSteps
<1>5. Holding'
  BY <1>3 DEF CommandInv, Holding, Recordable
<1>6. Recording'
  BY <1>2, <1>3, CallsKeep DEF CommandInv, Recording, Present
<1> QED
  BY <1>4, <1>5, <1>6 DEF CommandInv

\* _persist_failure finds a run that it need not or cannot fail only where success
\* or a failure is known, or the interrupt came between what the store returned and
\* the holder.
LEMMA PersistKeeps ==
  ASSUME StoreInv, CommandInv, PersistFailure
  PROVE  CommandInv'
<1>1. /\ pc = "persist" /\ pc' \in {"read", "emit"}
      /\ report' # "success" \/ report' = report
      /\ UNCHANGED <<primary, held, interrupted, exit>>
  BY DEF PersistFailure, ReportPersisted
<1>2. CASE UNCHANGED vars /\ ~(Recordable /\ FailStoreAllowed)
  <2>1. Progress' /\ CallbackIsWell' /\ Reporting'
    BY <1>1, <1>2, StoreAloneKeeps
       DEF CommandInv, Progress, CallbackIsWell, Reporting, CallbackSteps
  <2>2. Holding'
    BY <1>1, <1>2, StoreAloneKeeps DEF CommandInv, Holding
  <2>3. Unharmed /\ ~Present("SUCCESS") => failed \/ interrupted
    <3> SUFFICES ASSUME Unharmed, ~Present("SUCCESS"), ~failed, ~interrupted
                 PROVE  FALSE
      OBVIOUS
    <3>1. held # "nothing"
      BY <1>1 DEF CommandInv, Holding
    <3>2. ~successful /\ ~FailStoreAllowed
      BY <1>2, <3>1, SuccessHasMarker
         DEF StoreInv, CommandInv, Recording, Recordable
    <3>3. CASE held = "prepared"
      BY <3>2, <3>3 DEF FailStoreAllowed, AbortAllowed, StoreInv, SealInvariant,
                        CommandInv, Holding, FlagsAgree
    <3>4. CASE held # "prepared"
      BY <1>1, <3>2, <3>4 DEF FailStoreAllowed, Active, CommandInv, Holding, Recording
    <3> QED
      BY <3>3, <3>4
  <2>4. Recording'
    BY <1>1, <1>2, <2>3, StoreAloneKeeps DEF CommandInv, Recording
  <2> QED
    BY <2>1, <2>2, <2>4 DEF CommandInv
<1>3. CASE Recordable /\ FailStoreAllowed /\ FailStore
  BY <1>1, <1>3, FailStoreKeeps
<1> QED
  BY <1>2, <1>3 DEF PersistFailure

\* An interrupt in _persist_failure is remembered where it comes before the store has
\* been failed; after that there is nothing left to do for the record.
LEMMA InterruptKeeps ==
  ASSUME StoreInv, CommandInv, InterruptPersist
  PROVE  CommandInv'
<1>1. /\ pc \in {"persist", "read"} /\ pc' = "emit" /\ report' = "rejected"
      /\ UNCHANGED <<primary, held, exit>>
  BY DEF InterruptPersist
<1>2. CASE pc = "persist" /\ Recordable /\ FailStoreAllowed /\ FailStore
           /\ UNCHANGED interrupted
  BY <1>1, <1>2, FailStoreKeeps
<1>3. CASE UNCHANGED vars /\ interrupted' = (interrupted \/ pc = "persist")
  <2>1. Progress' /\ CallbackIsWell' /\ Reporting'
    BY <1>1, <1>3, StoreAloneKeeps
       DEF CommandInv, Progress, CallbackIsWell, Reporting, CallbackSteps
  <2>2. interrupted \/ pc = "persist" => interrupted'
    BY <1>3
  <2>3. Holding'
    BY <1>1, <1>3, <2>2, StoreAloneKeeps DEF CommandInv, Holding
  <2>4. Recording'
    BY <1>1, <1>3, <2>2, StoreAloneKeeps DEF CommandInv, Recording
  <2> QED
    BY <2>1, <2>3, <2>4 DEF CommandInv
<1> QED
  BY <1>2, <1>3 DEF InterruptPersist

\* A crash, a power cut, interference.
LEMMA OutsideKeeps ==
  ASSUME StoreInv, CommandInv, Crash \/ Environment, UNCHANGED command
  PROVE  CommandInv'
<1>1. FlagsAgree /\ disk \in [File -> Entry]
  BY DEF StoreInv, SealInvariant, TypeOK
<1>2. UNCHANGED <<call, failed, finalizing, capability, successful, outcome>>
  BY DEF Crash, Environment, PowerLoss, Tamper, memory, ghosts
<1>3. Progress' /\ CallbackIsWell' /\ Holding' /\ Reporting'
  BY <1>2 DEF command, CommandInv, Progress, CallbackIsWell, Holding, Reporting
<1>4. CASE Crash
  <2>1. Unharmed' = Unharmed
    BY <1>4 DEF Crash, ghosts, Unharmed
  <2>2. CASE UNCHANGED disk
    BY <1>2, <1>3, <2>1, <2>2 DEF command, CommandInv, Recording, Present
  <2>3. CASE call = "finalizing"
    <3>1. finalizing /\ pc = "publish"
      BY <1>1, <2>3 DEF FlagsAgree, CommandInv, Progress
    <3>2. disk'["FAILURE"] = disk["FAILURE"]
      BY <1>1, <1>4, <2>3, Controls DEF Crash
    <3> QED
      BY <1>2, <1>3, <2>1, <3>1, <3>2 DEF command, CommandInv, Recording, Present
  <2>4. CASE call = "sealed"
    <3>1. finalizing /\ pc = "success"
      BY <1>1, <2>4 DEF FlagsAgree, CommandInv, Progress
    <3>2. disk'["FAILURE"] = disk["FAILURE"]
      BY <1>1, <1>4, <2>4, Controls DEF Crash
    <3> QED
      BY <1>2, <1>3, <2>1, <3>1, <3>2 DEF command, CommandInv, Recording, Present
  <2> QED
    BY <1>4, <2>2, <2>3, <2>4 DEF Crash
<1>5. CASE Environment
  <2>1. ~Unharmed'
    BY <1>5 DEF Environment, PowerLoss, Tamper, Unharmed
  <2> QED
    BY <1>3, <2>1 DEF CommandInv, Recording
<1> QED
  BY <1>4, <1>5

LEMMA CommandKeeps ==
  ASSUME StoreInv, CommandInv, Command \/ InterruptPersist
  PROVE  CommandInv'
<1> USE DEF CallbackSteps
<1>1. CASE OpenVisit \/ PublishAggregates
  <2>1. OpenVisit => WriteArtifact
    BY DEF OpenVisit, StoreCall, CallStore, WriteArtifact
  <2>2. PublishAggregates => WriteArtifact
    BY StoreAssumption DEF PublishAggregates, StoreCall, CallStore, WriteArtifact,
                           Datasets, Singletons
  <2>3. CASE OpenVisit
    BY <2>1, <2>3, WritesKeep DEF OpenVisit, StoreCall, CallStore
  <2>4. CASE PublishAggregates
    BY <2>2, <2>4, WritesKeep DEF PublishAggregates, StoreCall, CallStore
  <2> QED
    BY <1>1, <2>3, <2>4
<1>2. CASE PrepareFinalization
  BY <1>2, PrepareKeeps
<1>3. CASE HoldStore \/ HoldPrepared \/ CollectTranscript \/ ReadFailureRecord
  BY <1>3, QuietStepsKeep DEF HoldStore, HoldPrepared, CollectTranscript, ReadFailureRecord
<1>4. CASE VerifyPrepared
  <2>1. Check("verify_prepared", TRUE, "reverify_before_commit") /\ UNCHANGED vars
    BY <1>4 DEF VerifyPrepared, Check
  <2> QED
    BY <2>1, QuietStepsKeep
<1>5. CASE ArmVerifiedSuccess
  <2>1. Check("verify_committed", Verifies("committed"), "collect")
        => Check("verify_committed", TRUE, "collect") /\ UNCHANGED vars
    BY DEF Check
  <2> QED
    BY <1>5, <2>1, QuietStepsKeep, MarkKeeps DEF ArmVerifiedSuccess
<1>6. CASE PromoteSuccess
  <2>1. Raise("promote", "persist") => UNCHANGED vars
    BY DEF Raise
  <2>2. CASE pc = "returned"
    BY <1>6, <2>2, StatusStepsKeep
  <2>3. CASE pc # "returned"
    BY <1>6, <2>1, <2>3, QuietStepsKeep, PromoteKeeps DEF PromoteSuccess, Raise
  <2> QED
    BY <2>2, <2>3
<1>7. CASE PersistFailure \/ InterruptPersist
  BY <1>7, PersistKeeps, InterruptKeeps
<1>8. CASE EmitStatus
  BY <1>8, StatusStepsKeep
<1> QED
  BY <1>1, <1>2, <1>3, <1>4, <1>5, <1>6, <1>7, <1>8 DEF Command, Callback

LEMMA RunStepKeeps ==
  ASSUME StoreInv, CommandInv, [RunNext]_<<officialVars, evaluation>>
  PROVE  CommandInv'
<1> USE DEF CallbackSteps
<1>1. CASE RaiseInCallback
  BY <1>1, QuietStepsKeep DEF RaiseInCallback
<1>2. CASE WriteMember
  <2>1. WriteArtifact
    BY <1>2, MemberPart DEF WriteMember, StoreCall, CallStore
  <2> QED
    BY <1>2, <2>1, WritesKeep DEF WriteMember, StoreCall, CallStore
<1>3. CASE UNCHANGED officialVars
  BY <1>3, QuietStepsKeep DEF officialVars
<1>4. CASE Visit
  <2>1. Check("visit", PartFiles \subseteq registered, "slice")
        => Check("visit", TRUE, "slice") /\ UNCHANGED vars
    BY DEF Check
  <2> QED
    BY <1>2, <1>3, <1>4, <2>1, QuietStepsKeep DEF Visit
<1>5. CASE Reverify
  <2>1. ASSUME NEW at, NEW next, Check(at, TRUE, next) PROVE UNCHANGED vars
    BY <2>1 DEF Check
  <2> QED
    BY <1>5, <2>1, QuietStepsKeep DEF Reverify, ReverifyContext
<1>6. CASE OtherCommand
  BY <1>6, CommandKeeps DEF OtherCommand
<1>7. CASE Disturbance
  BY <1>3, <1>7, OutsideKeeps, CommandKeeps DEF Disturbance
<1> QED
  BY <1>1, <1>3, <1>4, <1>5, <1>6, <1>7 DEF RunNext, RunCommand

LEMMA InitCommand == RunInit => CommandInv
  BY Controls DEF RunInit, OfficialInit, Init, CommandInv, Progress, CallbackIsWell,
     Holding, Reporting, Recording, Present, Blank

\* In every reachable state the command knows what the store knows.
LEMMA CommandInvHolds == RunSpec => [](StoreInv /\ CommandInv)
<1>1. RunSpec => []StoreInv
  BY RunImplementsStore, SealIsInvariant, PTL DEF StoreInv
<1>2. StoreInv /\ CommandInv /\ [RunNext]_<<officialVars, evaluation>> => CommandInv'
  BY RunStepKeeps
<1>3. RunInit => CommandInv
  BY InitCommand
<1> QED
  BY <1>1, <1>2, <1>3, PTL DEF RunSpec

-----------------------------------------------------------------------------
(* What the exit code and the run directory say *)

\* Exit code 0 means the run verifies as a success, for every cohort and matrix,
\* unless something outside touched it after the seal or a power cut met an fsync
\* error that was read back as success.
THEOREM ExitZeroIsAccepted == RunSpec => []ExitZeroMeansAccepted
<1>1. RunSpec => []CommitSound
  BY RunImplementsStore, CommitIsSound, PTL
<1>2. CommandInv /\ CommitSound => ExitZeroMeansAccepted
  BY DEF CommandInv, Reporting, CommitSound, ExitZeroMeansAccepted
<1> QED
  BY <1>1, <1>2, CommandInvHolds, PTL

\* A command that ends without SUCCESS has seen to the failure record, unless it was
\* interrupted before it held its store, before it held the prepared run, or in
\* _persist_failure before that had failed the store.
THEOREM EveryFailureIsRecorded == RunSpec => []FailureIsRecorded
<1>1. CommandInv => FailureIsRecorded
  BY DEF CommandInv, Reporting, Recording, Unharmed, FailureIsRecorded
<1> QED
  BY <1>1, CommandInvHolds, PTL

-----------------------------------------------------------------------------
(* What went wrong in the visit stays out of the scorecard *)

\* What went wrong is still to be seen, or the evaluation has ended over it: a
\* changed record differs from the accepted one until the visit closes, a wrong
\* answer of Waymax fails the evaluation at once, and a changed file of the accepted
\* run stays changed.
FaultIsVisible ==
  /\ fault \in {"none", "record", "waymax", "artifacts"}
  /\ stage # "over" => accepted \in Cohorts
  /\ stage # "over" /\ fault # "record" => source = accepted
  /\ fault = "record" =>
       \/ stage \in {"failed", "over"}
       \/ source # accepted /\ stage \notin {"finalize", "finalized"}
  /\ fault = "waymax" => stage \in {"failed", "over"}
  /\ fault = "artifacts" => artifacts # "accepted"
  /\ cells # Nothing => stage = "finalized"

\* After the visit only the accepted run can still change, and not after its last
\* check.
FaultIsCaught ==
  /\ pc \in CallbackSteps \ {"created", "parity", "visit"} =>
       stage = "over" /\ fault \in {"none", "artifacts"}
  /\ \/ pc \in {"verify_committed", "promote", "success", "returned"}
     \/ pc = "collect" /\ ~primary
     \/ report = "success"
     => fault = "none"

WitnessInv == FaultIsVisible /\ FaultIsCaught

\* The end of the evaluation hides no fault, for there is nothing left of it.
LEMMA DiscardIsVisible ==
  ASSUME FaultIsVisible, Discard
  PROVE  FaultIsVisible' /\ stage' = "over" /\ fault' = fault
BY DEF FaultIsVisible, Discard, Pass, Honest

\* A changed record is not the accepted one.
LEMMA ChangeIsVisible ==
  ASSUME FaultIsVisible, DiskChanges
  PROVE  /\ FaultIsVisible'
         /\ UNCHANGED stage
         /\ fault = "none"
         /\ stage = "over" => fault' = "artifacts"
<1>1. CASE stage # "over" /\ Fails("record") /\ UNCHANGED <<accepted, artifacts, stage, sums>>
           /\ stage \notin {"failed", "finalize", "finalized"}
           /\ \E i \in Members : source' = [source EXCEPT ![i] = OtherScene]
  <2>1. PICK i \in Members : source' = [source EXCEPT ![i] = OtherScene]
    BY <1>1
  <2>2. accepted \in Cohorts /\ source = accepted /\ fault = "none" /\ fault' = "record"
    BY <1>1 DEF FaultIsVisible, Fails
  <2>3. DOMAIN accepted = Members /\ accepted[i] # OtherScene
    BY <2>2, CohortAssumption
  <2>4. source' # accepted
    BY <2>1, <2>2, <2>3
  <2> QED
    BY <1>1, <2>2, <2>4 DEF FaultIsVisible, sums
<1>2. CASE Fails("artifacts") /\ artifacts' = "changed"
           /\ UNCHANGED <<accepted, source, stage, sums>>
  BY <1>2 DEF FaultIsVisible, Fails, sums
<1> QED
  BY <1>1, <1>2 DEF DiskChanges

\* An honest step of the evaluation keeps the disks; only one of them closes the
\* visit, and it compares the records first.
LEMMA HonestStepIsVisible ==
  ASSUME FaultIsVisible, stage # "over", UNCHANGED disks, UNCHANGED cells, Honest,
         stage # "finalized",
         \/ stage' \in {"member", "reference", "evaluate", "parity", "write", "reload",
                        "close"}
            /\ stage \notin {"failed", "finalize"}
         \/ stage' = "finalize" /\ source = accepted /\ stage \notin {"failed", "finalize"}
         \/ stage' = "failed"
  PROVE  FaultIsVisible'
BY DEF FaultIsVisible, disks, Honest

LEMMA EvaluationIsVisible ==
  ASSUME FaultIsVisible, EvaluationStep
  PROVE  FaultIsVisible'
<1> USE HonestStepIsVisible
<1> USE DEF Pass, Abort, sums
<1>1. CASE ReloadShard
  BY <1>1 DEF ReloadShard
<1>2. CASE TakeMember
  BY <1>2 DEF TakeMember
<1>3. CASE RunReference
  <2>1. PICK frames \in {case.state.log, OtherScene.log}, after \in {case.state, OtherScene} :
          /\ Answered(frames = case.state.log, after)
          /\ IF /\ ValidatedCompact(frames, case.state)
                /\ HistoryBinds(case.state, case.scene) /\ ExactMapping(frames, case.scene)
                /\ Untouched(case.state, after)
             THEN Pass("evaluate") ELSE Abort
    BY <1>3 DEF RunReference
  <2>2. UNCHANGED <<disks, cells>> /\ stage = "reference"
    BY <1>3 DEF RunReference
  <2>3. CASE Honest
    BY <2>1, <2>2, <2>3
  <2>4. CASE Fails("waymax") /\ ~(frames = case.state.log /\ after = case.state)
    <3>1. stage' = "failed"
      BY <2>1, <2>4 DEF ValidatedCompact, Untouched
    <3> QED
      BY <2>2, <2>4, <3>1 DEF FaultIsVisible, Fails, disks
  <2> QED
    BY <2>1, <2>3, <2>4 DEF Answered
<1>4. CASE EvaluateCase
  BY <1>4 DEF EvaluateCase
<1>5. CASE CompareNative
  <2>1. PICK answers \in Comparisons, after \in {case.state, OtherScene} :
          /\ Answered(\A m \in Anchors : answers[m] = "equal", after)
          /\ IF /\ SelectedMember(case) /\ SlotsHoldScene(case.state, case.scene)
                /\ RowsAccepted(answers) /\ Untouched(case.state, after)
             THEN Pass("write") /\ parity' = parity \union {case.index}
             ELSE Abort /\ UNCHANGED parity
    BY <1>5 DEF CompareNative
  <2>2. UNCHANGED <<disks, cells>> /\ stage = "parity"
    BY <1>5 DEF CompareNative
  <2>3. CASE Honest
    BY <2>1, <2>2, <2>3
  <2>4. CASE /\ Fails("waymax")
             /\ ~((\A m \in Anchors : answers[m] = "equal") /\ after = case.state)
    <3>1. RowsAccepted(answers) => \A m \in Anchors : answers[m] = "equal"
      <4> SUFFICES ASSUME NEW m \in Anchors, ParityRow(answers[m]) = "accepted"
                   PROVE  answers[m] = "equal"
        BY DEF RowsAccepted
      <4>1. answers[m] \in {"equal", "another_value", "other_components"}
        BY DEF Comparisons
      <4> QED
        BY <4>1 DEF ParityRow
    <3>2. stage' = "failed"
      BY <2>1, <2>4, <3>1 DEF Untouched
    <3> QED
      BY <2>2, <2>4, <3>2 DEF FaultIsVisible, Fails, disks
  <2> QED
    BY <2>1, <2>3, <2>4 DEF Answered
<1>6. CASE CloseVisit
  BY <1>6 DEF CloseVisit, ShardsUnchanged
<1>7. CASE FinalizeStatistics
  BY <1>7 DEF FinalizeStatistics, FaultIsVisible, disks, Honest
<1> QED
  BY <1>1, <1>2, <1>3, <1>4, <1>5, <1>6, <1>7 DEF EvaluationStep

\* How the rest of the command moves between the steps that the witness is about.
LEMMA CommandMoves ==
  ASSUME StoreInv, CommandInv, Command \/ InterruptPersist
  PROVE  /\ pc' \in CallbackSteps \ {"created", "parity", "visit"} =>
              pc \in CallbackSteps \ {"created", "parity", "visit"}
         /\ pc' # "verify_committed"
         /\ pc' \in {"promote", "success", "returned"} =>
              pc \in {"promote", "success"} \/ (pc = "collect" /\ ~primary)
         /\ pc' = "collect" /\ ~primary' => pc = "verify_committed"
         /\ report' = "success" => report = "success" \/ pc = "returned"
<1> USE DEF CallbackSteps
<1>1. failed' \in BOOLEAN
  <2>1. TypeOK'
    BY StepTypes, CommandCallsStore DEF StoreInv
  <2> QED
    BY <2>1 DEF TypeOK
<1>2. CASE OpenVisit
  BY <1>1, <1>2 DEF OpenVisit, StoreCall, CallStore
<1>3. CASE PublishAggregates
  BY <1>1, <1>3 DEF PublishAggregates, StoreCall, CallStore
<1>4. CASE PrepareFinalization
  BY <1>1, <1>4 DEF PrepareFinalization, StoreCall, CallStore
<1>5. CASE HoldStore \/ HoldPrepared \/ VerifyPrepared
  BY <1>5 DEF HoldStore, HoldPrepared, VerifyPrepared, Check
<1>6. CASE ArmVerifiedSuccess
  BY <1>1, <1>6 DEF ArmVerifiedSuccess, StoreCall, CallStore, Check
<1>7. CASE CollectTranscript
  BY <1>7 DEF CollectTranscript, CleanRun
<1>8. CASE PromoteSuccess
  BY <1>1, <1>8 DEF PromoteSuccess, CallStore, Raise
<1>9. CASE PersistFailure \/ InterruptPersist \/ ReadFailureRecord \/ EmitStatus
  BY <1>9 DEF PersistFailure, ReportPersisted, InterruptPersist, ReadFailureRecord, EmitStatus
<1> QED
  BY <1>2, <1>3, <1>4, <1>5, <1>6, <1>7, <1>8, <1>9 DEF Command, Callback

LEMMA KeptEvaluation ==
  ASSUME FaultIsVisible, KeepEvaluation
  PROVE  /\ FaultIsVisible' /\ fault' = fault
         /\ stage = "over" => stage' = "over"
<1>1. CASE UNCHANGED evaluation
  BY <1>1 DEF evaluation, disks, sums, FaultIsVisible
<1>2. CASE Discard
  BY <1>2, DiscardIsVisible
<1> QED
  BY <1>1, <1>2 DEF KeepEvaluation

\* One step of the command or around it.
LEMMA WitnessStep ==
  ASSUME StoreInv, CommandInv, WitnessInv, [RunNext]_<<officialVars, evaluation>>
  PROVE  WitnessInv'
<1> USE DEF WitnessInv
<1>1. CASE RaiseInCallback /\ Discard
  <2>1. FaultIsVisible' /\ fault' = fault
    BY <1>1, DiscardIsVisible
  <2>2. pc' = "collect" /\ primary' /\ UNCHANGED report
    BY <1>1 DEF RaiseInCallback
  <2> QED
    BY <2>1, <2>2 DEF FaultIsCaught, CallbackSteps
<1>2. CASE pc = "visit" /\ EvaluationStep /\ UNCHANGED officialVars
  <2>1. UNCHANGED <<pc, primary, report>> /\ pc = "visit" /\ report # "success"
    BY <1>2 DEF officialVars, command, CommandInv, Reporting
  <2> QED
    BY <1>2, <2>1, EvaluationIsVisible DEF FaultIsCaught
<1>3. CASE WriteMember
  <2>1. /\ pc = "visit" /\ (primary' <=> failed') /\ UNCHANGED report
        /\ pc' = IF failed' THEN "collect" ELSE "visit"
    <3>1. WriteArtifact
      BY <1>3, MemberPart DEF WriteMember, StoreCall, CallStore
    <3>2. ProgramStep
      BY <3>1 DEF ProgramStep
    <3> QED
      BY <1>3, <3>2, CallsKeep DEF WriteMember, StoreCall, CallStore
  <2>2. report # "success"
    BY <2>1 DEF CommandInv, Reporting
  <2>3. CASE failed'
    <3>1. Discard
      BY <1>3, <2>3 DEF WriteMember
    <3> QED
      BY <2>1, <2>2, <2>3, <3>1, DiscardIsVisible DEF FaultIsCaught, CallbackSteps
  <2>4. CASE ~failed'
    <3>1. AddCase /\ stage = "write"
      BY <1>3, <2>4 DEF WriteMember
    <3>2. FaultIsVisible'
      BY <3>1, HonestStepIsVisible DEF AddCase, Pass
    <3> QED
      BY <2>1, <2>2, <2>4, <3>2 DEF FaultIsCaught, CallbackSteps
  <2> QED
    BY <2>3, <2>4
<1>4. CASE /\ stage = "finalized"
           /\ Check("visit", PartFiles \subseteq registered, "slice") /\ Discard
  <2>1. FaultIsVisible' /\ stage' = "over" /\ fault' = fault
    BY <1>4, DiscardIsVisible
  <2>2. fault \in {"none", "artifacts"}
    BY <1>4 DEF FaultIsVisible
  <2>3. pc = "visit" /\ pc' = "slice" /\ report' = report /\ report # "success"
    BY <1>4 DEF Check, CommandInv, Reporting
  <2> QED
    BY <2>1, <2>2, <2>3 DEF FaultIsCaught, CallbackSteps
<1>5. CASE Reverify
  <2>1. UNCHANGED evaluation /\ artifacts = "accepted"
    BY <1>5 DEF Reverify, AcceptedRunUnchanged
  <2>2. FaultIsVisible' /\ UNCHANGED <<stage, fault>>
    BY <2>1 DEF evaluation, disks, sums, FaultIsVisible
  <2>3. /\ pc \in {"reverify_before_prepare", "reverify_before_commit",
                   "reverify_after_commit"}
        /\ UNCHANGED report /\ pc' \notin {"collect", "promote", "success", "returned"}
    BY <1>5 DEF Reverify, ReverifyContext, Check
  <2>4. fault = "none" /\ stage = "over"
    BY <2>1, <2>3 DEF FaultIsCaught, FaultIsVisible, CallbackSteps
  <2> QED
    BY <2>2, <2>4 DEF FaultIsCaught
<1>6. CASE OtherCommand
  <2>1. FaultIsVisible' /\ fault' = fault /\ (stage = "over" => stage' = "over")
    BY <1>6, KeptEvaluation DEF OtherCommand
  <2>2. Command
    BY <1>6 DEF OtherCommand
  <2> QED
    BY <2>1, <2>2, CommandMoves DEF FaultIsCaught
<1>7. CASE Disturbance
  <2>1. CASE (Crash \/ Environment) /\ UNCHANGED command /\ KeepEvaluation
    BY <2>1, KeptEvaluation DEF command, FaultIsCaught
  <2>2. CASE /\ pc \in CallbackSteps \ {"verify_committed"}
             /\ DiskChanges /\ UNCHANGED officialVars
    <3>1. FaultIsVisible' /\ UNCHANGED stage /\ (stage = "over" => fault' = "artifacts")
      BY <2>2, ChangeIsVisible
    <3>2. UNCHANGED <<pc, report>> /\ report # "success"
      BY <2>2 DEF officialVars, command, CommandInv, Reporting, CallbackSteps
    <3> QED
      BY <2>2, <3>1, <3>2 DEF FaultIsCaught, CallbackSteps
  <2>3. CASE InterruptPersist /\ KeepEvaluation
    BY <2>3, KeptEvaluation, CommandMoves DEF InterruptPersist, FaultIsCaught
  <2> QED
    BY <1>7, <2>1, <2>2, <2>3 DEF Disturbance
<1>8. CASE UNCHANGED <<officialVars, evaluation>>
  BY <1>8 DEF officialVars, command, evaluation, disks, sums, FaultIsVisible,
              FaultIsCaught
<1> QED
  BY <1>1, <1>2, <1>3, <1>4, <1>5, <1>6, <1>7, <1>8 DEF RunNext, RunCommand, Visit

LEMMA WitnessHolds == RunSpec => []WitnessInv
<1>1. RunInit => WitnessInv
  BY DEF RunInit, OfficialInit, EvaluationInit, WitnessInv, FaultIsVisible, FaultIsCaught,
         CallbackSteps
<1>2. StoreInv /\ CommandInv /\ WitnessInv /\ [RunNext]_<<officialVars, evaluation>>
        => WitnessInv'
  BY WitnessStep
<1> QED
  BY <1>1, <1>2, CommandInvHolds, PTL DEF RunSpec

\* Nothing that went wrong while the cohort was visited goes into a scorecard, and a
\* command that exits with 0 ran on the accepted run from its first record to its
\* commit marker.
THEOREM FaultsAreWitnessed == RunSpec => []EvaluationIsWitnessed
<1>1. CommandInv /\ WitnessInv => EvaluationIsWitnessed
  BY DEF CommandInv, Reporting, WitnessInv, FaultIsVisible, FaultIsCaught,
         EvaluationIsWitnessed
<1> QED
  BY <1>1, CommandInvHolds, WitnessHolds, PTL

-----------------------------------------------------------------------------
(* The scorecard says what the accepted sources give *)

\* Tabulation is for the model checker only.
LEMMA TabulatedIsSame ==
  ASSUME NEW f
  PROVE  Tabulated(f) = f
BY DEF Tabulated

\* A member of an accepted cohort is a scene the tables know.
LEMMA MembersAreScenes ==
  ASSUME NEW c \in Cohorts, NEW i \in Members
  PROVE  c[i] \in Scenes
<1>1. c[i] \in Range(c)
  BY CohortAssumption DEF Range
<1> QED
  BY <1>1 DEF Scenes

\* What an evaluated case has passed: its results are there exactly when the source
\* is eligible, and all policies have the same components.
LEMMA EvaluableIsPaired ==
  ASSUME NEW scene \in Scenes, Evaluable[scene]
  PROVE  /\ \A p \in Policies, m \in Metrics :
              Results[scene][p][m].valid = Eligibility(m, scene)
         /\ \A p, q \in Policies, m \in Metrics :
              Results[scene][p][m].components = Results[scene][q][m].components
<1> DEFINE Gates(s, r) == /\ \A e \in Executions : SameLifecycle(s, Rollouts[s][e])
                          /\ AgreesWithSource(s, r) /\ ZeroOracleHolds(r)
                          /\ Paired(r) /\ ReferenceIsReplay(r)
<1>1. Evaluable = [s \in Scenes |-> Gates(s, Results[s])]
  BY TabulatedIsSame DEF Evaluable
<1>2. AgreesWithSource(scene, Results[scene]) /\ Paired(Results[scene])
  BY <1>1
<1>3. Policies \subseteq Executions
  BY DEF Executions
<1> QED
  BY <1>2, <1>3 DEF AgreesWithSource, Paired

ResultsOf(scene) == [p \in Policies |-> Results[scene][p]]

\* What has been added is what the accepted scene of the member gives, and so is what
\* is about to be added.
MembersAreAccepted ==
  /\ stage \in {"reference", "evaluate", "parity", "write"} =>
       case = [index |-> case.index, scene |-> accepted[case.index], state |-> case.state]
  /\ stage \in {"parity", "write"} =>
       /\ measured.results = ResultsOf(case.scene)
       /\ measured.slices = Membership(case.scene)
       /\ Evaluable[case.scene]
  /\ \A i \in DOMAIN scalars :
       scalars[i] = ResultsOf(accepted[i]) /\ Evaluable[accepted[i]]
  /\ \A i \in DOMAIN members : members[i] = Membership(accepted[i])

\* The cells are made of all members.
CellsAreOfMembers ==
  stage = "finalized" =>
    /\ DOMAIN scalars = Members /\ DOMAIN members = Members
    /\ cells = [k \in Metrics \X Slices \X Contrasts |->
                  Cell(scalars, members, k[1], k[2], k[3])]

ScoreInv == MembersAreAccepted /\ CellsAreOfMembers

\* Steps that leave the member under evaluation and the sums alone.
LEMMA OtherStepsScore ==
  ASSUME ScoreInv, UNCHANGED <<accepted, scalars, members>>,
         stage' # "finalized",
         \/ stage' \notin {"reference", "evaluate", "parity", "write"}
         \/ stage' = stage /\ UNCHANGED memberVars
  PROVE  ScoreInv'
BY DEF ScoreInv, MembersAreAccepted, CellsAreOfMembers, memberVars

LEMMA DiscardScores ==
  ASSUME Discard
  PROVE  ScoreInv'
<1>1. DOMAIN Nothing = {}
  BY DEF Nothing
<1> QED
  BY <1>1 DEF Discard, Pass, ScoreInv, MembersAreAccepted, CellsAreOfMembers

LEMMA EvaluationScores ==
  ASSUME ScoreInv, EvaluationStep
  PROVE  ScoreInv'
<1> USE DEF Pass, Abort, disks, sums, memberVars
<1>1. CASE ReloadShard \/ CloseVisit
  BY <1>1, OtherStepsScore DEF ReloadShard, CloseVisit
<1>2. CASE TakeMember
  <2>1. CASE stage' = "failed"
    BY <1>2, <2>1, OtherStepsScore DEF TakeMember
  <2>2. CASE stage' = "reference"
    BY <1>2, <2>2 DEF TakeMember, ScoreInv, MembersAreAccepted, CellsAreOfMembers
  <2> QED
    BY <1>2, <2>1, <2>2 DEF TakeMember
<1>3. CASE RunReference \/ CompareNative
  <2>1. /\ UNCHANGED <<accepted, scalars, members, measured>>
        /\ \E state : case' = [case EXCEPT !.state = state]
        /\ stage \in {"reference", "parity"}
        /\ stage = "reference" => stage' \in {"evaluate", "failed"}
        /\ stage = "parity" => stage' \in {"write", "failed"}
    BY <1>3 DEF RunReference, CompareNative, Answered
  <2>2. case'.index = case.index /\ case'.scene = case.scene
        /\ case' = [index |-> case'.index, scene |-> accepted[case'.index],
                    state |-> case'.state]
    <3>1. case = [index |-> case.index, scene |-> accepted[case.index],
                  state |-> case.state]
      BY <2>1 DEF ScoreInv, MembersAreAccepted
    <3>2. PICK state : case' = [case EXCEPT !.state = state]
      BY <2>1
    <3> QED
      BY <3>1, <3>2
  <2>3. MembersAreAccepted'
    BY <2>1, <2>2 DEF ScoreInv, MembersAreAccepted
  <2> QED
    BY <2>1, <2>3 DEF ScoreInv, CellsAreOfMembers
<1>4. CASE EvaluateCase
  <2>1. CASE Evaluable[case.scene]
    BY <1>4, <2>1 DEF EvaluateCase, ScoreInv, MembersAreAccepted, CellsAreOfMembers,
                      ResultsOf
  <2>2. CASE ~Evaluable[case.scene]
    BY <1>4, <2>2, OtherStepsScore DEF EvaluateCase
  <2> QED
    BY <2>1, <2>2
<1>5. CASE FinalizeStatistics
  <2>1. CASE stage' = "failed"
    BY <1>5, <2>1, OtherStepsScore DEF FinalizeStatistics
  <2>2. CASE stage' = "finalized"
    BY <1>5, <2>2 DEF FinalizeStatistics, ScoreInv, MembersAreAccepted,
                      CellsAreOfMembers
  <2> QED
    BY <1>5, <2>1, <2>2 DEF FinalizeStatistics
<1> QED
  BY <1>1, <1>2, <1>3, <1>4, <1>5 DEF EvaluationStep

\* The accumulator adds the member under its own index.
LEMMA AddCaseScores ==
  ASSUME ScoreInv, AddCase
  PROVE  ScoreInv'
<1>1. /\ scalars' = With(scalars, case.index, measured.results)
      /\ members' = With(members, case.index, measured.slices)
      /\ stage' \in {"member", "reload", "close"} /\ accepted' = accepted
  BY DEF AddCase, SliceKey, Pass, disks
<1>2. /\ measured.results = ResultsOf(accepted[case.index])
      /\ measured.slices = Membership(accepted[case.index])
      /\ Evaluable[accepted[case.index]]
  BY DEF AddCase, ScoreInv, MembersAreAccepted
<1>3. ASSUME NEW i \in DOMAIN scalars'
      PROVE  scalars'[i] = ResultsOf(accepted[i]) /\ Evaluable[accepted[i]]
  BY <1>1, <1>2, <1>3 DEF With, ScoreInv, MembersAreAccepted
<1>4. ASSUME NEW i \in DOMAIN members'
      PROVE  members'[i] = Membership(accepted[i])
  BY <1>1, <1>2, <1>4 DEF With, ScoreInv, MembersAreAccepted
<1> QED
  BY <1>1, <1>3, <1>4 DEF ScoreInv, MembersAreAccepted, CellsAreOfMembers

LEMMA ScoreStep ==
  ASSUME ScoreInv, [RunNext]_<<officialVars, evaluation>>
  PROVE  ScoreInv'
<1>1. CASE UNCHANGED evaluation
  BY <1>1 DEF evaluation, disks, sums, memberVars, ScoreInv, MembersAreAccepted,
              CellsAreOfMembers
<1>2. CASE Discard
  BY <1>2, DiscardScores
<1>3. CASE EvaluationStep
  BY <1>3, EvaluationScores
<1>4. CASE AddCase
  BY <1>4, AddCaseScores
<1>5. CASE DiskChanges
  BY <1>5 DEF DiskChanges, sums, memberVars, ScoreInv, MembersAreAccepted,
              CellsAreOfMembers
<1> QED
  BY <1>1, <1>2, <1>3, <1>4, <1>5
     DEF RunNext, RunCommand, Visit, WriteMember, Reverify, OtherCommand, Disturbance,
         KeepEvaluation

\* The pairs of a cell are the eligible members of its slice, and no pair lacks a side.
LEMMA CellIsPaired ==
  ASSUME ScoreInv, stage = "finalized", accepted \in Cohorts,
         NEW m \in Metrics, NEW s \in Slices, NEW contrast \in Contrasts
  PROVE  LET cell == cells[<<m, s, contrast>>]
             eligible == {i \in Members : Eligibility(m, accepted[i])}
         IN  /\ cell.paired = Cardinality({i \in eligible : s \in members[i]})
             /\ cell.status # "pairing_incomplete"
<1> DEFINE inSlice == {i \in DOMAIN members : s \in members[i]}
           Rows(p) == [i \in inSlice |-> scalars[i][p][m]]
           a == Rows(contrast[1])
           b == Rows(contrast[2])
           paired == {i \in DOMAIN a : a[i].valid /\ b[i].valid}
<1>1. contrast[1] \in Policies /\ contrast[2] \in Policies
  BY DEF Contrasts, Policies
<1>2. cells[<<m, s, contrast>>] = AnalyzePairedCell(m, s, a, b)
  BY DEF ScoreInv, CellsAreOfMembers, Cell
<1>3. DOMAIN members = Members /\ DOMAIN scalars = Members
  BY DEF ScoreInv, CellsAreOfMembers
<1>4. ASSUME NEW i \in inSlice
      PROVE  /\ a[i].valid = Eligibility(m, accepted[i])
             /\ b[i].valid = Eligibility(m, accepted[i])
             /\ a[i].components = b[i].components
  <2>1. i \in Members /\ accepted[i] \in Scenes
    BY <1>3, MembersAreScenes
  <2>2. scalars[i] = ResultsOf(accepted[i]) /\ Evaluable[accepted[i]]
    BY <1>3, <2>1 DEF ScoreInv, MembersAreAccepted
  <2>3. /\ a[i] = Results[accepted[i]][contrast[1]][m]
        /\ b[i] = Results[accepted[i]][contrast[2]][m]
    BY <1>1, <2>2 DEF ResultsOf
  <2>4. /\ \A p \in Policies : Results[accepted[i]][p][m].valid = Eligibility(m, accepted[i])
        /\ \A p, q \in Policies :
             Results[accepted[i]][p][m].components = Results[accepted[i]][q][m].components
    BY <2>1, <2>2, EvaluableIsPaired
  <2> HIDE DEF a, b
  <2> QED
    BY <1>1, <2>3, <2>4
<1>5. paired = {i \in {j \in Members : Eligibility(m, accepted[j])} : s \in members[i]}
  BY <1>3, <1>4
<1>6. PairingComplete(a, b)
  BY <1>4 DEF PairingComplete
<1> HIDE DEF a, b
<1>7. /\ AnalyzePairedCell(m, s, a, b).paired = Cardinality(paired)
      /\ AnalyzePairedCell(m, s, a, b).status # "pairing_incomplete"
  BY <1>6 DEF AnalyzePairedCell
<1> QED
  BY <1>2, <1>5, <1>7

LEMMA ScoreHolds == RunSpec => []ScoreInv
<1>1. RunInit => ScoreInv
  <2>1. DOMAIN Nothing = {}
    BY DEF Nothing
  <2> QED
    BY <2>1 DEF RunInit, EvaluationInit, ScoreInv, MembersAreAccepted, CellsAreOfMembers
<1>2. ScoreInv /\ [RunNext]_<<officialVars, evaluation>> => ScoreInv'
  BY ScoreStep
<1> QED
  BY <1>1, <1>2, PTL DEF RunSpec

\* What the scorecard sums up of a member is what its accepted scene gives, and how
\* many pairs a cell has is a fact of the sources alone; no cell misses a side.
THEOREM CellsArePaired == RunSpec => []EveryCellIsPaired
<1>1. RunSpec => []FaultIsVisible
  BY WitnessHolds, PTL DEF WitnessInv
<1>2. FaultIsVisible /\ ScoreInv => EveryCellIsPaired
  <2> SUFFICES ASSUME FaultIsVisible, ScoreInv, stage = "finalized"
               PROVE  EveryCellIsPaired
    BY DEF EveryCellIsPaired
  <2>1. accepted \in Cohorts
    BY DEF FaultIsVisible
  <2>2. DOMAIN members = Members /\ DOMAIN scalars = Members
    BY DEF ScoreInv, CellsAreOfMembers
  <2>3. \A i \in Members : members[i] = Membership(accepted[i])
    BY <2>2 DEF ScoreInv, MembersAreAccepted
  <2>4. \A i \in Members, p \in Policies : scalars[i][p] = Results[accepted[i]][p]
    BY <2>2 DEF ScoreInv, MembersAreAccepted, ResultsOf
  <2> QED
    BY <2>1, <2>3, <2>4, CellIsPaired DEF EveryCellIsPaired
<1> QED
  BY <1>1, <1>2, ScoreHolds, PTL

-----------------------------------------------------------------------------
(* Induction over a set *)

\* What holds of zero and goes from a number to the next holds of all.
LEMMA UpFromZero ==
  ASSUME NEW Good, 0 \in Good, \A n \in Nat : n \in Good => n + 1 \in Good
  PROVE  Nat \subseteq Good
<1> DEFINE Bad == {n \in Nat : n \notin Good}
           R == OpToRel(<, Nat)
<1>1. SUFFICES ASSUME Bad # {} PROVE FALSE
  OBVIOUS
<1>2. PICK n \in Bad : \A k \in Bad : <<k, n>> \notin R
  <2>1. IsWellFoundedOn(R, Nat)
    BY NatLessThanWellFounded
  <2>2. Bad \subseteq Nat
    OBVIOUS
  <2> HIDE DEF Bad, R
  <2> QED
    BY <1>1, <2>1, <2>2, WFMin
<1>3. n \in Nat /\ n # 0
  OBVIOUS
<1>4. \A k \in Bad : ~(k < n)
  BY <1>2, Zenon DEF OpToRel
<1>5. n - 1 \in Good
  BY <1>3, <1>4
<1> QED
  BY <1>3, <1>5

\* What holds of a finite set if it does of the set without any one of its members.
LEMMA UpFromEmpty ==
  ASSUME NEW S, IsFiniteSet(S), NEW Good,
         \A T \in SUBSET S : (\A x \in T : T \ {x} \in Good) => T \in Good
  PROVE  SUBSET S \subseteq Good
<1> DEFINE Bad == {T \in SUBSET S : T \notin Good}
           R == StrictSubsetOrdering(S)
<1>1. SUFFICES ASSUME Bad # {} PROVE FALSE
  OBVIOUS
<1>2. PICK T \in Bad : \A U \in Bad : <<U, T>> \notin R
  <2>1. IsWellFoundedOn(R, SUBSET S)
    BY FS_StrictSubsetOrderingWellFounded, FS_FiniteSubsetsOfFinite
  <2>2. Bad \subseteq SUBSET S
    OBVIOUS
  <2> HIDE DEF Bad, R
  <2> QED
    BY <1>1, <2>1, <2>2, WFMin
<1>3. ASSUME NEW x \in T PROVE T \ {x} \in Good
  <2>1. <<T \ {x}, T>> \in R
    BY <1>2 DEF StrictSubsetOrdering
  <2> QED
    BY <1>2, <2>1
<1> QED
  BY <1>2, <1>3

\* A sum of zeros is zero.
LEMMA NothingAddsUp ==
  ASSUME NEW S, IsFiniteSet(S)
  PROVE  SumFunction([x \in S |-> 0]) = 0
<1> DEFINE f == [x \in S |-> 0]
           Of(T) == CHOOSE x \in T : TRUE
           Sums(s) == s = [T \in SUBSET S |-> IF T = {} THEN 0 ELSE f[Of(T)] + s[T \ {Of(T)}]]
           sum == CHOOSE s : Sums(s)
           zero == [T \in SUBSET S |-> 0]
<1>1. SumFunction(f) = sum[S]
  <2>1. DOMAIN f = S
    OBVIOUS
  <2> QED
    BY <2>1 DEF SumFunction, SumFunctionOnSet, FoldFunctionOnSet, MapThenFoldSet
<1>2. Sums(zero)
  <2>1. ASSUME NEW T \in SUBSET S
        PROVE  zero[T] = IF T = {} THEN 0 ELSE f[Of(T)] + zero[T \ {Of(T)}]
    <3>1. T # {} => Of(T) \in S
      OBVIOUS
    <3> HIDE DEF Of
    <3> QED
      BY <3>1
  <2> HIDE DEF Of, f
  <2> QED
    BY <2>1
<1>3. Sums(sum)
  <2> HIDE DEF Sums, zero
  <2> QED
    BY <1>2
<1> DEFINE Good == {T \in SUBSET S : sum[T] = 0}
<1>4. ASSUME NEW T \in SUBSET S, \A x \in T : T \ {x} \in Good PROVE T \in Good
  <2>1. CASE T = {}
    <3>1. sum[T] = IF T = {} THEN 0 ELSE f[Of(T)] + sum[T \ {Of(T)}]
      <4> HIDE DEF sum, f, Of
      <4> QED
        BY <1>3
    <3> QED
      BY <2>1, <3>1
  <2>2. CASE T # {}
    <3>1. sum[T] = f[Of(T)] + sum[T \ {Of(T)}]
      <4> HIDE DEF sum, f, Of
      <4> QED
        BY <1>3, <2>2
    <3>2. Of(T) \in T
      BY <2>2
    <3>3. f[Of(T)] = 0
      BY <3>2
    <3>4. sum[T \ {Of(T)}] = 0
      <4> HIDE DEF sum, Of
      <4> QED
        BY <1>4, <3>2
    <3> HIDE DEF sum, f, Of
    <3>5. sum[T] = 0
      BY <3>1, <3>3, <3>4
    <3> QED
      BY <3>5
  <2> QED
    BY <2>1, <2>2
<1>5. SUBSET S \subseteq Good
  <2> HIDE DEF Good
  <2> QED
    BY <1>4, UpFromEmpty
<1>6. sum[S] = 0
  <2> HIDE DEF sum
  <2> QED
    BY <1>5
<1> QED
  BY <1>1, <1>6

-----------------------------------------------------------------------------
(* The rollouts of an honest record *)

IsState(state) ==
  state = [valid |-> state.valid, pos |-> state.pos, spd |-> state.spd]
IsFrame(frame) ==
  frame = [a \in Agents |-> frame[a]] /\ \A a \in Agents : IsState(frame[a])

\* The next frame has the validity of the log, and under log replay it is the log.
LEMMA NextFrameIs ==
  ASSUME NEW policy \in Policies, NEW log, NEW t, NEW frame, IsFrame(frame), IsFrame(log[t])
  PROVE  LET next == NextFrame(frame, log[t], PolicyStep(policy, log, frame, t), log[t][Ego])
         IN  /\ IsFrame(next)
             /\ \A a \in Agents : next[a].valid = log[t][a].valid
             /\ policy = "log_replay" => next = log[t]
<1> DEFINE step == PolicyStep(policy, log, frame, t)
           S == Kinematic(frame, log[t], step)
           moved == Integrated(frame, step.acceleration, S)
           State(a) ==
             CASE a = Ego -> log[t][Ego]
               [] a \in Births(frame, log[t]) -> log[t][a]
               [] a \in (step.mask \ {Ego}) \ Births(frame, log[t]) -> step.override[a]
               [] OTHER -> moved[a]
           next == [a \in Agents |-> [State(a) EXCEPT !.valid = log[t][a].valid]]
<1>1. NextFrame(frame, log[t], step, log[t][Ego]) = next
  BY DEF NextFrame
<1>2. /\ policy = "log_replay" => step.mask = World /\ step.override = log[t]
      /\ policy # "log_replay" => step.mask = {}
  BY DEF PolicyStep, Unforced, Policies
<1> HIDE DEF step
<1>3. ASSUME NEW a \in Agents PROVE IsState(moved[a])
  <2>1. IsState(frame[a])
    BY DEF IsFrame
  <2>2. moved[a] = IF a \in S
                   THEN [frame[a] EXCEPT !.pos = @ + Travel(frame[a], step.acceleration[a]),
                                         !.spd = NextSpeed(frame[a], step.acceleration[a])]
                   ELSE frame[a]
    BY DEF Integrated
  <2> HIDE DEF S, moved
  <2> QED
    BY <2>1, <2>2 DEF IsState
<1>4. Agents = {Ego} \union World /\ Ego \notin World
  BY LimitsAssumption DEF Agents
<1>5. Births(frame, log[t]) \subseteq World
  BY DEF Births
<1> HIDE DEF S, moved
<1>6. ASSUME NEW a \in Agents
      PROVE  /\ IsState(State(a))
             /\ policy = "log_replay" => State(a) = log[t][a]
  BY <1>2, <1>3, <1>4, <1>5 DEF IsFrame
<1>7. ASSUME NEW a \in Agents
      PROVE  /\ IsState(next[a]) /\ next[a].valid = log[t][a].valid
             /\ policy = "log_replay" => next[a] = log[t][a]
  <2>1. next[a] = [State(a) EXCEPT !.valid = log[t][a].valid]
    OBVIOUS
  <2>2. IsState(log[t][a])
    BY DEF IsFrame
  <2> HIDE DEF next, State
  <2> QED
    BY <1>6, <2>1, <2>2 DEF IsState
<1>8. next = [a \in Agents |-> next[a]]
  OBVIOUS
<1>9. log[t] = [a \in Agents |-> log[t][a]]
  BY DEF IsFrame
<1> HIDE DEF next
<1> QED
  BY <1>1, <1>7, <1>8, <1>9 DEF IsFrame, step

\* How the engine goes from frame to frame.
Follows(frames, log, policy, n) ==
  frames = [t \in 0..n |->
              IF t <= Current THEN log[t]
              ELSE NextFrame(frames[t - 1], log[t],
                             PolicyStep(policy, log, frames[t - 1], t), log[t][Ego])]

LEMMA RolloutFollows ==
  ASSUME NEW log, NEW policy
  PROVE  Follows(Rollout(log, policy), log, policy, LastFrame)
<1> DEFINE Good == {n \in Nat : \E f : Follows(f, log, policy, n)}
           StateAt(f, t) == IF t <= Current THEN log[t]
                            ELSE NextFrame(f[t - 1], log[t],
                                           PolicyStep(policy, log, f[t - 1], t), log[t][Ego])
<1>1. 0 \in Good
  <2>1. \A t \in 0..0 : t <= Current
    BY MetricsAssumption
  <2>2. Follows([t \in 0..0 |-> log[t]], log, policy, 0)
    BY <2>1 DEF Follows
  <2> QED
    BY <2>2
<1>2. ASSUME NEW n \in Nat, n \in Good PROVE n + 1 \in Good
  <2>1. PICK f : Follows(f, log, policy, n)
    BY <1>2
  <2> DEFINE g == [t \in 0..(n + 1) |-> IF t <= n THEN f[t] ELSE StateAt(f, t)]
  <2>2. ASSUME NEW t \in 0..n PROVE f[t] = StateAt(f, t)
    <3> HIDE DEF StateAt
    <3> QED
      BY <2>1, Zenon DEF Follows, StateAt
  <2>3. ASSUME NEW t \in 0..(n + 1) PROVE g[t] = StateAt(f, t)
    <3>1. t <= n => t \in 0..n
      OBVIOUS
    <3> HIDE DEF StateAt
    <3> QED
      BY <2>2, <3>1
  <2>4. ASSUME NEW t \in 0..(n + 1) PROVE StateAt(f, t) = StateAt(g, t)
    <3>1. CASE t <= Current
      BY <3>1
    <3>2. CASE ~(t <= Current)
      <4>1. t - 1 \in 0..n /\ t - 1 <= n /\ t - 1 \in 0..(n + 1)
        BY <3>2, MetricsAssumption
      <4>2. g[t - 1] = f[t - 1]
        <5> HIDE DEF StateAt
        <5> QED
          BY <4>1
      <4> HIDE DEF g
      <4> QED
        BY <4>2
    <3> QED
      BY <3>1, <3>2
  <2>5. \A t \in 0..(n + 1) : g[t] = StateAt(g, t)
    <3> HIDE DEF StateAt, g
    <3> QED
      BY <2>3, <2>4
  <2>6. g = [t \in 0..(n + 1) |-> g[t]]
    OBVIOUS
  <2>7. g = [t \in 0..(n + 1) |-> StateAt(g, t)]
    <3> HIDE DEF StateAt, g
    <3> QED
      BY <2>5, <2>6
  <2>8. Follows(g, log, policy, n + 1)
    <3> HIDE DEF g
    <3> QED
      BY <2>7, Zenon DEF Follows
  <2> HIDE DEF g
  <2> QED
    BY <2>8
<1>3. LastFrame \in Good
  <2>1. Nat \subseteq Good
    <3> HIDE DEF Good
    <3> QED
      BY <1>1, <1>2, UpFromZero
  <2> QED
    BY <2>1, MetricsAssumption
<1>4. PICK f : Follows(f, log, policy, LastFrame)
  BY <1>3
<1>5. Rollout(log, policy) = CHOOSE g : Follows(g, log, policy, LastFrame)
  BY Zenon DEF Rollout, Follows
<1> QED
  BY <1>4, <1>5

\* A rollout has the lifecycle of the log, and that of log replay is the log.
LEMMA RolloutIs ==
  ASSUME NEW scene \in Scenarios, NEW policy \in Policies
  PROVE  LET frames == Rollout(scene.log, policy)
         IN  /\ DOMAIN frames = 0..LastFrame
             /\ \A t \in 0..LastFrame, a \in Agents :
                  frames[t][a].valid = scene.log[t][a].valid
             /\ policy = "log_replay" => frames = scene.log
<1> DEFINE log == scene.log
           frames == Rollout(log, policy)
           Good == {t \in Nat : t <= LastFrame =>
                      /\ IsFrame(frames[t])
                      /\ \A a \in Agents : frames[t][a].valid = log[t][a].valid
                      /\ policy = "log_replay" => frames[t] = log[t]}
<1>1. log \in [0..LastFrame -> [Agents -> AgentStates]]
  BY DEF Scenarios
<1>2. Follows(frames, log, policy, LastFrame)
  BY RolloutFollows
<1> HIDE DEF log, frames
<1>3. ASSUME NEW t \in 0..LastFrame PROVE IsFrame(log[t])
  <2>1. log[t] \in [Agents -> AgentStates]
    BY <1>1
  <2> QED
    BY <2>1 DEF IsFrame, IsState, AgentStates
<1>4. ASSUME NEW t \in 0..LastFrame
      PROVE  frames[t] = IF t <= Current THEN log[t]
                         ELSE NextFrame(frames[t - 1], log[t],
                                        PolicyStep(policy, log, frames[t - 1], t), log[t][Ego])
  BY <1>2, Zenon DEF Follows
<1>5. 0 \in Good
  <2>1. 0 \in 0..LastFrame /\ 0 <= Current
    BY MetricsAssumption
  <2>2. frames[0] = log[0]
    BY <1>4, <2>1
  <2> QED
    BY <1>3, <2>1, <2>2
<1>6. ASSUME NEW n \in Nat, n \in Good PROVE n + 1 \in Good
  <2> SUFFICES ASSUME n + 1 <= LastFrame
               PROVE  /\ IsFrame(frames[n + 1])
                      /\ \A a \in Agents : frames[n + 1][a].valid = log[n + 1][a].valid
                      /\ policy = "log_replay" => frames[n + 1] = log[n + 1]
    OBVIOUS
  <2>1. n + 1 \in 0..LastFrame /\ n <= LastFrame /\ (n + 1) - 1 = n
    BY MetricsAssumption
  <2>2. IsFrame(frames[n]) /\ IsFrame(log[n + 1])
    BY <1>3, <1>6, <2>1
  <2>3. CASE n + 1 <= Current
    <3>1. frames[n + 1] = log[n + 1]
      BY <1>4, <2>1, <2>3
    <3> QED
      BY <2>2, <3>1
  <2>4. CASE ~(n + 1 <= Current)
    <3>1. frames[n + 1] = NextFrame(frames[n], log[n + 1],
                             PolicyStep(policy, log, frames[n], n + 1), log[n + 1][Ego])
      BY <1>4, <2>1, <2>4
    <3> QED
      BY <2>2, <3>1, NextFrameIs
  <2> QED
    BY <2>3, <2>4
<1>7. Nat \subseteq Good
  <2> HIDE DEF Good
  <2> QED
    BY <1>5, <1>6, UpFromZero
<1>8. ASSUME NEW t \in 0..LastFrame PROVE t \in Good /\ t <= LastFrame
  BY <1>7, MetricsAssumption
<1>9. frames = [t \in 0..LastFrame |-> frames[t]] /\ log = [t \in 0..LastFrame |-> log[t]]
  <2>1. DOMAIN frames = 0..LastFrame /\ frames = [t \in DOMAIN frames |-> frames[t]]
    BY <1>2, Zenon DEF Follows
  <2> QED
    BY <1>1, <2>1
<1>10. policy = "log_replay" => frames = log
  BY <1>8, <1>9
<1>11. DOMAIN frames = 0..LastFrame
  BY <1>9
<1> QED
  BY <1>8, <1>10, <1>11 DEF log, frames

-----------------------------------------------------------------------------
(* What is measured, and who is asked for it *)

SameLife(frames, log) ==
  \A t \in 0..LastFrame, a \in Agents : frames[t][a].valid = log[t][a].valid

\* Who is there at a time and before is a matter of the lifecycle alone.
LEMMA WindowsAgree ==
  ASSUME NEW frames, NEW log, SameLife(frames, log), NEW S \in SUBSET World, NEW n \in Nat
  PROVE  Windows(frames, S, n) = Windows(log, S, n)
<1>1. ASSUME NEW w \in Future \X S
      PROVE  (w[1] >= n /\ \A s \in (w[1] - n)..w[1] : frames[s][w[2]].valid)
             <=> (w[1] >= n /\ \A s \in (w[1] - n)..w[1] : log[s][w[2]].valid)
  <2>1. w[1] \in (Current + 1)..LastFrame /\ w[2] \in Agents
    BY DEF Future, Agents
  <2>2. w[1] >= n => \A s \in (w[1] - n)..w[1] : s \in 0..LastFrame
    BY <2>1, MetricsAssumption
  <2> QED
    BY <2>1, <2>2 DEF SameLife
<1> QED
  BY <1>1 DEF Windows

\* The components of a metric, read off the source.
Parts(metric, scene) ==
  LET log == scene.log
  IN  CASE metric \in {"position_error", "speed_error", "overlap_rate"} ->
             Windows(log, World, 0)
        [] metric = "kinematic_infeasibility" -> Windows(log, Vehicles, 1)
        [] metric \in {"acceleration_error", "yaw_rate_error", "continuity_residual"} ->
             Windows(log, World, 1)
        [] metric = "jerk_error" -> Windows(log, World, 2)
        [] metric \in Minima -> PairFrames(log)
        [] metric \in LaneMetrics ->
             (IF scene.lane THEN Windows(log, Vehicles, 0) ELSE {})
        [] metric = "lifecycle_reentry" -> Retained(log)

\* Every rollout with the lifecycle of the source is measured by them.
LEMMA MeasuredByParts ==
  ASSUME NEW scene, NEW frames, SameLife(frames, scene.log), NEW metric \in Metrics
  PROVE  DOMAIN Distribution(metric, scene, frames) = Parts(metric, scene)
<1>1. /\ Windows(frames, World, 0) = Windows(scene.log, World, 0)
      /\ Windows(frames, Vehicles, 1) = Windows(scene.log, Vehicles, 1)
  BY WindowsAgree, LimitsAssumption
<1> DEFINE D == Distribution(metric, scene, frames)
<1>2. CASE metric \in {"position_error", "speed_error", "overlap_rate"}
  BY <1>1, <1>2 DEF Distribution, Parts, PositionError, SpeedError, OverlapRate, Minima, LaneMetrics
<1>3. CASE metric = "kinematic_infeasibility"
  BY <1>1, <1>3 DEF Distribution, Parts, KinematicInfeasibility, Minima, LaneMetrics
<1>4. CASE metric \in {"acceleration_error", "yaw_rate_error", "continuity_residual"}
  BY <1>4 DEF Distribution, Parts, AccelerationError, YawRateError, ContinuityResidual, Minima, LaneMetrics
<1>5. CASE metric = "jerk_error"
  BY <1>5 DEF Distribution, Parts, JerkError, Minima, LaneMetrics
<1>6. CASE metric \in Minima
  BY <1>6 DEF Distribution, Parts, Minima, LaneMetrics, MinimumCenterDistance, ConstantVelocityTtcCap
<1>7. CASE metric \in LaneMetrics
  BY <1>7 DEF Distribution, Parts, LaneMetrics, Minima, LaneDistribution
<1>8. CASE metric = "lifecycle_reentry"
  BY <1>8 DEF Distribution, Parts, LaneMetrics, Minima, LifecycleReentry
<1> QED
  BY <1>2, <1>3, <1>4, <1>5, <1>6, <1>7, <1>8 DEF Metrics, Primary, Neutral, Minima

LEMMA PartsAreFinite ==
  ASSUME NEW scene \in Scenarios, NEW metric \in Metrics
  PROVE  IsFiniteSet(Parts(metric, scene))
<1>1. IsFiniteSet(Future) /\ IsFiniteSet(World) /\ IsFiniteSet(Future \X World)
  <2>1. IsFiniteSet(Future)
    BY MetricsAssumption, FS_Interval DEF Future
  <2> QED
    BY <2>1, LimitsAssumption, FS_Product
<1>2. \/ Parts(metric, scene) \subseteq Future \X World
      \/ Parts(metric, scene) \subseteq Future
      \/ Parts(metric, scene) \subseteq World
  <2>1. ASSUME NEW S \in SUBSET World, NEW n
        PROVE  Windows(scene.log, S, n) \subseteq Future \X World
    BY DEF Windows
  <2>2. PairFrames(scene.log) \subseteq Future /\ Retained(scene.log) \subseteq World
    BY DEF PairFrames, Retained
  <2>3. /\ Windows(scene.log, World, 0) \subseteq Future \X World
        /\ Windows(scene.log, World, 1) \subseteq Future \X World
        /\ Windows(scene.log, World, 2) \subseteq Future \X World
        /\ Windows(scene.log, Vehicles, 0) \subseteq Future \X World
        /\ Windows(scene.log, Vehicles, 1) \subseteq Future \X World
    BY <2>1, LimitsAssumption
  <2> QED
    BY <2>2, <2>3 DEF Parts, Metrics, Primary, Neutral, Minima, LaneMetrics
<1> QED
  BY <1>1, <1>2, FS_Subset

\* Two of a set of numbers, one less than the other.
LEMMA TwoOrMore ==
  ASSUME NEW S \in SUBSET Nat, IsFiniteSet(S)
  PROVE  Cardinality(S) > 1 <=> \E x, y \in S : x < y
<1>1. Cardinality(S) \in Nat
  BY FS_CardinalityType
<1>2. Cardinality(S) = 0 <=> S = {}
  BY FS_EmptySet
<1>3. Cardinality(S) = 1 <=> \E x : S = {x}
  BY FS_Singleton
<1>4. (\E x, y \in S : x < y) <=> ~(S = {}) /\ ~(\E x : S = {x})
  <2>1. ASSUME S # {}, ~\E x : S = {x} PROVE \E x, y \in S : x < y
    <3>1. PICK x \in S : TRUE
      BY <2>1
    <3>2. PICK y \in S : y # x
      <4>1. S # {x}
        BY <2>1
      <4> QED
        BY <3>1, <4>1
    <3>3. x \in Nat /\ y \in Nat
      BY <3>1, <3>2
    <3>4. x < y \/ y < x
      BY <3>2, <3>3
    <3> QED
      BY <3>1, <3>2, <3>4
  <2>2. ASSUME NEW x \in S, NEW y \in S, x < y PROVE S # {} /\ ~\E z : S = {z}
    BY <2>2
  <2> QED
    BY <2>1, <2>2
<1> QED
  BY <1>1, <1>2, <1>3, <1>4

\* An agent is somewhere at a time and n frames before it, with nothing between.
LEMMA SomewhereIsWindow ==
  ASSUME NEW log, NEW S, NEW n \in {0, 1}
  PROVE  Somewhere(log, S, n) <=> Windows(log, S, n) # {}
<1>1. ASSUME NEW t \in Future, NEW a, n <= t
      PROVE  (\A s \in (t - n)..t : log[s][a].valid)
             <=> log[t][a].valid /\ log[t - n][a].valid
  <2>1. t \in Int
    BY DEF Future
  <2>2. (t - n)..t = {t - n, t}
    BY <2>1
  <2> QED
    BY <2>2
<1>2. ASSUME Somewhere(log, S, n) PROVE Windows(log, S, n) # {}
  <2>1. PICK t \in Future, a \in S : n <= t /\ log[t][a].valid /\ log[t - n][a].valid
    BY <1>2 DEF Somewhere
  <2>2. t >= n
    BY <2>1 DEF Future
  <2>3. <<t, a>> \in Windows(log, S, n)
    BY <1>1, <2>1, <2>2 DEF Windows
  <2> QED
    BY <2>3
<1>3. ASSUME NEW w \in Windows(log, S, n) PROVE Somewhere(log, S, n)
  <2>1. /\ w[1] \in Future /\ w[2] \in S /\ w[1] >= n
        /\ \A s \in (w[1] - n)..w[1] : log[s][w[2]].valid
    BY DEF Windows
  <2>2. n <= w[1]
    BY <2>1 DEF Future
  <2> QED
    BY <1>1, <2>1, <2>2 DEF Somewhere
<1> QED
  BY <1>2, <1>3

\* The rule of eligibility, which never sees a rollout, says who has a component.
LEMMA EligibleHaveParts ==
  ASSUME NEW scene \in Scenarios, NEW metric \in Metrics
  PROVE  Eligibility(metric, scene) <=> Parts(metric, scene) # {}
<1> DEFINE log == scene.log
<1>1. CASE metric \in {"position_error", "speed_error", "overlap_rate"}
  BY <1>1, SomewhereIsWindow DEF Eligibility, Parts, Minima, LaneMetrics
<1>2. CASE metric = "kinematic_infeasibility"
  BY <1>2, SomewhereIsWindow DEF Eligibility, Parts, Minima, LaneMetrics
<1>3. CASE metric \in {"acceleration_error", "yaw_rate_error", "continuity_residual"}
  BY <1>3, SomewhereIsWindow DEF Eligibility, Parts, Minima, LaneMetrics
<1>4. CASE metric = "jerk_error"
  BY <1>4 DEF Eligibility, Parts, Minima, LaneMetrics
<1>5. CASE metric \in Minima
  <2>1. ASSUME NEW t \in Future
        PROVE  Cardinality(Valid(log[t])) > 1 <=> Pairs(log, t) # {}
    <3> DEFINE V == Valid(log[t])
    <3>1. V \subseteq Agents /\ Agents \subseteq Nat /\ IsFiniteSet(Agents)
      BY LimitsAssumption, FS_AddElement, FS_Singleton, FS_Union DEF Valid, Agents
    <3>2. IsFiniteSet(V) /\ V \in SUBSET Nat
      BY <3>1, FS_Subset
    <3>3. Pairs(log, t) = {p \in V \X V : p[1] < p[2]}
      BY DEF Pairs
    <3> HIDE DEF V
    <3>4. Cardinality(V) > 1 <=> \E x, y \in V : x < y
      BY <3>2, TwoOrMore
    <3>5. (\E x, y \in V : x < y) <=> {p \in V \X V : p[1] < p[2]} # {}
      <4>1. ASSUME NEW x \in V, NEW y \in V, x < y PROVE {p \in V \X V : p[1] < p[2]} # {}
        <5>1. <<x, y>> \in {p \in V \X V : p[1] < p[2]}
          BY <4>1
        <5> QED
          BY <5>1
      <4>2. ASSUME NEW p \in V \X V, p[1] < p[2] PROVE \E x, y \in V : x < y
        BY <4>2
      <4> QED
        BY <4>1, <4>2
    <3> QED
      BY <3>3, <3>4, <3>5 DEF V
  <2>2. Eligibility(metric, scene) <=> \E t \in Future : Cardinality(Valid(log[t])) > 1
    BY <1>5 DEF Eligibility, Minima, LaneMetrics
  <2>3. Parts(metric, scene) = PairFrames(log)
    BY <1>5 DEF Parts, Minima, LaneMetrics
  <2> QED
    BY <2>1, <2>2, <2>3 DEF PairFrames
<1>6. CASE metric \in LaneMetrics
  <2>1. Eligibility(metric, scene) <=> scene.lane /\ Somewhere(log, Vehicles, 0)
    BY <1>6 DEF Eligibility, LaneEligible, LaneMetrics, Minima
  <2>2. Parts(metric, scene) = IF scene.lane THEN Windows(log, Vehicles, 0) ELSE {}
    BY <1>6 DEF Parts, LaneMetrics, Minima
  <2> QED
    BY <2>1, <2>2, SomewhereIsWindow
<1>7. CASE metric = "lifecycle_reentry"
  BY <1>7 DEF Eligibility, Parts, LaneMetrics, Minima
<1> QED
  BY <1>1, <1>2, <1>3, <1>4, <1>5, <1>6, <1>7 DEF Metrics, Primary, Neutral, Minima

\* So a result is there exactly when the source is eligible, over as many components
\* in every rollout.
LEMMA ResultIs ==
  ASSUME NEW scene \in Scenarios, NEW frames, SameLife(frames, scene.log),
         NEW metric \in Metrics
  PROVE  /\ Result(metric, scene, frames).valid = Eligibility(metric, scene)
         /\ Result(metric, scene, frames).components = Cardinality(Parts(metric, scene))
<1> DEFINE distribution == Distribution(metric, scene, frames)
           n == Cardinality(DOMAIN distribution)
<1>1. DOMAIN distribution = Parts(metric, scene)
  BY MeasuredByParts
<1>2. Result(metric, scene, frames).valid = (n > 0) /\ Result(metric, scene, frames).components = n
  BY DEF Result
<1> HIDE DEF distribution
<1>3. n \in Nat /\ (n = 0 <=> Parts(metric, scene) = {})
  BY <1>1, PartsAreFinite, FS_CardinalityType, FS_EmptySet
<1>4. (n > 0) <=> Eligibility(metric, scene)
  <2>1. (n > 0) <=> Parts(metric, scene) # {}
    <3> HIDE DEF n
    <3> QED
      BY <1>3
  <2> QED
    BY <2>1, EligibleHaveParts
<1>5. Eligibility(metric, scene) \in BOOLEAN
  BY DEF Eligibility, Metrics, Primary, Neutral, Minima, LaneMetrics, Somewhere, LaneEligible, Scenarios
<1>6. (n > 0) = Eligibility(metric, scene)
  <2> HIDE DEF n
  <2> QED
    BY <1>3, <1>4, <1>5
<1> QED
  BY <1>1, <1>2, <1>6

\* The errors of an exact replay are zero.
LEMMA ReplayHasNoError ==
  ASSUME NEW scene \in Scenarios, NEW metric \in Oracle
  PROVE  Result(metric, scene, scene.log).num = 0
<1> DEFINE log == scene.log
           parts == Parts(metric, scene)
<1>1. log \in [0..LastFrame -> [Agents -> AgentStates]]
  BY DEF Scenarios
<1>2. metric \in Metrics /\ metric \notin Minima
  BY DEF Oracle, Metrics, Primary, Neutral, Minima
<1>3. ASSUME NEW t \in 0..LastFrame, NEW a \in World
      PROVE  log[t][a].pos \in Int /\ log[t][a].spd \in Int
  <2>1. a \in Agents
    BY DEF Agents
  <2>2. log[t][a] \in AgentStates
    BY <1>1, <2>1
  <2> QED
    BY <2>2 DEF AgentStates
<1>4. Distance(0) = 0
  BY DEF Distance
<1>5. ASSUME NEW n \in 0..2, NEW c \in Windows(log, World, n)
      PROVE  /\ c[2] \in World /\ \A k \in 0..n : c[1] - k \in 0..LastFrame
             /\ c[1] \in 0..LastFrame
  <2>1. c[1] \in (Current + 1)..LastFrame /\ c[2] \in World /\ c[1] >= n
    BY DEF Windows, Future
  <2> QED
    BY <2>1, MetricsAssumption
<1> HIDE DEF log
<1>6. ASSUME NEW c \in Windows(log, World, 0)
      PROVE  /\ Distance(log[c[1]][c[2]].pos - log[c[1]][c[2]].pos) = 0
             /\ Distance(log[c[1]][c[2]].spd - log[c[1]][c[2]].spd) = 0
  BY <1>3, <1>4, <1>5
<1>7. ASSUME NEW c \in Windows(log, World, 1)
      PROVE  Distance(SpeedChange(log, c[1], c[2]) - SpeedChange(log, c[1], c[2])) = 0
  <2>1. c[2] \in World /\ c[1] \in 0..LastFrame /\ c[1] - 1 \in 0..LastFrame
    BY <1>5
  <2>2. SpeedChange(log, c[1], c[2]) \in Int
    BY <1>3, <2>1 DEF SpeedChange
  <2> QED
    BY <1>4, <2>2
<1>8. ASSUME NEW c \in Windows(log, World, 2)
      PROVE  LET jerk == SpeedChange(log, c[1], c[2]) - SpeedChange(log, c[1] - 1, c[2])
             IN  Distance(jerk - jerk) = 0
  <2>1. /\ c[2] \in World /\ c[1] \in 0..LastFrame /\ c[1] - 1 \in 0..LastFrame
        /\ c[1] - 2 \in 0..LastFrame /\ (c[1] - 1) - 1 = c[1] - 2
    BY <1>5
  <2>2. SpeedChange(log, c[1], c[2]) \in Int /\ SpeedChange(log, c[1] - 1, c[2]) \in Int
    BY <1>3, <2>1 DEF SpeedChange
  <2> QED
    BY <1>4, <2>2
<1>9. Distribution(metric, scene, log) = [c \in parts |-> 0]
  <2>1. CASE metric = "position_error"
    BY <1>6, <2>1 DEF Distribution, Parts, PositionError, log, Minima, LaneMetrics
  <2>2. CASE metric = "speed_error"
    BY <1>6, <2>2 DEF Distribution, Parts, SpeedError, log, Minima, LaneMetrics
  <2>3. CASE metric = "acceleration_error"
    BY <1>7, <2>3 DEF Distribution, Parts, AccelerationError, log, Minima, LaneMetrics
  <2>4. CASE metric = "jerk_error"
    BY <1>8, <2>4 DEF Distribution, Parts, JerkError, log, Minima, LaneMetrics
  <2>5. CASE metric = "yaw_rate_error"
    BY <2>5 DEF Distribution, Parts, YawRateError, log, Minima, LaneMetrics
  <2> QED
    BY <2>1, <2>2, <2>3, <2>4, <2>5 DEF Oracle
<1>10. IsFiniteSet(parts)
  BY <1>2, PartsAreFinite
<1>11. SumFunction(Distribution(metric, scene, log)) = 0
  <2> HIDE DEF parts
  <2> QED
    BY <1>9, <1>10, NothingAddsUp
<1> QED
  BY <1>2, <1>11 DEF Result, log

\* What the tables hold.
LEMMA RolloutsAre ==
  ASSUME NEW scene \in Scenes
  PROVE  Rollouts[scene] = [e \in Executions |-> IF e = Reference THEN scene.log
                                                ELSE Rollout(scene.log, e)]
<1> DEFINE Row(s) == [e \in Executions |-> IF e = Reference THEN s.log ELSE Rollout(s.log, e)]
           Table(s) == Tabulated(Row(s))
<1>1. Rollouts = Tabulated([s \in Scenes |-> Table(s)])
  BY Zenon DEF Rollouts
<1>2. Table(scene) = Row(scene)
  <2> HIDE DEF Row
  <2> QED
    BY TabulatedIsSame
<1> HIDE DEF Table
<1>3. Rollouts = [s \in Scenes |-> Table(s)]
  BY <1>1, TabulatedIsSame
<1>4. Rollouts[scene] = Row(scene)
  <2> HIDE DEF Row
  <2> QED
    BY <1>2, <1>3
<1> QED
  BY <1>4

LEMMA ResultsAre ==
  ASSUME NEW scene \in Scenes
  PROVE  /\ DOMAIN Results[scene] = Executions
         /\ \A e \in Executions :
              Results[scene][e] = [m \in Metrics |-> Result(m, scene, Rollouts[scene][e])]
<1> DEFINE Row(s, e) == [m \in Metrics |-> Result(m, s, Rollouts[s][e])]
           Line(s, e) == Tabulated(Row(s, e))
           Plain(s) == [e \in Executions |-> Line(s, e)]
           Table(s) == Tabulated(Plain(s))
<1>1. Results = Tabulated([s \in Scenes |-> Table(s)])
  BY Zenon DEF Results
<1>2. Table(scene) = Plain(scene)
  <2> HIDE DEF Plain
  <2> QED
    BY TabulatedIsSame
<1>3. \A e \in Executions : Line(scene, e) = Row(scene, e)
  <2> HIDE DEF Row
  <2> QED
    BY TabulatedIsSame
<1> HIDE DEF Table
<1>4. Results = [s \in Scenes |-> Table(s)]
  BY <1>1, TabulatedIsSame
<1> HIDE DEF Line
<1>5. Results[scene] = Plain(scene)
  <2> HIDE DEF Plain
  <2> QED
    BY <1>2, <1>4
<1>6. \A e \in Executions : Results[scene][e] = Row(scene, e)
  <2> HIDE DEF Row
  <2> QED
    BY <1>3, <1>5
<1>7. DOMAIN Results[scene] = Executions
  BY <1>5
<1> QED
  BY <1>6, <1>7

\* A record is evaluated without an error if one of its agents is there for three
\* frames on end.
LEMMA JudgedIsEvaluable ==
  ASSUME NEW scene \in Scenes, scene \in Scenarios, Windows(scene.log, World, 2) # {}
  PROVE  Evaluable[scene]
<1> DEFINE Gates(s, r) == /\ \A e \in Executions : SameLifecycle(s, Rollouts[s][e])
                          /\ AgreesWithSource(s, r) /\ ZeroOracleHolds(r)
                          /\ Paired(r) /\ ReferenceIsReplay(r)
           Frames(e) == IF e = Reference THEN scene.log ELSE Rollout(scene.log, e)
<1>1. Evaluable = [s \in Scenes |-> Gates(s, Results[s])]
  BY TabulatedIsSame DEF Evaluable
<1>2. \A e \in Executions : Rollouts[scene][e] = Frames(e)
  BY RolloutsAre
<1>3. \A e \in Executions, m \in Metrics :
        Results[scene][e][m] = Result(m, scene, Rollouts[scene][e])
  BY ResultsAre
<1>4. ASSUME NEW e \in Executions
      PROVE  /\ DOMAIN Frames(e) = 0..LastFrame
             /\ SameLife(Frames(e), scene.log)
             /\ e \in {Reference, "log_replay"} => Frames(e) = scene.log
  <2>1. CASE e = Reference
    <3>1. DOMAIN scene.log = 0..LastFrame
      BY DEF Scenarios
    <3> QED
      BY <2>1, <3>1 DEF SameLife
  <2>2. CASE e # Reference
    <3>1. e \in Policies
      BY <2>2 DEF Executions
    <3> QED
      BY <2>2, <3>1, RolloutIs DEF SameLife
  <2> QED
    BY <2>1, <2>2
<1> HIDE DEF Frames
<1>5. \A e \in Executions : SameLifecycle(scene, Rollouts[scene][e])
  <2> SUFFICES ASSUME NEW e \in Executions PROVE SameLifecycle(scene, Rollouts[scene][e])
    OBVIOUS
  <2> DEFINE f == Rollouts[scene][e]
  <2>1. DOMAIN f = 0..LastFrame /\ SameLife(f, scene.log)
    BY <1>2, <1>4
  <2> HIDE DEF f
  <2>2. \A t \in 0..LastFrame : Valid(f[t]) = Valid(scene.log[t])
    BY <2>1 DEF SameLife, Valid
  <2> QED
    BY <2>1, <2>2 DEF SameLifecycle, f
<1>6. ASSUME NEW e \in Executions, NEW m \in Metrics
      PROVE  /\ Results[scene][e][m].valid = Eligibility(m, scene)
             /\ Results[scene][e][m].components = Cardinality(Parts(m, scene))
  <2>1. SameLife(Rollouts[scene][e], scene.log)
    BY <1>2, <1>4
  <2> QED
    BY <1>3, <2>1, ResultIs
<1>7. AgreesWithSource(scene, Results[scene]) /\ Paired(Results[scene])
  BY <1>6 DEF AgreesWithSource, Paired
<1>8. Reference \in Executions /\ "log_replay" \in Executions
  BY DEF Executions, Policies
<1>9. Rollouts[scene][Reference] = scene.log /\ Rollouts[scene]["log_replay"] = scene.log
  BY <1>2, <1>4, <1>8
<1>10. ReferenceIsReplay(Results[scene])
  <2>1. /\ Results[scene][Reference] = [m \in Metrics |-> Result(m, scene, scene.log)]
        /\ Results[scene]["log_replay"] = [m \in Metrics |-> Result(m, scene, scene.log)]
    BY <1>8, <1>9, ResultsAre
  <2> QED
    BY <2>1 DEF ReferenceIsReplay
<1>11. ZeroOracleHolds(Results[scene])
  <2> SUFFICES ASSUME NEW m \in Oracle
               PROVE  /\ Results[scene]["log_replay"][m].valid
                      /\ Results[scene]["log_replay"][m].num = 0
    BY DEF ZeroOracleHolds
  <2>1. m \in Metrics
    BY DEF Oracle, Metrics, Primary, Neutral, Minima
  <2>2. Results[scene]["log_replay"][m].num = 0
    BY <1>3, <1>8, <1>9, <2>1, ReplayHasNoError
  <2>3. PICK w \in Windows(scene.log, World, 2) : TRUE
    OBVIOUS
  <2>4. /\ w[1] \in (Current + 1)..LastFrame /\ w[2] \in World /\ w[1] >= 2
        /\ \A s \in (w[1] - 2)..w[1] : scene.log[s][w[2]].valid
    BY <2>3 DEF Windows, Future
  <2>5. /\ \A s \in (w[1] - 0)..w[1] : scene.log[s][w[2]].valid
        /\ \A s \in (w[1] - 1)..w[1] : scene.log[s][w[2]].valid
        /\ w[1] >= 1 /\ w[1] >= 0
    BY <2>4
  <2>6. w \in Windows(scene.log, World, 0) /\ w \in Windows(scene.log, World, 1)
    BY <2>3, <2>5 DEF Windows
  <2>7. Parts(m, scene) # {}
    BY <2>3, <2>6 DEF Parts, Oracle, Minima, LaneMetrics
  <2>8. Eligibility(m, scene)
    BY <2>1, <2>7, EligibleHaveParts
  <2> QED
    BY <1>6, <1>8, <2>1, <2>2, <2>8
<1>12. Gates(scene, Results[scene])
  BY <1>5, <1>7, <1>10, <1>11
<1> HIDE DEF Gates
<1> QED
  BY <1>1, <1>12

-----------------------------------------------------------------------------
(* The visit of an honest cohort *)

\* A list of lists, none empty, in which nothing is listed twice.
Once(seqs) ==
  /\ seqs \in Seq(Seq(Nat)) /\ \A s \in DOMAIN seqs : seqs[s] # <<>>
  /\ \A s, t \in DOMAIN seqs :
       \A k \in DOMAIN seqs[s], l \in DOMAIN seqs[t] :
         seqs[s][k] = seqs[t][l] => s = t /\ k = l

Listed(seqs) == UNION {Range(seqs[s]) : s \in DOMAIN seqs}

\* What the first of them lists, the others do not.
LEMMA FirstIsApart ==
  ASSUME NEW seqs, Once(seqs), seqs # <<>>
  PROVE  /\ Once(Tail(seqs))
         /\ Listed(seqs) = Range(Head(seqs)) \union Listed(Tail(seqs))
         /\ Range(Head(seqs)) \intersect Listed(Tail(seqs)) = {}
         /\ Head(seqs) \in Seq(Nat) /\ Head(seqs) # <<>>
         /\ \A k, l \in DOMAIN Head(seqs) : Head(seqs)[k] = Head(seqs)[l] => k = l
<1>1. seqs \in Seq(Seq(Nat)) /\ Len(seqs) \in Nat \ {0} /\ DOMAIN seqs = 1..Len(seqs)
  BY DEF Once
<1>2. Head(seqs) = seqs[1] /\ 1 \in DOMAIN seqs
  BY <1>1
<1>3. /\ Tail(seqs) \in Seq(Seq(Nat)) /\ DOMAIN Tail(seqs) = 1..(Len(seqs) - 1)
      /\ \A s \in DOMAIN Tail(seqs) : Tail(seqs)[s] = seqs[s + 1]
  BY <1>1
<1>4. \A s \in DOMAIN Tail(seqs) : s + 1 \in DOMAIN seqs /\ s + 1 # 1
  BY <1>1, <1>3
<1>5. \A s \in DOMAIN seqs : s = 1 \/ (s - 1 \in DOMAIN Tail(seqs) /\ Tail(seqs)[s - 1] = seqs[s])
  BY <1>1, <1>3
<1> DEFINE rest == Tail(seqs)
           first == Head(seqs)
<1> HIDE DEF rest, first
<1>6. Once(rest)
  <2>1. \A s \in DOMAIN rest : rest[s] # <<>>
    BY <1>3, <1>4 DEF Once, rest
  <2>2. ASSUME NEW s \in DOMAIN rest, NEW t \in DOMAIN rest, NEW k \in DOMAIN rest[s],
               NEW l \in DOMAIN rest[t], rest[s][k] = rest[t][l]
        PROVE  s = t /\ k = l
    <3>1. s + 1 \in DOMAIN seqs /\ t + 1 \in DOMAIN seqs
      BY <1>4 DEF rest
    <3>2. rest[s] = seqs[s + 1] /\ rest[t] = seqs[t + 1]
      BY <1>3 DEF rest
    <3>3. s + 1 = t + 1 /\ k = l
      BY <2>2, <3>1, <3>2 DEF Once
    <3>4. s \in Int /\ t \in Int
      BY <1>3 DEF rest
    <3> QED
      BY <3>3, <3>4
  <2> QED
    BY <1>3, <2>1, <2>2 DEF Once, rest
<1>7. Listed(seqs) = Range(first) \union Listed(rest)
  <2>1. ASSUME NEW s \in DOMAIN seqs
        PROVE  Range(seqs[s]) \subseteq Range(first) \union Listed(rest)
    BY <1>2, <1>5 DEF Listed, rest, first
  <2>2. ASSUME NEW s \in DOMAIN rest PROVE Range(rest[s]) \subseteq Listed(seqs)
    BY <1>3, <1>4 DEF Listed, rest
  <2>3. Range(first) \subseteq Listed(seqs)
    BY <1>2 DEF Listed, first
  <2>4. Listed(seqs) \subseteq Range(first) \union Listed(rest)
    BY <2>1 DEF Listed
  <2>5. Listed(rest) \subseteq Listed(seqs)
    BY <2>2 DEF Listed
  <2> QED
    BY <2>3, <2>4, <2>5
<1>8. ASSUME NEW x \in Range(first), x \in Listed(rest) PROVE FALSE
  <2>1. PICK k \in DOMAIN first : first[k] = x
    BY DEF Range
  <2>2. PICK s \in DOMAIN rest : \E l \in DOMAIN rest[s] : rest[s][l] = x
    <3>1. PICK s \in DOMAIN rest : x \in Range(rest[s])
      BY <1>8 DEF Listed
    <3> QED
      BY <3>1 DEF Range
  <2>3. s + 1 \in DOMAIN seqs /\ s + 1 # 1 /\ rest[s] = seqs[s + 1]
    BY <1>3, <1>4, <2>2 DEF rest
  <2> QED
    BY <1>2, <2>1, <2>2, <2>3 DEF Once, first
<1>9. first \in Seq(Nat) /\ first # <<>>
  <2>1. seqs[1] \in Seq(Nat)
    BY <1>1, <1>2
  <2>2. seqs[1] # <<>>
    BY <1>2 DEF Once
  <2> QED
    BY <1>2, <2>1, <2>2 DEF first
<1>10. ASSUME NEW k \in DOMAIN first, NEW l \in DOMAIN first, first[k] = first[l]
       PROVE  k = l
  <2>1. k \in DOMAIN seqs[1] /\ l \in DOMAIN seqs[1] /\ seqs[1][k] = seqs[1][l]
    BY <1>2, <1>10 DEF first
  <2> QED
    BY <1>2, <2>1 DEF Once
<1> QED
  BY <1>6, <1>7, <1>8, <1>9, <1>10 DEF rest, first

AtWork == {"reference", "evaluate", "parity", "write"}
AtEnd == {"close", "finalize", "finalized"}

\* A member is added, under evaluation, read or still to be read, and only one of
\* these.
AtMember == IF stage \in AtWork THEN {case.index} ELSE {}
Queued == {queue[k].index : k \in DOMAIN queue}

EachInItsPlace ==
  /\ DOMAIN scalars \union AtMember \union Queued \union Listed(shards) = Members
  /\ DOMAIN scalars \intersect (AtMember \union Queued \union Listed(shards)) = {}
  /\ AtMember \intersect (Queued \union Listed(shards)) = {}
  /\ Queued \intersect Listed(shards) = {}
  /\ Once(shards)
  /\ \A k, l \in DOMAIN queue : queue[k].index = queue[l].index => k = l
  /\ stage = "reload" => queue = <<>>
  /\ stage \in AtEnd => queue = <<>> /\ shards = <<>>

\* What is read is what was accepted, and Waymax leaves it as it is.
AsAccepted ==
  /\ queue \in Seq({[index |-> i, scene |-> accepted[i]] : i \in Members})
  /\ stage \in AtWork =>
       /\ case.index \in Members /\ case.scene = accepted[case.index]
       /\ case.state = case.scene

\* What has been kept is of the members that were added, and the selected ones
\* among them were compared.
KeptSoFar ==
  /\ DOMAIN members = DOMAIN scalars
  /\ parity = ParityMembers \intersect
                (DOMAIN scalars \union (IF stage = "write" THEN AtMember ELSE {}))
  /\ stage = "parity" => case.index \in ParityMembers

HonestVisit ==
  /\ stage \in AtWork \union AtEnd \union {"reload", "member"}
  /\ EachInItsPlace /\ AsAccepted /\ KeptSoFar

HonestInv ==
  /\ artifacts # "accepted" => fault = "artifacts"
  /\ fault = "none" /\ stage \notin {"failed", "over"} => HonestVisit
  /\ HonestCohortIsEvaluated

LEMMA HonestInit == RunInit => HonestInv
<1> SUFFICES ASSUME EvaluationInit PROVE HonestInv
  BY DEF RunInit
<1>1. DOMAIN Nothing = {} /\ DOMAIN <<>> = {} /\ Queued = {}
  BY DEF EvaluationInit, Nothing, Queued
<1>2. Listed(ShardMembers) = Members
  BY DEF Listed, Members
<1>3. Once(ShardMembers)
  BY ShardAssumption DEF Once
<1>4. AtMember = {} /\ stage \notin AtWork /\ stage \notin AtEnd
  BY DEF EvaluationInit, AtMember, AtWork, AtEnd
<1>5. EachInItsPlace
  BY <1>1, <1>2, <1>3, <1>4 DEF EvaluationInit, EachInItsPlace
<1>6. AsAccepted /\ KeptSoFar
  BY <1>1, <1>4 DEF EvaluationInit, AsAccepted, KeptSoFar
<1> QED
  BY <1>5, <1>6 DEF EvaluationInit, HonestInv, HonestVisit, HonestCohortIsEvaluated

\* Who does not evaluate keeps the evaluation, ends it, or changes a disk.
LEMMA OthersAreHonest ==
  ASSUME HonestInv, [RunNext]_<<officialVars, evaluation>>,
         ~EvaluationStep, ~AddCase
  PROVE  HonestInv'
<1>1. CASE UNCHANGED evaluation
  BY <1>1 DEF evaluation, disks, sums, memberVars, HonestInv, HonestVisit, EachInItsPlace,
     AsAccepted, KeptSoFar, AtMember, Queued, HonestCohortIsEvaluated
<1>2. CASE Discard
  BY <1>2 DEF Discard, Pass, Honest, HonestInv, HonestCohortIsEvaluated
<1>3. CASE DiskChanges
  BY <1>3 DEF DiskChanges, Fails, HonestInv, HonestCohortIsEvaluated
<1> QED
  BY <1>1, <1>2, <1>3
     DEF RunNext, RunCommand, Visit, WriteMember, Reverify, OtherCommand, Disturbance,
         KeepEvaluation

\* In an honest visit the records on disk are the accepted ones.
LEMMA SourceIsAccepted ==
  ASSUME FaultIsVisible, HonestInv, fault = "none", stage \notin {"failed", "over"}
  PROVE  /\ source = accepted /\ accepted \in Cohorts /\ artifacts = "accepted"
         /\ HonestVisit
         /\ accepted \in [Members -> Scenarios]
         /\ \A i \in Members : accepted[i] \in Scenes
<1>1. source = accepted /\ accepted \in Cohorts /\ artifacts = "accepted" /\ HonestVisit
  BY DEF FaultIsVisible, HonestInv
<1> QED
  BY <1>1, CohortAssumption, MembersAreScenes

LEMMA ReloadIsHonest ==
  ASSUME FaultIsVisible, HonestInv, ReloadShard
  PROVE  HonestInv'
<1> SUFFICES ASSUME fault = "none" PROVE HonestInv'
  BY DEF ReloadShard, Honest, Pass, disks, HonestInv, HonestCohortIsEvaluated
<1> DEFINE first == Head(shards)
<1>1. /\ stage = "reload" /\ queue = <<>> /\ shards # <<>> /\ stage' = "member"
      /\ shards' = Tail(shards) /\ fault' = "none"
      /\ queue' = [k \in DOMAIN first |-> [index |-> first[k], scene |-> source[first[k]]]]
      /\ UNCHANGED <<accepted, source, artifacts, case, measured, scalars, members,
                     parity, cells>>
  BY DEF ReloadShard, Honest, Pass, disks, memberVars, sums
<1>2. source = accepted /\ artifacts = "accepted" /\ HonestVisit
  BY <1>1, SourceIsAccepted
<1>3. Once(shards)
  BY <1>2 DEF HonestVisit, EachInItsPlace
<1>4. /\ Once(Tail(shards))
      /\ Listed(shards) = Range(first) \union Listed(Tail(shards))
      /\ Range(first) \intersect Listed(Tail(shards)) = {}
      /\ first \in Seq(Nat)
      /\ \A k, l \in DOMAIN first : first[k] = first[l] => k = l
  BY <1>1, <1>3, FirstIsApart
<1> HIDE DEF first
<1>5. Queued' = Range(first) /\ Queued = {} /\ AtMember = {} /\ AtMember' = {}
  BY <1>1 DEF Queued, AtMember, AtWork, Range
<1>6. Range(first) \subseteq Members
  BY <1>2, <1>4 DEF HonestVisit, EachInItsPlace
<1>7. queue' \in Seq({[index |-> i, scene |-> accepted[i]] : i \in Members})
  <2> DEFINE S == {[index |-> i, scene |-> accepted[i]] : i \in Members}
  <2>1. Len(first) \in Nat /\ DOMAIN first = 1..Len(first)
    BY <1>4
  <2>2. ASSUME NEW k \in 1..Len(first)
        PROVE  [index |-> first[k], scene |-> source[first[k]]] \in S
    <3>1. first[k] \in Members
      BY <1>6, <2>1 DEF Range
    <3> QED
      BY <1>2, <3>1
  <2>3. queue' \in [1..Len(first) -> S]
    <3> HIDE DEF S
    <3> QED
      BY <1>1, <2>1, <2>2
  <2> HIDE DEF S
  <2>4. queue' \in Seq(S)
    BY <2>1, <2>3
  <2>5. S = {[index |-> i, scene |-> accepted[i]] : i \in Members}
    BY Zenon DEF S
  <2> QED
    BY <2>4, <2>5, Zenon
<1>8. \A k, l \in DOMAIN queue' : queue'[k].index = queue'[l].index => k = l
  BY <1>1, <1>4
<1>9. EachInItsPlace'
  BY <1>1, <1>2, <1>4, <1>5, <1>8 DEF HonestVisit, EachInItsPlace, AtEnd
<1>10. AsAccepted' /\ KeptSoFar'
  BY <1>1, <1>2, <1>5, <1>7 DEF HonestVisit, AsAccepted, KeptSoFar, AtWork
<1> QED
  BY <1>1, <1>2, <1>9, <1>10 DEF HonestInv, HonestVisit, HonestCohortIsEvaluated

LEMMA TakeIsHonest ==
  ASSUME FaultIsVisible, HonestInv, TakeMember
  PROVE  HonestInv'
<1> SUFFICES ASSUME fault = "none" PROVE HonestInv'
  BY DEF TakeMember, Honest, Pass, Abort, disks, HonestInv, HonestCohortIsEvaluated
<1> DEFINE record == Head(queue)
           S == {[index |-> i, scene |-> accepted[i]] : i \in Members}
<1>1. /\ stage = "member" /\ queue # <<>> /\ queue' = Tail(queue) /\ fault' = "none"
      /\ UNCHANGED <<accepted, source, artifacts, shards, measured, scalars, members,
                     parity, cells>>
  BY DEF TakeMember, Honest, disks, sums
<1>2. artifacts = "accepted" /\ HonestVisit
  BY <1>1, SourceIsAccepted
<1>3. queue \in Seq(S)
  BY <1>2 DEF HonestVisit, AsAccepted
<1>4. /\ record = queue[1] /\ 1 \in DOMAIN queue
      /\ Tail(queue) \in Seq(S)
      /\ \A k \in DOMAIN Tail(queue) : /\ k + 1 \in DOMAIN queue /\ k + 1 # 1 /\ k \in Int
                                       /\ Tail(queue)[k] = queue[k + 1]
      /\ \A k \in DOMAIN queue : k = 1 \/ (/\ k - 1 \in DOMAIN Tail(queue)
                                           /\ Tail(queue)[k - 1] = queue[k])
  <2> HIDE DEF S
  <2> QED
    BY <1>1, <1>3
<1>5. record \in S
  <2> HIDE DEF S
  <2> QED
    BY <1>3, <1>4
<1>6. PICK i \in Members : record = [index |-> i, scene |-> accepted[i]]
  BY <1>5
<1>7. record.index = i /\ record.scene = accepted[i] /\ i \in Queued
  BY <1>4, <1>6 DEF Queued
<1> HIDE DEF record, S
<1>8. i \notin DOMAIN scalars
  BY <1>2, <1>7 DEF HonestVisit, EachInItsPlace
<1>9. /\ stage' = "reference"
      /\ case' = [index |-> i, scene |-> accepted[i], state |-> accepted[i]]
  BY <1>7, <1>8 DEF TakeMember, Pass, record
<1>10. /\ \A k, l \in DOMAIN queue' : queue'[k].index = queue'[l].index => k = l
       /\ Queued = {i} \union Queued' /\ i \notin Queued'
  <2>1. \A k, l \in DOMAIN queue : queue[k].index = queue[l].index => k = l
    BY <1>2 DEF HonestVisit, EachInItsPlace
  <2>2. ASSUME NEW k \in DOMAIN queue', NEW l \in DOMAIN queue',
               queue'[k].index = queue'[l].index
        PROVE  k = l
    <3>1. k + 1 = l + 1
      BY <1>1, <1>4, <2>1, <2>2
    <3> QED
      BY <1>1, <1>4, <3>1
  <2>3. ASSUME NEW k \in DOMAIN queue' PROVE queue'[k].index \in Queued /\ queue'[k].index # i
    BY <1>1, <1>4, <1>7, <2>1 DEF Queued
  <2>4. ASSUME NEW k \in DOMAIN queue PROVE queue[k].index = i \/ queue[k].index \in Queued'
    BY <1>1, <1>4, <1>7 DEF Queued
  <2>5. Queued' \subseteq Queued /\ i \notin Queued'
    BY <2>3 DEF Queued
  <2>6. Queued \subseteq {i} \union Queued'
    BY <2>4 DEF Queued
  <2> QED
    BY <1>7, <2>2, <2>5, <2>6
<1>11. AtMember = {} /\ AtMember' = {i}
  BY <1>1, <1>9 DEF AtMember, AtWork
<1>12. EachInItsPlace'
  BY <1>1, <1>2, <1>9, <1>10, <1>11 DEF HonestVisit, EachInItsPlace, AtEnd
<1>13. AsAccepted'
  BY <1>1, <1>4, <1>9 DEF AsAccepted, S
<1>14. KeptSoFar'
  BY <1>1, <1>2, <1>9 DEF HonestVisit, KeptSoFar
<1> QED
  BY <1>1, <1>2, <1>9, <1>12, <1>13, <1>14
     DEF HonestInv, HonestVisit, HonestCohortIsEvaluated, AtWork

\* A step from one place to the next with the same member.
LEMMA SameMemberIsHonest ==
  ASSUME HonestVisit, artifacts = "accepted", fault' = "none",
         UNCHANGED <<accepted, artifacts, shards, queue, scalars, members>>,
         stage \in AtWork, stage' \in AtWork \ {"reference"}, case' = case,
         KeptSoFar'
  PROVE  HonestInv'
<1>1. EachInItsPlace'
  <2>1. AtMember' = AtMember /\ Queued' = Queued
    BY DEF AtMember, Queued
  <2> QED
    BY <2>1 DEF HonestVisit, EachInItsPlace, AtWork, AtEnd
<1>2. AsAccepted'
  BY DEF HonestVisit, AsAccepted
<1> QED
  BY <1>1, <1>2 DEF HonestInv, HonestVisit, HonestCohortIsEvaluated, AtWork

\* Answered honestly, the case is what it was.
LEMMA AnswerIsRight ==
  ASSUME NEW right, NEW after, Answered(right, after), fault' = "none", fault = "none",
         case = [index |-> case.index, scene |-> case.scene, state |-> case.state]
  PROVE  right /\ after = case.state /\ case' = case
<1>1. right /\ after = case.state
  BY DEF Answered, Fails
<1>2. case' = [case EXCEPT !.state = case.state]
  BY <1>1 DEF Answered
<1> QED
  BY <1>1, <1>2

LEMMA ReferenceIsHonest ==
  ASSUME FaultIsVisible, HonestInv, MembersAreAccepted, RunReference
  PROVE  HonestInv'
<1>1. PICK frames \in {case.state.log, OtherScene.log}, after \in {case.state, OtherScene} :
        /\ Answered(frames = case.state.log, after)
        /\ IF /\ ValidatedCompact(frames, case.state)
              /\ HistoryBinds(case.state, case.scene) /\ ExactMapping(frames, case.scene)
              /\ Untouched(case.state, after)
           THEN Pass("evaluate") ELSE Abort
  BY DEF RunReference
<1>2. /\ UNCHANGED <<accepted, source, artifacts, shards, queue, measured, scalars, members,
                     parity, cells>>
      /\ stage = "reference"
  BY DEF RunReference, disks, sums
<1>3. CASE fault = "none" /\ fault' = "none"
  <2>1. artifacts = "accepted" /\ HonestVisit
    BY <1>2, <1>3, SourceIsAccepted
  <2>2. case = [index |-> case.index, scene |-> case.scene, state |-> case.state]
    BY <1>2 DEF MembersAreAccepted
  <2>3. case.state = case.scene
    BY <1>2, <2>1 DEF HonestVisit, AsAccepted, AtWork
  <2>4. frames = case.state.log /\ after = case.state /\ case' = case
    BY <1>1, <1>3, <2>2, AnswerIsRight
  <2>5. stage' = "evaluate"
    BY <1>1, <2>3, <2>4
       DEF ValidatedCompact, HistoryBinds, ExactMapping, Untouched, Pass
  <2>6. KeptSoFar'
    BY <1>2, <2>1, <2>5 DEF HonestVisit, KeptSoFar
  <2> QED
    BY <1>2, <1>3, <2>1, <2>4, <2>5, <2>6, SameMemberIsHonest DEF AtWork
<1>4. CASE ~(fault = "none" /\ fault' = "none")
  <2>1. fault' # "none" /\ (fault # "none" => fault' = fault)
    BY <1>1, <1>4 DEF Answered, Fails, Honest
  <2> QED
    BY <1>2, <2>1 DEF HonestInv, HonestCohortIsEvaluated
<1> QED
  BY <1>3, <1>4

LEMMA EvaluateIsHonest ==
  ASSUME FaultIsVisible, HonestInv, EvaluateCase
  PROVE  HonestInv'
<1> SUFFICES ASSUME fault = "none" PROVE HonestInv'
  BY DEF EvaluateCase, Honest, disks, HonestInv, HonestCohortIsEvaluated
<1>1. /\ UNCHANGED <<accepted, source, artifacts, shards, queue, case, scalars, members,
                     parity, cells>>
      /\ stage = "evaluate" /\ fault' = "none"
  BY DEF EvaluateCase, disks, sums, Honest
<1>2. artifacts = "accepted" /\ HonestVisit
  BY <1>1, SourceIsAccepted
<1>3. CASE Evaluable[case.scene]
  <2>1. stage' = IF case.index \in ParityMembers THEN "parity" ELSE "write"
    BY <1>3 DEF EvaluateCase, Pass
  <2>2. AtMember = {case.index} /\ AtMember' = {case.index}
    BY <1>1, <2>1 DEF AtMember, AtWork
  <2>3. KeptSoFar'
    BY <1>1, <1>2, <2>1, <2>2 DEF HonestVisit, KeptSoFar
  <2> QED
    BY <1>1, <1>2, <2>1, <2>3, SameMemberIsHonest DEF AtWork
<1>4. CASE ~Evaluable[case.scene]
  <2>1. stage' = "failed"
    BY <1>4 DEF EvaluateCase, Abort
  <2>2. case.index \in Members /\ case.scene = accepted[case.index]
    BY <1>1, <1>2 DEF HonestVisit, AsAccepted, AtWork
  <2>3. case.scene \in Scenarios /\ case.scene \in Scenes
    BY <1>1, <2>2, SourceIsAccepted
  <2>4. Windows(case.scene.log, World, 2) = {}
    BY <1>4, <2>3, JudgedIsEvaluable
  <2> QED
    BY <1>1, <1>2, <2>1, <2>4 DEF HonestInv, HonestCohortIsEvaluated
<1> QED
  BY <1>3, <1>4

LEMMA NativeIsHonest ==
  ASSUME FaultIsVisible, HonestInv, MembersAreAccepted, CompareNative
  PROVE  HonestInv'
<1>1. PICK answers \in Comparisons, after \in {case.state, OtherScene} :
        /\ Answered(\A m \in Anchors : answers[m] = "equal", after)
        /\ IF /\ SelectedMember(case) /\ SlotsHoldScene(case.state, case.scene)
              /\ RowsAccepted(answers) /\ Untouched(case.state, after)
           THEN Pass("write") /\ parity' = parity \union {case.index}
           ELSE Abort /\ UNCHANGED parity
  BY DEF CompareNative
<1>2. /\ UNCHANGED <<accepted, source, artifacts, shards, queue, measured, scalars, members,
                     cells>>
      /\ stage = "parity"
  BY DEF CompareNative, disks
<1>3. CASE fault = "none" /\ fault' = "none"
  <2>1. artifacts = "accepted" /\ HonestVisit
    BY <1>2, <1>3, SourceIsAccepted
  <2>2. case = [index |-> case.index, scene |-> case.scene, state |-> case.state]
    BY <1>2 DEF MembersAreAccepted
  <2>3. /\ case.state = case.scene /\ case.scene = accepted[case.index]
        /\ case.index \in ParityMembers
    BY <1>2, <2>1 DEF HonestVisit, AsAccepted, KeptSoFar, AtWork
  <2>4. (\A m \in Anchors : answers[m] = "equal") /\ after = case.state /\ case' = case
    BY <1>1, <1>3, <2>2, AnswerIsRight
  <2>5. RowsAccepted(answers)
    BY <2>4 DEF RowsAccepted, ParityRow
  <2>6. stage' = "write" /\ parity' = parity \union {case.index}
    BY <1>1, <2>3, <2>4, <2>5 DEF SelectedMember, SlotsHoldScene, Untouched, Pass
  <2>7. AtMember' = {case.index}
    BY <2>4, <2>6 DEF AtMember, AtWork
  <2>8. KeptSoFar'
    BY <1>2, <2>1, <2>3, <2>6, <2>7 DEF HonestVisit, KeptSoFar
  <2> QED
    BY <1>2, <1>3, <2>1, <2>4, <2>6, <2>8, SameMemberIsHonest DEF AtWork
<1>4. CASE ~(fault = "none" /\ fault' = "none")
  <2>1. fault' # "none" /\ (fault # "none" => fault' = fault)
    BY <1>1, <1>4 DEF Answered, Fails, Honest
  <2> QED
    BY <1>2, <2>1 DEF HonestInv, HonestCohortIsEvaluated
<1> QED
  BY <1>3, <1>4

\* The part of the member is written, and it is added.
LEMMA AddIsHonest ==
  ASSUME FaultIsVisible, HonestInv, AddCase
  PROVE  HonestInv'
<1> SUFFICES ASSUME fault = "none" PROVE HonestInv'
  BY DEF AddCase, Pass, Honest, disks, HonestInv, HonestCohortIsEvaluated
<1> DEFINE i == case.index
<1>1. /\ UNCHANGED <<accepted, source, artifacts, shards, queue, parity, cells>>
      /\ stage = "write" /\ fault' = "none"
      /\ scalars' = With(scalars, i, measured.results)
      /\ members' = With(members, i, measured.slices)
      /\ stage' = IF queue # <<>> THEN "member" ELSE IF shards # <<>> THEN "reload"
                  ELSE "close"
  BY DEF AddCase, Pass, Honest, disks, SliceKey
<1>2. artifacts = "accepted" /\ HonestVisit
  BY <1>1, SourceIsAccepted
<1>3. DOMAIN scalars' = DOMAIN scalars \union {i} /\ DOMAIN members' = DOMAIN members \union {i}
  BY <1>1 DEF With
<1>4. AtMember = {i} /\ AtMember' = {} /\ Queued' = Queued
  BY <1>1 DEF AtMember, Queued, AtWork
<1> HIDE DEF i
<1>5. EachInItsPlace'
  BY <1>1, <1>2, <1>3, <1>4 DEF HonestVisit, EachInItsPlace, AtEnd
<1>6. AsAccepted'
  BY <1>1, <1>2 DEF HonestVisit, AsAccepted, AtWork
<1>7. KeptSoFar'
  BY <1>1, <1>2, <1>3, <1>4 DEF HonestVisit, KeptSoFar
<1> QED
  BY <1>1, <1>2, <1>5, <1>6, <1>7
     DEF HonestInv, HonestVisit, HonestCohortIsEvaluated, AtEnd

LEMMA EndIsHonest ==
  ASSUME FaultIsVisible, HonestInv, CloseVisit \/ FinalizeStatistics
  PROVE  HonestInv'
<1> SUFFICES ASSUME fault = "none" PROVE HonestInv'
  BY DEF CloseVisit, FinalizeStatistics, Pass, Abort, Honest, disks, HonestInv,
         HonestCohortIsEvaluated
<1>1. /\ UNCHANGED <<accepted, source, artifacts, shards, queue, case, scalars, members,
                     parity>>
      /\ stage \in {"close", "finalize"} /\ fault' = "none"
  BY DEF CloseVisit, FinalizeStatistics, Honest, disks, sums, memberVars
<1>2. source = accepted /\ artifacts = "accepted" /\ HonestVisit
  BY <1>1, SourceIsAccepted
<1>3. DOMAIN scalars = Members /\ DOMAIN members = Members /\ parity = ParityMembers
  <2>1. Listed(<<>>) = {} /\ DOMAIN <<>> = {}
    BY DEF Listed
  <2>2. AtMember = {} /\ Queued = {} /\ Listed(shards) = {}
    BY <1>1, <1>2, <2>1 DEF HonestVisit, EachInItsPlace, AtMember, Queued, AtWork, AtEnd
  <2>3. DOMAIN scalars = Members
    BY <1>2, <2>2 DEF HonestVisit, EachInItsPlace
  <2> QED
    BY <1>1, <1>2, <2>3, CohortAssumption DEF HonestVisit, KeptSoFar
<1>4. stage' \in {"finalize", "finalized"}
  BY <1>2, <1>3
     DEF CloseVisit, FinalizeStatistics, ShardsUnchanged, AcceptedRunUnchanged, Pass
<1>5. AtMember = {} /\ AtMember' = {} /\ Queued' = Queued
  BY <1>1, <1>4 DEF AtMember, Queued, AtWork
<1>6. EachInItsPlace' /\ AsAccepted' /\ KeptSoFar'
  BY <1>1, <1>2, <1>4, <1>5
     DEF HonestVisit, EachInItsPlace, AsAccepted, KeptSoFar, AtEnd, AtWork
<1> QED
  BY <1>1, <1>2, <1>4, <1>6 DEF HonestInv, HonestVisit, HonestCohortIsEvaluated, AtEnd

\* The evaluation of an accepted cohort fails only when something went wrong, or over a
\* scene that M4 accepts and the zero oracle cannot judge. The rule of eligibility,
\* which never sees a rollout, and the thirteen metrics, which do, agree about every
\* scene.
THEOREM HonestCohortSafety == RunSpec => []HonestCohortIsEvaluated
<1>1. FaultIsVisible /\ ScoreInv /\ HonestInv /\ [RunNext]_<<officialVars, evaluation>>
        => HonestInv'
  <2> SUFFICES ASSUME FaultIsVisible, ScoreInv, HonestInv,
                      [RunNext]_<<officialVars, evaluation>>
               PROVE  HonestInv'
    OBVIOUS
  <2>1. MembersAreAccepted
    BY DEF ScoreInv
  <2>2. CASE EvaluationStep
    BY <2>1, <2>2, ReloadIsHonest, TakeIsHonest, ReferenceIsHonest, EvaluateIsHonest,
       NativeIsHonest, EndIsHonest DEF EvaluationStep
  <2>3. CASE AddCase
    BY <2>3, AddIsHonest
  <2> QED
    BY <2>2, <2>3, OthersAreHonest
<1>2. RunInit => HonestInv
  BY HonestInit
<1>3. RunSpec => []FaultIsVisible
  BY WitnessHolds, PTL DEF WitnessInv
<1>4. HonestInv => HonestCohortIsEvaluated
  BY DEF HonestInv
<1> QED
  BY <1>1, <1>2, <1>3, <1>4, ScoreHolds, PTL DEF RunSpec

-----------------------------------------------------------------------------
(* Creation: the inductive invariant *)

\* The steps of a process before it has made a run directory ...
Before == {"look_outputs", "make_outputs", "look_m5", "make_m5", "probe", "make_run"}

\* ... while the directory that it made is there and its own to use or remove ...
Owning == {"check_run", "make_pending", "make_pendingMetrics", "make_metrics",
           "return", "undo_pendingMetrics", "undo_pending", "undo_metrics", "undo_run"}

\* ... and after it has let go of it.
After == {"look_again", "record", "done"}

CreateTypes ==
  /\ roots \subseteq Roots /\ tree \subseteq Paths
  /\ maker \in Processes
  /\ where \in [Processes -> Before \union Owning \union After]
  /\ result \in [Processes -> {"none", "created", "exists", "failed",
                               "unrecorded", "died"}]

\* No directory is without its parent, so an empty run directory is all there is.
Closed == \A path \in tree \ {"run"} : Parent[path] \in tree

\* Only the process that made the present directory is in a step that owns it, and
\* while the directory is there that process has made it.
Owned ==
  /\ \A p \in Processes : where[p] \in Owning => "run" \in tree /\ maker = p
  /\ "run" \in tree => where[maker] \notin Before

\* A process has a result when it has ended, and not before.
Ended == \A p \in Processes : result[p] # "none" => where[p] = "done"

CreateInv == CreateTypes /\ Closed /\ Owned /\ Ended /\ OneStore /\ LeftoverIsMarked

LEMMA InitCreates == CreateInit => CreateInv
BY DEF CreateInit, CreateInv, CreateTypes, Closed, Owned, Ended, OneStore, LeftoverIsMarked,
       Roots, Paths, Before, Owning, After

-----------------------------------------------------------------------------
(* Creation: one process moves on *)

\* A step that leaves the tree alone, of a process that does not take to owning a
\* directory, keeps everything that is said of the tree; if it ends the process as
\* failed, the process owns nothing and what it made is marked.
LEMMA Quietly ==
  ASSUME CreateInv, NEW p \in Processes,
         roots' \subseteq Roots, UNCHANGED <<tree, maker>>,
         NEW step \in Before \union Owning \union After, Goto(p, step),
         step \in Owning => where[p] \in Owning,
         step \in Before => where[p] \in Before,
         \/ UNCHANGED result
         \/ /\ step = "done" /\ result[p] = "none"
            /\ \E how \in {"created", "exists", "failed", "unrecorded", "died"} :
                 /\ result' = [result EXCEPT ![p] = how]
                 /\ how = "created" => where[p] = "return"
                 /\ how = "failed" => \/ where[p] \in Before
                                      \/ "run" \notin tree
                                      \/ "FAILURE" \in tree,
         UNCHANGED result => where[p] # "done"
  PROVE  CreateInv'
<1>1. CreateTypes'
  BY DEF CreateInv, CreateTypes, Goto
<1>2. Closed'
  BY DEF CreateInv, Closed
<1>3. Owned'
  BY DEF CreateInv, CreateTypes, Owned, Goto, Before, Owning, After
<1>4. Ended'
  BY DEF CreateInv, CreateTypes, Ended, Goto
<1>5. OneStore'
  BY DEF CreateInv, CreateTypes, Owned, OneStore, Owning
<1>6. LeftoverIsMarked'
  BY DEF CreateInv, CreateTypes, Owned, LeftoverIsMarked
<1> QED
  BY <1>1, <1>2, <1>3, <1>4, <1>5, <1>6 DEF CreateInv

\* A process in the middle of create has no result yet.
LEMMA Unended ==
  ASSUME CreateInv, NEW p \in Processes, where[p] # "done"
  PROVE  result[p] = "none"
BY DEF CreateInv, Ended

\* While a directory is there, a member may be added whose parent is there.
LEMMA Grows ==
  ASSUME CreateInv, NEW path \in Paths \ {"run"}, Parent[path] \in tree,
         tree' = tree \union {path}, UNCHANGED <<roots, maker, result>>,
         \/ UNCHANGED where
         \/ \E p \in Processes, step \in Owning : where[p] \in Owning /\ Goto(p, step)
  PROVE  CreateInv'
<1>1. CreateTypes'
  BY DEF CreateInv, CreateTypes, Goto
<1>2. Closed'
  BY DEF CreateInv, Closed
<1>3. Owned'
  BY DEF CreateInv, CreateTypes, Owned, Goto, Before, Owning
<1>4. Ended'
  BY DEF CreateInv, CreateTypes, Ended, Goto, Owning
<1>5. OneStore'
  BY DEF CreateInv, OneStore
<1>6. LeftoverIsMarked'
  BY DEF CreateInv, LeftoverIsMarked
<1> QED
  BY <1>1, <1>2, <1>3, <1>4, <1>5, <1>6 DEF CreateInv

-----------------------------------------------------------------------------
(* Creation: the actions *)

LEMMA EnsureKeeps ==
  ASSUME CreateInv, NEW p \in Processes, EnsureDirectories(p)
  PROVE  CreateInv'
<1> USE DEF Before, Owning, After
<1>1. ASSUME NEW name \in Roots, NEW at \in Before, NEW make \in Before,
             NEW next \in Before, Look(p, name, at, make, next)
      PROVE  CreateInv'
  BY <1>1, Quietly DEF Look, Calm, CreateInv, CreateTypes
<1>2. ASSUME NEW name \in Roots, NEW at \in Before, NEW next \in Before,
             Make(p, name, at, next)
      PROVE  CreateInv'
  <2>1. result[p] = "none"
    BY <1>2, Unended DEF Make
  <2>2. roots' \subseteq Roots
    BY <1>2 DEF Make, CreateInv, CreateTypes
  <2> QED
    BY <1>2, <2>1, <2>2, Quietly DEF Make, End
<1> QED
  BY <1>1, <1>2 DEF EnsureDirectories, Roots

LEMMA ProbeKeeps ==
  ASSUME CreateInv, NEW p \in Processes, Probe(p)
  PROVE  CreateInv'
<1>1. where[p] \in Before /\ result[p] = "none"
  BY Unended DEF Probe, Before
<1> QED
  BY <1>1, Quietly DEF Probe, End, Before, Owning, After, CreateInv, CreateTypes

\* Nobody owns a directory that is not there, so the one that makes it is alone.
LEMMA MakeRunKeeps ==
  ASSUME CreateInv, NEW p \in Processes, MakeRun(p)
  PROVE  CreateInv'
<1>1. where[p] = "make_run" /\ where[p] \in Before /\ result[p] = "none" /\ UNCHANGED roots
  BY Unended DEF MakeRun, Before
<1>2. CASE "run" \notin tree /\ tree' = {"run"} /\ maker' = p
           /\ Goto(p, "check_run") /\ UNCHANGED result
  <2>1. CreateTypes'
    BY <1>1, <1>2 DEF CreateInv, CreateTypes, Goto, Owning, Paths
  <2>2. Closed' /\ Ended'
    BY <1>1, <1>2 DEF CreateInv, CreateTypes, Closed, Ended, Goto
  <2>3. Owned'
    BY <1>1, <1>2 DEF CreateInv, CreateTypes, Owned, Goto, Before, Owning
  <2>4. OneStore'
    BY <1>1, <1>2 DEF CreateInv, OneStore
  <2>5. LeftoverIsMarked'
    BY <1>1, <1>2 DEF LeftoverIsMarked
  <2> QED
    BY <2>1, <2>2, <2>3, <2>4, <2>5 DEF CreateInv
<1>3. CASE UNCHANGED <<tree, maker>> /\ (End(p, "exists") \/ End(p, "failed"))
  BY <1>1, <1>3, Quietly DEF End, After, Before, Owning, CreateInv, CreateTypes
<1> QED
  BY <1>2, <1>3 DEF MakeRun, LostRace

LEMMA CheckRunKeeps ==
  ASSUME CreateInv, NEW p \in Processes, CheckRun(p)
  PROVE  CreateInv'
BY Quietly DEF CheckRun, Before, Owning, After, CreateInv, CreateTypes

LEMMA LayoutKeeps ==
  ASSUME CreateInv, NEW p \in Processes, CreateLayout(p)
  PROVE  CreateInv'
<1>1. ASSUME NEW name \in Paths \ {"run"}, NEW at \in Owning, NEW next \in Owning,
             CreateChild(p, name, at, next)
      PROVE  CreateInv'
  <2>1. where[p] \in Owning /\ where[p] # "done" /\ UNCHANGED <<roots, maker, result>>
    BY <1>1 DEF CreateChild, Owning
  <2>2. \E step \in Owning : Goto(p, step)
    BY <1>1 DEF CreateChild, Owning
  <2>3. CASE UNCHANGED tree
    BY <2>1, <2>2, <2>3, Quietly DEF CreateInv, CreateTypes, Before, Owning, After
  <2>4. CASE tree' = tree \union {name} /\ Parent[name] \in tree
    BY <2>1, <2>2, <2>4, Grows
  <2> QED
    BY <1>1, <2>3, <2>4 DEF CreateChild
<1> QED
  BY <1>1 DEF CreateLayout, Paths, Parent, Owning

LEMMA ReturnKeeps ==
  ASSUME CreateInv, NEW p \in Processes, ReturnStore(p)
  PROVE  CreateInv'
<1>1. where[p] = "return" /\ result[p] = "none"
  BY Unended DEF ReturnStore
<1> QED
  BY <1>1, Quietly DEF ReturnStore, End, Before, Owning, After, CreateInv, CreateTypes

\* Whoever removes a directory is the one that made it, and leaves no orphan.
LEMMA UndoKeeps ==
  ASSUME CreateInv, NEW p \in Processes, UndoLayout(p)
  PROVE  CreateInv'
<1>1. ASSUME NEW name \in Paths, NEW at \in Owning,
             NEW next \in Owning \union {"look_again"}, Undo(p, name, at, next),
             name = "run" => next = "look_again"
      PROVE  CreateInv'
  <2>1. /\ where[p] \in Owning /\ where[p] # "done" /\ Goto(p, next)
        /\ UNCHANGED <<roots, maker, result>>
    BY <1>1 DEF Undo, Owning
  <2>2. CASE UNCHANGED tree
    BY <2>1, <2>2, Quietly DEF CreateInv, CreateTypes, Before, Owning, After
  <2>3. CASE Removable(name) /\ tree' = tree \ {name}
    <3>1. maker = p /\ "run" \in tree
      BY <2>1 DEF CreateInv, Owned
    <3>2. CreateTypes'
      BY <2>1, <2>3 DEF CreateInv, CreateTypes, Goto, After
    <3>3. Closed'
      BY <2>3 DEF CreateInv, CreateTypes, Closed, Removable, Children
    <3>4. Owned'
      BY <1>1, <2>1, <2>3, <3>1 DEF CreateInv, CreateTypes, Owned, Goto, Before, Owning
    <3>5. Ended'
      BY <2>1 DEF CreateInv, CreateTypes, Ended, Goto
    <3>6. result[p] = "none"
      BY <2>1, Unended
    <3>7. OneStore'
      BY <2>1, <3>1, <3>6 DEF CreateInv, OneStore
    <3>8. LeftoverIsMarked'
      BY <2>1, <3>1, <3>6 DEF LeftoverIsMarked
    <3> QED
      BY <3>2, <3>3, <3>4, <3>5, <3>7, <3>8 DEF CreateInv
  <2> QED
    BY <1>1, <2>2, <2>3 DEF Undo
<1> QED
  BY <1>1 DEF UndoLayout, Paths, Parent, Owning

LEMMA LookAgainKeeps ==
  ASSUME CreateInv, NEW p \in Processes, LookAgain(p)
  PROVE  CreateInv'
<1>1. where[p] = "look_again" /\ result[p] = "none"
  BY Unended DEF LookAgain
<1> QED
  BY <1>1, Quietly DEF LookAgain, End, Before, Owning, After, CreateInv, CreateTypes

LEMMA RecordKeeps ==
  ASSUME CreateInv, NEW p \in Processes, RecordFailure(p)
  PROVE  CreateInv'
<1>1. where[p] = "record" /\ result[p] = "none" /\ UNCHANGED <<roots, maker>>
  BY Unended DEF RecordFailure
<1>2. CASE Unmarked /\ End(p, "failed") /\ tree' = tree \union {"FAILURE"}
  <2>1. CreateTypes'
    BY <1>1, <1>2 DEF CreateInv, CreateTypes, End, Goto, After, Paths, Parent
  <2>2. Closed'
    BY <1>2 DEF CreateInv, Closed, Unmarked, Parent
  <2>3. Owned'
    BY <1>1, <1>2 DEF CreateInv, CreateTypes, Owned, End, Goto, Before, Owning
  <2>4. Ended'
    BY <1>1, <1>2 DEF CreateInv, CreateTypes, Ended, End, Goto
  <2>5. OneStore'
    BY <1>1, <1>2 DEF CreateInv, CreateTypes, OneStore, End
  <2>6. LeftoverIsMarked'
    BY <1>2 DEF LeftoverIsMarked
  <2> QED
    BY <2>1, <2>2, <2>3, <2>4, <2>5, <2>6 DEF CreateInv
<1>3. CASE UNCHANGED tree /\ ((~Unmarked /\ End(p, "failed")) \/ End(p, "unrecorded"))
  BY <1>1, <1>3, Quietly
     DEF End, Unmarked, Before, Owning, After, CreateInv, CreateTypes
<1> QED
  BY <1>2, <1>3 DEF RecordFailure

LEMMA OthersKeep ==
  ASSUME CreateInv,
         Intrude \/ (\E p \in Processes : UseStore(p) \/ Die(p)) \/ UNCHANGED createVars
  PROVE  CreateInv'
<1>1. CASE Intrude
  BY <1>1, Grows DEF Intrude, Paths, Parent
<1>2. ASSUME NEW p \in Processes, UseStore(p)
      PROVE  CreateInv'
  BY <1>2, Grows DEF UseStore, Paths, Parent
<1>3. ASSUME NEW p \in Processes, Die(p)
      PROVE  CreateInv'
  <2>1. where[p] # "done" /\ result[p] = "none"
    BY <1>3, Unended DEF Die
  <2> QED
    BY <1>3, <2>1, Quietly DEF Die, End, Before, Owning, After, CreateInv, CreateTypes
<1>4. CASE UNCHANGED createVars
  BY <1>4 DEF createVars, CreateInv, CreateTypes, Closed, Owned, Ended, OneStore,
              LeftoverIsMarked
<1> QED
  BY <1>1, <1>2, <1>3, <1>4

LEMMA CreateStep == CreateInv /\ [CreateNext]_createVars => CreateInv'
<1> SUFFICES ASSUME CreateInv, [CreateNext]_createVars PROVE CreateInv'
  OBVIOUS
<1>1. ASSUME NEW p \in Processes, Create(p)
      PROVE  CreateInv'
  BY <1>1, EnsureKeeps, ProbeKeeps, MakeRunKeeps, CheckRunKeeps, LayoutKeeps,
     ReturnKeeps, UndoKeeps, LookAgainKeeps, RecordKeeps DEF Create
<1> QED
  BY <1>1, OthersKeep DEF CreateNext

LEMMA CreateInvariant == CreateSpec => []CreateInv
<1> QED
  BY InitCreates, CreateStep, PTL DEF CreateSpec

-----------------------------------------------------------------------------
(* Creation: what follows *)

\* However many processes ask for one run name, and whatever fails or dies, at most
\* one create returns a store, and the directory is the one that it made.
THEOREM StoreSafety == CreateSpec => []OneStore
<1>1. CreateInv => OneStore
  BY DEF CreateInv
<1> QED
  BY CreateInvariant, <1>1, PTL

\* A create that failed after it had made the directory leaves nothing, or a
\* directory with a failure record, unless it could not write that record.
THEOREM LeftoverSafety == CreateSpec => []LeftoverIsMarked
<1>1. CreateInv => LeftoverIsMarked
  BY DEF CreateInv
<1> QED
  BY CreateInvariant, <1>1, PTL
===============================================================================
