------------------------------- MODULE M5Store -------------------------------
(***************************************************************************)
(* The write-once result store of one M5 run: class M5ResultStore of       *)
(* evalsim/results/m5.py, driven by a caller that may call its public      *)
(* methods in any order, together with the independent verifier            *)
(* _verify_m5_result_store of the same file.                               *)
(*                                                                         *)
(* The run directory is a function from paths to the bytes found there.    *)
(* Every file is created once with O_EXCL and never rewritten, so a path   *)
(* holds nothing, the bytes its writer intended, or other bytes (a torn    *)
(* write, an artifact that was never registered, or outside interference). *)
(* A write can raise after any prefix of its effects: before the file      *)
(* exists, with part of the bytes, with all bytes but no fsync, or with    *)
(* the directory entry not yet durable.                                    *)
(***************************************************************************)
EXTENDS Naturals, FiniteSets

CONSTANTS
  Keys,        \* canonical row keys
  PartFiles,   \* metric-results/part-NNNNN.parquet, the parts a caller may name
  PartNumber,  \* the index of each part file
  Expected     \* dataset -> the keys of the expected row matrix

Singletons == {"slice-membership", "scorecards", "waymax-parity-summary"}
Datasets   == {"metric-results"} \union Singletons

\* Every dataset but metric-results is one file, named like its dataset.
Supplemental == {"parity-order-receipt", "determinism-receipt"}
Artifact     == PartFiles \union Singletons \union Supplemental
                  \union {"scorecard-report"}
Control      == {"FINALIZING", "evaluation-manifest", "COMMITTED", "SUCCESS",
                 "FAILURE"}
File         == Artifact \union Control

ASSUME StoreAssumption ==
  /\ IsFiniteSet(Keys)
  /\ PartFiles \intersect (Singletons \union Supplemental \union Control
                             \union {"scorecard-report"}) = {}
  /\ PartNumber \in [PartFiles -> Nat]
  /\ Expected \in [Datasets -> SUBSET Keys]

VARIABLES
  profile,     \* row_accounting_profile, fixed by create
  proc,        \* the process that owns the writer object: "up" or "down"
  call,        \* where inside prepare_ or commit_finalization the process is
  disk,        \* the run directory
  manifest,    \* what evaluation-manifest.json lists, once written
  registered,  \* _artifacts, _supplemental_artifacts and _scorecard_report
  keys,        \* _keys
  rows,        \* _row_counts
  failed, finalizing, committed, successful,  \* the writer's terminal bits
  capability,  \* _prepared_finalization is the caller's object
  outcome,     \* "success" once commit_finalization returned
  tampered,    \* outside interference: none, before or after the byte seal
  powerLost,   \* the machine lost power
  reconciled,  \* a raised marker write was read back as complete
  misordered   \* a metric-derived dataset preceded the parity-order receipt

memory == <<registered, keys, rows, failed, finalizing, committed, successful,
            capability>>
ghosts == <<outcome, tampered, powerLost, reconciled, misordered>>
vars   == <<profile, proc, call, disk, manifest, memory, ghosts>>

-----------------------------------------------------------------------------
(* Files *)

Entry == [bytes : {"absent", "exact", "other"}, synced : BOOLEAN, named : BOOLEAN]

Blank  == [bytes |-> "absent", synced |-> FALSE, named |-> FALSE]
Debris == [bytes |-> "other",  synced |-> FALSE, named |-> FALSE]
Whole  == [bytes |-> "exact",  synced |-> TRUE,  named |-> TRUE]

\* What outside interference leaves; it is assumed to be durable.
Foreign == [bytes |-> "other", synced |-> TRUE, named |-> TRUE]

Present(f) == disk[f].bytes # "absent"
Exact(f)   == disk[f].bytes = "exact"
PresentFiles == {f \in File : Present(f)}

\* What an exclusive write of a fresh path may leave behind when it raises: it
\* stops before open, inside write, before the file fsync, before the directory
\* fsync, or after both.
Landings == {Blank, Debris, Whole,
             [bytes |-> "exact", synced |-> FALSE, named |-> FALSE],
             [bytes |-> "exact", synced |-> TRUE,  named |-> FALSE]}

\* A second exclusive create of a path that exists raises and changes nothing.
RaisedWrite(f) == IF Present(f) THEN {disk[f]} ELSE Landings

\* An artifact that failed to publish: nothing, or a pending or linked file that
\* was never registered.
RaisedArtifact(f) == IF Present(f) THEN {disk[f]} ELSE {Blank, Debris}

\* _poison: the failure record is written once; an error of that write is
\* swallowed, whatever it left.
PoisonedDisks(d) ==
  IF d["FAILURE"].bytes # "absent"
  THEN {d}
  ELSE {[d EXCEPT !["FAILURE"] = r] : r \in Landings}

Poison(d) == /\ failed' = TRUE
             /\ disk' \in PoisonedDisks(d)

-----------------------------------------------------------------------------
(* Checks *)

Idle == proc = "up" /\ call = "idle"

Active ==
  /\ ~successful /\ ~Present("SUCCESS")
  /\ ~failed     /\ ~Present("FAILURE")
  /\ ~finalizing /\ ~Present("FINALIZING")
  /\ ~Present("evaluation-manifest")

PartOf(d) == IF d = "metric-results" THEN PartFiles ELSE {d}

\* Faulty: a dataset may be short of rows.
FullCountFaulty(count) == \A d \in Datasets : count[d] <= Cardinality(Expected[d])

FullCount(count) == \A d \in Datasets : count[d] = Cardinality(Expected[d])

\* Every dataset has a part, and metric parts are numbered from zero.
Layout(listed) ==
  /\ \A d \in Datasets : PartOf(d) \intersect listed # {}
  /\ \A f \in PartFiles \intersect listed : \A n \in 0..PartNumber[f] :
        \E g \in PartFiles \intersect listed : PartNumber[g] = n

SupplementalComplete(listed) ==
  IF profile = "official" THEN Supplemental \subseteq listed
                          ELSE Supplemental \intersect listed = {}

\* The content the verifier expects of the artifacts that a manifest lists.
Complete(listed, count) ==
  /\ FullCount(count)
  /\ Layout(listed)
  /\ SupplementalComplete(listed)
  /\ "scorecard-report" \in listed

\* Registered bytes still match their digests.
BytesIntact(listed) == \A f \in listed : Exact(f)

\* The run holds the listed files, the allowed controls and nothing else.
ExactMembers(listed, controls) == PresentFiles = listed \union controls

\* _verify_m5_result_store for its three states.
MarkersOf(state) ==
  {"FINALIZING", "evaluation-manifest"}
    \union (IF state = "success" THEN {"SUCCESS"} ELSE {})
    \union (IF state = "committed" \/ (state = "success" /\ profile = "official")
            THEN {"COMMITTED"} ELSE {})

Verifies(state) ==
  /\ ~Present("FAILURE")
  /\ state = "committed" => profile = "official"
  /\ BytesIntact(MarkersOf(state))
  /\ Complete(manifest.listed, manifest.rows)
  /\ BytesIntact(manifest.listed)
  /\ ExactMembers(manifest.listed, MarkersOf(state))

Accepted == Verifies("success")

-----------------------------------------------------------------------------
(* Artifact writers *)

Register(f) ==
  /\ disk' = [disk EXCEPT ![f] = Whole]
  /\ registered' = registered \union {f}

MetricDerived == {"metric-results", "scorecards", "waymax-parity-summary"}

Duplicate(d, R) == R \intersect keys[d] # {}

\* Fresh rows become a registered part.
PublishRows(d, f, R) ==
  /\ f \notin registered /\ ~Present(f)
  /\ ~Duplicate(d, R)
  /\ Register(f)
  /\ keys' = [keys EXCEPT ![d] = @ \union R]
  /\ rows' = [rows EXCEPT ![d] = @ + Cardinality(R)]
  /\ misordered' = (misordered \/ /\ d \in MetricDerived
                                  /\ "parity-order-receipt" \notin registered)
  /\ UNCHANGED failed

\* A check or a write of the part at f raised.
FailAt(f) ==
  /\ \E r \in RaisedArtifact(f) : Poison([disk EXCEPT ![f] = r])
  /\ UNCHANGED <<registered, keys, rows, misordered>>

\* _write_dataset; a failed check and a failed write both poison.
WriteDataset(d, f, R) ==
  /\ Idle /\ Active
  /\ PublishRows(d, f, R) \/ FailAt(f)
  /\ UNCHANGED <<profile, proc, call, manifest, finalizing, committed,
                 successful, capability, outcome, tampered, powerLost,
                 reconciled>>

\* A writer whose precondition fails poisons without touching its own path.
Refuse == /\ Poison(disk)
          /\ UNCHANGED <<profile, proc, call, manifest, registered, keys, rows,
                         finalizing, committed, successful, capability, ghosts>>

ParityMissing == profile = "official" /\ "parity-order-receipt" \notin registered

WriteMetricResultsPart(f, R) ==
  \/ Idle /\ Active /\ ParityMissing /\ Refuse
  \/ ~ParityMissing /\ WriteDataset("metric-results", f, R)

WriteSliceMembership(R) == WriteDataset("slice-membership", "slice-membership", R)

ScorecardInputsReady ==
  \A d \in {"metric-results", "slice-membership"} :
     rows[d] = Cardinality(Expected[d])

WriteScorecards(R) ==
  \/ Idle /\ Active /\ ~ScorecardInputsReady /\ Refuse
  \/ ScorecardInputsReady /\ WriteDataset("scorecards", "scorecards", R)

WriteWaymaxParitySummary(R) ==
  WriteDataset("waymax-parity-summary", "waymax-parity-summary", R)

\* A file with no rows: the two receipts and the report.
WritePlain(f) ==
  /\ \/ /\ f \notin registered /\ ~Present(f)
        /\ Register(f)
        /\ UNCHANGED <<keys, rows, failed, misordered>>
     \/ FailAt(f)
  /\ UNCHANGED <<profile, proc, call, manifest, finalizing, committed,
                 successful, capability, outcome, tampered, powerLost,
                 reconciled>>

\* Faulty: only metric rows count as derived from metrics.
ParityLateFaulty == rows["metric-results"] # 0

ParityLate ==
  \E d \in MetricDerived : rows[d] # 0 \/ PartOf(d) \intersect registered # {}

WriteParityOrderReceipt ==
  /\ Idle /\ Active /\ profile = "official"
  /\ IF ParityLate THEN Refuse ELSE WritePlain("parity-order-receipt")

WriteDeterminismReceipt ==
  /\ Idle /\ Active /\ profile = "official"
  /\ IF ParityMissing THEN Refuse ELSE WritePlain("determinism-receipt")

ReportReady ==
  /\ "scorecard-report" \notin registered /\ ~Present("scorecard-report")
  /\ "scorecards" \in registered
  /\ rows["scorecards"] = Cardinality(Expected["scorecards"])

\* The renderer rereads the scorecards through their digest.
WriteHumanReadableScorecard ==
  /\ Idle /\ Active
  /\ IF ReportReady /\ Exact("scorecards")
     THEN WritePlain("scorecard-report")
     ELSE Refuse

Fail == Idle /\ Active /\ Refuse

-----------------------------------------------------------------------------
(* Finalization *)

\* The last state in which an independent verifier sees the run before SUCCESS.
LastCheckpoint == IF profile = "official" THEN "committed" ELSE "prepared"

\* _preflight_finalization.
Preflight ==
  /\ Complete(registered, rows)
  /\ BytesIntact(registered)
  /\ ExactMembers(registered, {})

\* prepare_finalization up to the FINALIZING marker. Checks of provenance and
\* of source files outside the run may raise at any time.
BeginFinalization ==
  /\ Idle /\ Active
  /\ \/ /\ Preflight
        /\ disk' = [disk EXCEPT !["FINALIZING"] = Whole]
        /\ finalizing' = TRUE
        /\ call' = "finalizing"
        /\ UNCHANGED failed
     \/ /\ Poison(disk)
        /\ UNCHANGED <<finalizing, call>>
     \/ /\ Preflight
        /\ \E r \in RaisedWrite("FINALIZING") :
              Poison([disk EXCEPT !["FINALIZING"] = r])
        /\ finalizing' = TRUE
        /\ UNCHANGED call
  /\ UNCHANGED <<profile, proc, manifest, registered, keys, rows, committed,
                 successful, capability, ghosts>>

\* The second check of every byte, then the manifest.
PublishManifest ==
  /\ proc = "up" /\ call = "finalizing"
  /\ \/ /\ BytesIntact(registered)
        /\ ExactMembers(registered, {"FINALIZING"})
        /\ disk' = [disk EXCEPT !["evaluation-manifest"] = Whole]
        /\ manifest' = [listed |-> registered, rows |-> rows]
        /\ call' = "manifest"
        /\ UNCHANGED failed
     \/ /\ \E r \in RaisedWrite("evaluation-manifest") :
              Poison([disk EXCEPT !["evaluation-manifest"] = r])
        /\ manifest' = [listed |-> registered, rows |-> rows]
        /\ call' = "idle"
  /\ UNCHANGED <<profile, proc, registered, keys, rows, finalizing, committed,
                 successful, capability, ghosts>>

\* The third check, after which the caller holds the prepared capability.
ConfirmPrepared ==
  /\ proc = "up" /\ call = "manifest"
  /\ call' = "idle"
  /\ \/ /\ BytesIntact(registered)
        /\ ExactMembers(registered, {"FINALIZING", "evaluation-manifest"})
        /\ capability' = TRUE
        /\ UNCHANGED <<disk, failed>>
     \/ Poison(disk) /\ UNCHANGED capability
  /\ UNCHANGED <<profile, proc, manifest, registered, keys, rows, finalizing,
                 committed, successful, ghosts>>

\* Faulty: a run that already failed may still be committed.
PreparedAndOpenFaulty ==
  /\ capability /\ finalizing /\ ~successful
  /\ ~Present("SUCCESS")
  /\ Present("FINALIZING") /\ Present("evaluation-manifest")

PreparedAndOpen ==
  /\ capability /\ finalizing /\ ~failed /\ ~successful
  /\ ~Present("FAILURE") /\ ~Present("SUCCESS")
  /\ Present("FINALIZING") /\ Present("evaluation-manifest")

\* Faulty: the name of the marker is enough.
ReconcilesByName(r) == r.bytes # "absent"

\* Faulty: every raised marker write is a failure.
ReconcilesFaulty(r) == FALSE

\* A raised marker write counts as complete when the exact bytes are there.
Reconciles(r) == r.bytes = "exact"

MarkCommittedForVerification ==
  /\ Idle
  /\ profile = "official" /\ PreparedAndOpen
  /\ ~committed /\ ~Present("COMMITTED")
  /\ \E r \in Landings, raised \in BOOLEAN :
       /\ ~raised => r = Whole
       /\ IF ~raised \/ Reconciles(r)
          THEN /\ disk' = [disk EXCEPT !["COMMITTED"] = r]
               /\ committed' = TRUE
               /\ reconciled' = (reconciled \/ raised)
               /\ UNCHANGED failed
          ELSE /\ Poison([disk EXCEPT !["COMMITTED"] = r])
               /\ UNCHANGED <<committed, reconciled>>
  /\ UNCHANGED <<profile, proc, call, manifest, registered, keys, rows,
                 finalizing, successful, capability, outcome, tampered,
                 powerLost, misordered>>

CommitAllowed ==
  /\ PreparedAndOpen
  /\ profile = "official" => committed /\ Exact("COMMITTED")

\* _verify_terminal_byte_seal.
SealHolds ==
  /\ BytesIntact(MarkersOf(LastCheckpoint))
  /\ BytesIntact(registered)
  /\ ExactMembers(registered, MarkersOf(LastCheckpoint))

\* commit_finalization first checks every registered byte once more ...
SealBytes ==
  /\ Idle /\ CommitAllowed
  /\ \/ /\ SealHolds
        /\ call' = "sealed"
        /\ UNCHANGED <<disk, failed>>
     \/ Poison(disk) /\ UNCHANGED call
  /\ UNCHANGED <<profile, proc, manifest, registered, keys, rows, finalizing,
                 committed, successful, capability, ghosts>>

\* How the write of SUCCESS ended: without an error, or raised and left r.
WriteSuccessAs(raised, r) ==
  /\ ~raised => ~Present("SUCCESS")
  /\ IF ~raised \/ Reconciles(r)
     THEN /\ disk' = [disk EXCEPT !["SUCCESS"] = r]
          /\ successful' = TRUE
          /\ finalizing' = FALSE /\ committed' = FALSE /\ capability' = FALSE
          /\ outcome' = "success"
          /\ reconciled' = (reconciled \/ raised)
          /\ UNCHANGED failed
     ELSE /\ Poison([disk EXCEPT !["SUCCESS"] = r])
          /\ UNCHANGED <<successful, finalizing, committed, capability,
                         outcome, reconciled>>

\* ... and then creates SUCCESS, the point of no return.
WriteSuccess ==
  /\ proc = "up" /\ call = "sealed"
  /\ call' = "idle"
  /\ \E raised \in BOOLEAN :
       \E r \in IF raised THEN RaisedWrite("SUCCESS") ELSE {Whole} :
          WriteSuccessAs(raised, r)
  /\ UNCHANGED <<profile, proc, manifest, registered, keys, rows, tampered,
                 powerLost, misordered>>

\* Faulty: any run can be aborted.
AbortAllowedFaulty == TRUE

AbortAllowed == capability /\ finalizing /\ ~successful /\ ~Present("SUCCESS")

AbortFinalization ==
  /\ Idle /\ AbortAllowed
  /\ Poison(disk)
  /\ capability' = FALSE
  /\ UNCHANGED <<profile, proc, call, manifest, registered, keys, rows,
                 finalizing, committed, successful, ghosts>>

-----------------------------------------------------------------------------
(* The environment *)

\* The process dies between two steps, or inside the write it is making.
Crash ==
  /\ proc = "up"
  /\ proc' = "down"
  /\ \/ UNCHANGED <<disk, manifest>>
     \/ /\ call = "finalizing"
        /\ \E r \in RaisedWrite("evaluation-manifest") :
              disk' = [disk EXCEPT !["evaluation-manifest"] = r]
        /\ manifest' = [listed |-> registered, rows |-> rows]
     \/ /\ call = "sealed"
        /\ \E r \in RaisedWrite("SUCCESS") :
              disk' = [disk EXCEPT !["SUCCESS"] = r]
        /\ UNCHANGED manifest
  /\ UNCHANGED <<profile, call, memory, ghosts>>

\* Names and bytes that were never fsynced may be lost.
PowerLoss ==
  /\ ~powerLost
  /\ powerLost' = TRUE
  /\ proc' = "down"
  /\ \E lost \in SUBSET {f \in PresentFiles : ~disk[f].named},
        torn \in SUBSET {f \in PresentFiles : ~disk[f].synced} :
       disk' = [f \in File |->
                  IF f \in lost THEN Blank
                  ELSE IF f \in torn THEN [disk[f] EXCEPT !.bytes = "other"]
                  ELSE disk[f]]
  /\ UNCHANGED <<profile, call, manifest, memory, outcome, tampered,
                 reconciled, misordered>>

\* The bytes are sealed once commit_finalization has rechecked them.
Sealed == call = "sealed" \/ successful \/ Exact("SUCCESS")

\* Something outside the program changes or plants one file of the run.
Tamper(f) ==
  /\ tampered = "no"
  /\ tampered' = IF Sealed THEN "late" ELSE "early"
  /\ disk' = [disk EXCEPT ![f] = Foreign]
  /\ UNCHANGED <<profile, proc, call, manifest, memory, outcome, powerLost,
                 reconciled, misordered>>

Environment == PowerLoss \/ \E f \in File : Tamper(f)

-----------------------------------------------------------------------------

Init ==
  /\ profile \in {"official", "data_free"}
  /\ proc = "up" /\ call = "idle"
  /\ disk = [f \in File |-> Blank]
  /\ manifest = [listed |-> {}, rows |-> [d \in Datasets |-> 0]]
  /\ registered = {}
  /\ keys = [d \in Datasets |-> {}]
  /\ rows = [d \in Datasets |-> 0]
  /\ failed = FALSE /\ finalizing = FALSE /\ committed = FALSE
  /\ successful = FALSE /\ capability = FALSE
  /\ outcome = "none" /\ tampered = "no"
  /\ powerLost = FALSE /\ reconciled = FALSE /\ misordered = FALSE

WriteArtifact ==
  \/ WriteParityOrderReceipt
  \/ WriteDeterminismReceipt
  \/ \E f \in PartFiles, R \in SUBSET Expected["metric-results"] :
        WriteMetricResultsPart(f, R)
  \/ \E R \in SUBSET Expected["slice-membership"] : WriteSliceMembership(R)
  \/ \E R \in SUBSET Expected["scorecards"] : WriteScorecards(R)
  \/ \E R \in SUBSET Expected["waymax-parity-summary"] :
        WriteWaymaxParitySummary(R)
  \/ WriteHumanReadableScorecard

Finalize ==
  \/ BeginFinalization \/ PublishManifest \/ ConfirmPrepared
  \/ MarkCommittedForVerification
  \/ SealBytes \/ WriteSuccess
  \/ AbortFinalization

Next == WriteArtifact \/ Finalize \/ Fail \/ Crash \/ Environment

Spec == Init /\ [][Next]_vars
-----------------------------------------------------------------------------
(* Properties *)

\* Every variable keeps the type its Python attribute or file has, and the two
\* accounts a writer keeps of its rows, _row_counts and _keys, agree.
TypeOK ==
  /\ profile \in {"official", "data_free"}
  /\ proc \in {"up", "down"}
  /\ call \in {"idle", "finalizing", "manifest", "sealed"}
  /\ disk \in [File -> Entry]
  /\ manifest \in [listed : SUBSET Artifact, rows : [Datasets -> Nat]]
  /\ registered \subseteq Artifact
  /\ keys \in [Datasets -> SUBSET Keys]
  /\ rows = [d \in Datasets |-> Cardinality(keys[d])]
  /\ {failed, finalizing, committed, successful, capability, powerLost,
      reconciled, misordered} \subseteq BOOLEAN
  /\ outcome \in {"none", "success"}
  /\ tampered \in {"no", "early", "late"}

\* The writer's checks are enough for the independent verifier: whenever the
\* exact SUCCESS marker is on disk, or commit_finalization has returned, the run
\* verifies as a success. A crash at any point, interference before the byte
\* seal, and a power cut do not break this; interference after the seal may, and
\* so may a power cut when an fsync error was read back as success.
CommitSound ==
  /\ Exact("SUCCESS") \/ outcome = "success"
  /\ tampered # "late"
  /\ ~(powerLost /\ reconciled)
  => Accepted

\* The row counts the manifest states are counts of distinct keys, so a run that
\* verifies holds the whole expected matrix although _write_dataset and the
\* manifest only compare numbers.
AcceptedIsComplete ==
  Accepted => \A d \in Datasets : keys[d] = Expected[d]

\* An official run that was committed had published its parity-order receipt
\* before any row derived from metrics existed.
ParityPrecedesMetrics ==
  outcome = "success" /\ profile = "official" => ~misordered

\* A run that failed, in memory or on disk, never gains the SUCCESS marker,
\* whatever the caller still calls and whatever write error it recovers from. (A
\* failure record that something else plants after the seal comes too late.)
FailureIsPermanent ==
  [][/\ failed \/ Present("FAILURE")
     /\ ~Exact("SUCCESS") /\ tampered # "late"
     => ~Exact("SUCCESS")']_vars

-----------------------------------------------------------------------------
(* Why CommitSound holds: the inductive invariant *)

\* A file that a power cut cannot take back.
Kept(f) == disk[f].synced /\ disk[f].named

\* A registered artifact was published and fsynced, name and bytes.
RegisteredIsKept == \A f \in registered : Present(f) /\ Kept(f)

\* How the writer's terminal bits and the progress of a call go together.
FlagsAgree ==
  /\ capability => finalizing /\ ~successful
  /\ call \in {"finalizing", "manifest"} => finalizing /\ ~capability /\ ~successful
  /\ call = "sealed" => capability /\ ~failed
  /\ outcome = "success" => successful
  /\ powerLost => proc = "down"

\* Once the manifest exists the rows and the artifacts no longer change.
ManifestIsFinal ==
  /\ call = "finalizing" => Complete(registered, rows) /\ Kept("FINALIZING")
  /\ call = "manifest" \/ capability \/ successful =>
       /\ manifest = [listed |-> registered, rows |-> rows]
       /\ Complete(registered, rows)
       /\ Kept("FINALIZING") /\ Kept("evaluation-manifest")
  /\ manifest.listed # {} =>
       manifest.rows = rows /\ (finalizing \/ successful)

\* Nothing but a reconciled fsync error makes a marker less than durable.
CommittedIsKept == committed => Kept("COMMITTED") \/ reconciled

Trusted == tampered # "late" /\ ~(powerLost /\ reconciled)

Committing == call = "sealed" \/ successful

\* From the byte seal on, the run is what the verifier wants, SUCCESS apart.
SealStays ==
  Committing /\ Trusted =>
    /\ BytesIntact(registered \union MarkersOf(LastCheckpoint))
    /\ PresentFiles \ {"SUCCESS"} = registered \union MarkersOf(LastCheckpoint)
    /\ profile = "official" => Kept("COMMITTED") \/ reconciled
    /\ successful => Exact("SUCCESS") /\ (Kept("SUCCESS") \/ reconciled)

\* The exact SUCCESS marker has one author.
SuccessNeedsSeal == Exact("SUCCESS") => Committing

\* The inductive invariant behind CommitSound: durability of what is registered,
\* finality of the manifest and stability of the sealed bytes hold together in
\* every reachable state.
SealInvariant ==
  /\ RegisteredIsKept /\ FlagsAgree /\ ManifestIsFinal
  /\ CommittedIsKept /\ SealStays /\ SuccessNeedsSeal

\* A run whose metrics came before its parity receipt can never get that receipt.
MisorderedIsStuck ==
  misordered =>
    /\ "parity-order-receipt" \notin registered
    /\ \E d \in MetricDerived : PartOf(d) \intersect registered # {}

\* No row outside the expected matrix is ever counted.
KeysAreExpected == \A d \in Datasets : keys[d] \subseteq Expected[d]
-----------------------------------------------------------------------------
(* Refinement *)

\* The run as its readers see it implements RunVerdict: it is decided once, a
\* decision is never reversed by the program, and a failed, abandoned or crashed
\* run is never opened again.
Verdict == INSTANCE RunVerdict WITH
  verdict <- IF Accepted THEN "accepted"
             ELSE IF proc = "up" /\ ~failed /\ ~successful /\ ~Present("FAILURE")
             THEN "open" ELSE "closed",
  harmed  <- tampered # "no" \/ powerLost

ImplementsRunVerdict == Verdict!Spec
=============================================================================
