----------------------------- MODULE M5Official -----------------------------
(***************************************************************************)
(* The official M5 command, evalsim/cli/m5_official.py, from the return of *)
(* M5ResultStore.create on: the captured callback that evaluates the       *)
(* cohort, fills the store, finalizes and verifies it; the terminal commit *)
(* that promotes SUCCESS once the transcript is clean; the failure path;   *)
(* the one status line and the exit code.  An interrupt may arrive at any  *)
(* step, the failure path's own ones included.                             *)
(*                                                                         *)
(* Every store step is an action of M5Store, so this command is one caller *)
(* of that store.  M5Run puts its visit of the cohort and its specification*)
(* together.  The capture machinery itself is module TerminalCapture; here *)
(* it only says whether the capture held and the transcript is empty.      *)
(***************************************************************************)
EXTENDS M5Store

CONSTANT CaseKeys  \* the metric keys of each cohort member, by its part file

ASSUME OfficialAssumption == CaseKeys \in [PartFiles -> SUBSET Expected["metric-results"]]

VARIABLES
  pc,          \* the next step of the command
  primary,     \* an exception is on its way to the status line
  held,        \* what the holder has: "nothing", the "store", or the run "prepared"
  interrupted, \* an interrupt came where it keeps the failure from being recorded
  transcript,  \* what the capture found: "unread", "clean" or "dirty"
  capture,     \* "ok" or "failed"
  report,      \* what the status line says
  exit         \* the exit code, "none" while running

command == <<pc, primary, held, interrupted, transcript, capture, report, exit>>
officialVars == <<vars, command>>

CallbackSteps ==
  {"created", "parity", "visit", "slice", "scorecards", "waymax", "determinism", "report",
   "reverify_before_prepare", "prepare", "publish", "confirm", "hold",
   "verify_prepared", "reverify_before_commit", "mark", "reverify_after_commit",
   "verify_committed"}

-----------------------------------------------------------------------------
(* The captured callback *)

\* A store call either advances the callback or, when it raised, ends it. A
\* store method that raises has poisoned the store.
CallStore(at, method, next, raised) ==
  /\ pc = at
  /\ method
  /\ primary' = failed'
  /\ pc' = IF failed' THEN raised ELSE next
  /\ UNCHANGED <<held, interrupted, transcript, capture, report, exit>>

StoreCall(at, method, next) == CallStore(at, method, next, "collect")

\* Anything else in the callback may raise, and an interrupt may arrive. Between the
\* return of a method and the assignment of its result to the holder, the failure path
\* will not have what it needs.
RaiseInCallback ==
  /\ proc = "up" /\ pc \in CallbackSteps
  /\ call = "idle"
  /\ primary' = TRUE
  /\ pc' = "collect"
  /\ interrupted' = (pc \in {"created", "hold"})
  /\ UNCHANGED <<vars, held, transcript, capture, report, exit>>

\* A step of the command that leaves the store alone.
Check(at, holds, next) ==
  /\ proc = "up" /\ pc = at
  /\ holds
  /\ pc' = next
  /\ UNCHANGED <<vars, primary, held, interrupted, transcript, capture, report,
                 exit>>

\* holder.store.
HoldStore ==
  /\ proc = "up" /\ pc = "created"
  /\ held' = "store"
  /\ pc' = "parity"
  /\ UNCHANGED <<vars, primary, interrupted, transcript, capture, report, exit>>

\* The visit of the cohort itself is Visit of M5Run.
OpenVisit == StoreCall("parity", WriteParityOrderReceipt, "visit")

PublishAggregates ==
  \/ StoreCall("slice", WriteSliceMembership(Expected["slice-membership"]),
               "scorecards")
  \/ StoreCall("scorecards", WriteScorecards(Expected["scorecards"]), "waymax")
  \/ StoreCall("waymax",
               WriteWaymaxParitySummary(Expected["waymax-parity-summary"]),
               "determinism")
  \/ StoreCall("determinism", WriteDeterminismReceipt, "report")
  \/ StoreCall("report", WriteHumanReadableScorecard, "reverify_before_prepare")

\* _reverify_context looks only at files outside the run; M5Run says which of
\* them matter.
ReverifyContext ==
  \/ Check("reverify_before_prepare", TRUE, "prepare")
  \/ Check("reverify_before_commit", TRUE, "mark")
  \/ Check("reverify_after_commit", TRUE, "verify_committed")

PrepareFinalization ==
  \/ StoreCall("prepare", BeginFinalization, "publish")
  \/ StoreCall("publish", PublishManifest, "confirm")
  \/ StoreCall("confirm", ConfirmPrepared, "hold")

\* Faulty: the prepared capability is not kept for the failure path.
HoldPreparedFaulty ==
  /\ proc = "up" /\ pc = "hold"
  /\ pc' = "verify_prepared"
  /\ UNCHANGED <<vars, primary, held, interrupted, transcript, capture, report,
                 exit>>

HoldPrepared ==
  /\ proc = "up" /\ pc = "hold"
  /\ held' = "prepared"
  /\ pc' = "verify_prepared"
  /\ UNCHANGED <<vars, primary, interrupted, transcript, capture, report, exit>>

VerifyPrepared == Check("verify_prepared", Verifies("prepared"),
                        "reverify_before_commit")

\* _arm_verified_success. The last step returns from the callback.
ArmVerifiedSuccess ==
  \/ StoreCall("mark", MarkCommittedForVerification, "reverify_after_commit")
  \/ Check("verify_committed", Verifies("committed"), "collect")

Callback ==
  \/ HoldStore \/ OpenVisit \/ PublishAggregates \/ PrepareFinalization
  \/ HoldPrepared \/ VerifyPrepared \/ ArmVerifiedSuccess

-----------------------------------------------------------------------------
(* After the callback: capture_terminal, run_official and main *)

\* The irreversible commit runs only when nothing went wrong and nothing was
\* printed.
CleanRun == ~primary' /\ capture' = "ok" /\ transcript' = "clean"

CollectTranscript ==
  /\ proc = "up" /\ pc = "collect"
  /\ transcript' \in {"clean", "dirty"}
  /\ capture' \in {"ok", "failed"}
  /\ UNCHANGED <<vars, primary, held, interrupted, report, exit>>
  /\ pc' = IF CleanRun THEN "promote" ELSE "persist"

\* An exception that leaves the store alone.
Raise(at, raised) ==
  /\ proc = "up" /\ pc = at
  /\ primary' = TRUE
  /\ pc' = raised
  /\ UNCHANGED <<vars, held, interrupted, transcript, capture, report, exit>>

\* _promote_success: commit_finalization, whose guard may refuse. An interrupt
\* may still arrive when SUCCESS is already on disk.
PromoteSuccess ==
  \/ CallStore("promote", SealBytes, "success", "persist")
  \/ ~CommitAllowed /\ Raise("promote", "persist")
  \/ CallStore("success", WriteSuccess, "returned", "persist")
  \/ Raise("returned", "persist")
  \/ /\ proc = "up" /\ pc = "returned"
     /\ report' = "success"
     /\ pc' = "emit"
     /\ UNCHANGED <<vars, primary, held, interrupted, transcript, capture, exit>>

\* _persist_failure needs a store, leaves a run alone that has any SUCCESS file, and
\* otherwise sees to it that a failure record exists; an error while doing so is
\* swallowed.
Recordable == held # "nothing" /\ ~Present("SUCCESS") /\ ~Present("FAILURE")

FailStore == IF held = "prepared" THEN AbortFinalization ELSE Fail

FailStoreAllowed == IF held = "prepared" THEN AbortAllowed ELSE Active

ReportPersisted ==
  /\ pc' = IF held = "nothing" \/ Present("SUCCESS") THEN "emit" ELSE "read"
  /\ report' = CASE held = "nothing"   -> "rejected"
                 [] Present("SUCCESS") -> "failure"
                 [] OTHER              -> report
  /\ UNCHANGED <<primary, held, interrupted, transcript, capture, exit>>

\* Faulty: an error of the store is not swallowed, so no status is ever printed.
PersistFailureFaulty ==
  /\ proc = "up" /\ pc = "persist"
  /\ Recordable => FailStoreAllowed
  /\ IF Recordable THEN FailStore ELSE UNCHANGED vars
  /\ ReportPersisted

PersistFailure ==
  /\ proc = "up" /\ pc = "persist"
  /\ IF Recordable /\ FailStoreAllowed THEN FailStore ELSE UNCHANGED vars
  /\ ReportPersisted

\* _persist_failure swallows an Exception, not an interrupt: that leaves run_official, and
\* main rejects the command. The store has been failed by then (with a record that is as
\* whole as the interrupt let it be), or has not; if it has not, nobody else does. This
\* is no step of the command: it may come or not.
InterruptPersist ==
  /\ proc = "up" /\ pc \in {"persist", "read"}
  /\ \/ /\ pc = "persist" /\ Recordable /\ FailStoreAllowed /\ FailStore
        /\ UNCHANGED interrupted
     \/ UNCHANGED vars /\ interrupted' = (interrupted \/ pc = "persist")
  /\ report' = "rejected"
  /\ pc' = "emit"
  /\ UNCHANGED <<primary, held, transcript, capture, exit>>

\* The path of the failure record is reported only when the record is whole and
\* its reason is one the command knows.
ReadFailureRecord ==
  /\ proc = "up" /\ pc = "read"
  /\ \E trusted \in BOOLEAN :
       report' = IF Exact("FAILURE") /\ trusted THEN "failure_with_path"
                                               ELSE "failure"
  /\ pc' = "emit"
  /\ UNCHANGED <<vars, primary, held, interrupted, transcript, capture, exit>>

\* Only a delivered success status exits with 0, and an interrupt keeps it back.
EmitStatus ==
  /\ proc = "up" /\ pc = "emit"
  /\ \E delivered \in BOOLEAN :
       exit' = IF report = "success" /\ delivered THEN "0" ELSE "1"
  /\ pc' = "done"
  /\ proc' = "down"
  /\ UNCHANGED <<profile, call, disk, manifest, memory, ghosts, primary, held,
                 interrupted, transcript, capture, report>>

Command ==
  \/ Callback \/ CollectTranscript \/ PromoteSuccess
  \/ PersistFailure \/ ReadFailureRecord \/ EmitStatus

-----------------------------------------------------------------------------

OfficialInit ==
  /\ Init /\ profile = "official"
  /\ pc = "created"
  /\ primary = FALSE /\ held = "nothing" /\ interrupted = FALSE
  /\ transcript = "unread" /\ capture = "ok"
  /\ report = "none" /\ exit = "none"

-----------------------------------------------------------------------------
(* Properties *)

\* Exit code 0 means the run verifies as a success, then and ever after, unless
\* something outside the program touched it after the seal or a power cut met
\* an fsync error that was read back as success.
ExitZeroMeansAccepted ==
  /\ exit = "0"
  /\ tampered # "late"
  /\ ~(powerLost /\ reconciled)
  => Accepted

\* A command that ends without SUCCESS has recorded the failure, or tried to, so
\* that the run cannot be taken for one still in progress. Only an interrupt gets
\* around it, and only in three places: between the return of create and the
\* assignment of holder.store, between the return of prepare_finalization and the
\* assignment of holder.prepared, and in _persist_failure before it has failed
\* the store.
FailureIsRecorded ==
  /\ exit # "none"
  /\ tampered = "no" /\ ~powerLost
  /\ ~Present("SUCCESS")
  => failed \/ interrupted

\* Every command ends: no step waits for anything and no refusal of the store
\* stops the way to the status line.
CommandEnds == <>(proc = "down")
=============================================================================
