-------------------------------- MODULE M5Run --------------------------------
(***************************************************************************)
(* The official M5 command with the evaluation inside it: M5Official with  *)
(* its visit of the cohort taken apart by M5Evaluation. The store sees one *)
(* part per member, in the order in which the shards are read; a store     *)
(* call that raises ends the visit, and so does an evaluation that fails.  *)
(***************************************************************************)
EXTENDS M5Official, M5Evaluation

ASSUME PartAssumption == {PartNumber[f] : f \in PartFiles} = Members

\* An exception that leaves the callback takes the evaluation with it, and so does
\* the end of the process.
KeepEvaluation ==
  IF proc' = "up" /\ pc' \in CallbackSteps THEN UNCHANGED evaluation ELSE Discard

\* The part of the member is written, and only then is the member added.
WriteMember ==
  /\ stage = "write"
  /\ \E f \in PartFiles \ registered :
       /\ PartNumber[f] = case.index
       /\ StoreCall("visit", WriteMetricResultsPart(f, CaseKeys[f]), "visit")
       /\ IF failed' THEN Discard ELSE AddCase

Visit ==
  \/ pc = "visit" /\ proc = "up" /\ EvaluationStep /\ UNCHANGED officialVars
  \/ WriteMember
  \/ /\ stage = "finalized"
     /\ Check("visit", PartFiles \subseteq registered, "slice") /\ Discard

\* _reverify_context, of which the accepted run is one part.
Reverify == AcceptedRunUnchanged /\ ReverifyContext /\ UNCHANGED evaluation

OtherCommand == Command /\ KeepEvaluation

\* (TLC finds the command enabled by the first of these.)
RunCommand ==
  \/ RaiseInCallback /\ Discard
  \/ Visit \/ Reverify \/ OtherCommand

\* What comes from outside the command, an interrupt of its failure path included. The
\* accepted run is looked at for the last time after the commit marker.
Disturbance ==
  \/ (Crash \/ Environment) /\ UNCHANGED command /\ KeepEvaluation
  \/ InterruptPersist /\ KeepEvaluation
  \/ /\ proc = "up" /\ pc \in CallbackSteps \ {"verify_committed"}
     /\ DiskChanges /\ UNCHANGED officialVars

RunInit == OfficialInit /\ EvaluationInit
RunNext == RunCommand \/ Disturbance

\* The command is one sequential program: it keeps taking steps until it exits or
\* the process dies. Nothing outside it is fair.
RunSpec ==
  RunInit /\ [][RunNext]_<<officialVars, evaluation>>
    /\ WF_<<officialVars, evaluation>>(RunCommand)

-----------------------------------------------------------------------------
(* Properties *)

\* Nothing that went wrong while the cohort was visited goes into a scorecard, and
\* a command that exits with 0 ran on the accepted run from its first record to
\* its commit marker.
EvaluationIsWitnessed ==
  /\ cells # Nothing => fault \in {"none", "artifacts"}
  /\ exit = "0" => fault = "none"
=============================================================================
