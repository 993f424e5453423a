------------------------------- MODULE M6Review -------------------------------
(***************************************************************************)
(* One M6 run from its filled store to its verdict: class M6ResultStore of *)
(* evalsim/results/m6.py as the commands of evalsim/cli/m6_official.py and *)
(* the bootstrap of evalsim/cli/m6_bootstrap.py drive it.                  *)
(*                                                                         *)
(* An official run stops at AWAITING_REVIEW; any number of finalize-review *)
(* commands may then adopt it, each in a process of its own, and nothing   *)
(* but exclusive file creation keeps them apart.  In the other modes the   *)
(* command that runs the evaluation also commits and finishes the run.     *)
(***************************************************************************)
EXTENDS Naturals

CONSTANTS
  Runner,      \* the process of the run command
  Finalizers   \* the processes of finalize-review commands

ASSUME ReviewAssumption == Runner \notin Finalizers

Processes == {Runner} \union Finalizers

\* What a run directory holds. "precursor" stands for the artifacts that are
\* written before the review, the review request included.
ReviewFiles == {"review-decisions", "execution-summary"}
Seals       == {"result-manifest", "COMMITTED"}
Signed      == ReviewFiles \union Seals \union {"TERMINAL_SUCCESS"}
File == Signed \union {"PENDING", "precursor", "AWAITING_REVIEW",
                       "TERMINAL_FAILURE", "failure-details"}

VARIABLES
  mode,       \* "official" or a mode without review
  reviews,    \* what the reviewers said, per finalize-review command
  disk,       \* the run directory
  author,     \* who created a signed file last
  rejection,  \* TERMINAL_FAILURE is a record of rejected reviews
  pc,         \* the next step of each command
  stage,      \* who asked for the failure record being written
  held,       \* holder.store is set
  contended,  \* two live commands have held the run at once
  unrecorded, \* the last write of TERMINAL_FAILURE left no file, or a power cut
              \* took it
  powerLost   \* the machine lost power

control == <<pc, stage, held>>
ghosts  == <<contended, unrecorded, powerLost>>
files   == <<disk, author>>
vars    == <<mode, reviews, files, rejection, control, ghosts>>

-----------------------------------------------------------------------------
(* Files *)

\* "volatile" bytes are whole, but were never fsynced.
Bytes == {"absent", "torn", "volatile", "exact"}

Present(f) == disk[f] # "absent"
Whole(f)   == disk[f] \in {"volatile", "exact"}
Members    == {f \in File : Present(f)}

Create(p, f, b) ==
  /\ disk' = [disk EXCEPT ![f] = b]
  /\ author' = [g \in Signed |-> IF g = f THEN p ELSE author[g]]

\* Faulty: the file is opened without O_EXCL.
WritesFaulty(p, f) == Create(p, f, "exact")

\* An exclusive create by p that returns, and one that raises after any part of
\* its effects.
Writes(p, f) == ~Present(f) /\ Create(p, f, "exact")

RaisesIn(p, f) ==
  \/ UNCHANGED files
  \/ ~Present(f) /\ \E b \in Bytes \ {"absent"} : Create(p, f, b)

-----------------------------------------------------------------------------
(* Checks *)

\* What the manifest of the run must list, markers apart.
Artifacts == {"precursor"} \union (IF mode = "official" THEN ReviewFiles ELSE {})

Opening == {"PENDING"} \union (IF mode = "official" THEN {"AWAITING_REVIEW"}
                                                    ELSE {})

\* The tree that the manifest, the markers and the mode allow.
Listed(state) ==
  Opening \union Artifacts \union Seals
    \union (IF state = "success" THEN {"TERMINAL_SUCCESS"} ELSE {})

\* The seals describe the two review files and each other. (Two commands with the
\* same outcome may have written the same bytes, so verification need not notice a
\* file of the other.)
SealsBind ==
  \A f, g \in ReviewFiles \union Seals : reviews[author[f]] = reviews[author[g]]

ReviewsAccept == reviews[author["review-decisions"]] = "accept"

\* _verify_m6_result_store for a committed or a successful run.
Verifies(state) ==
  /\ Members = Listed(state)
  /\ \A f \in Members : Whole(f)
  /\ mode = "official" => SealsBind /\ ReviewsAccept

Accepted == Verifies("success")

RejectionFiles ==
  {"PENDING", "precursor", "AWAITING_REVIEW", "TERMINAL_FAILURE"} \union ReviewFiles

\* The decisions and the summary derived from them do not release the run.
ReviewsReject == \A f \in ReviewFiles : reviews[author[f]] = "reject"

\* verify_rejected_m6_review_store.
RejectionVerifies ==
  /\ rejection
  /\ Members = RejectionFiles
  /\ \A f \in Members : Whole(f)
  /\ ReviewsReject

\* adopt_awaiting_review.
Adoptable ==
  /\ mode = "official"
  /\ Members = {"PENDING", "precursor", "AWAITING_REVIEW"}
  /\ \A f \in Members : Whole(f)

\* _assert_pending_capability and _assert_awaiting_review_capability.
MayCommit(p) ==
  /\ {"COMMITTED", "TERMINAL_SUCCESS", "TERMINAL_FAILURE"} \intersect Members = {}
  /\ Whole("PENDING")
  /\ p # Runner => Whole("AWAITING_REVIEW")

\* The checks of commit before it writes: the tree holds what this writer has
\* registered and nothing else, and every role accepts.
CommitReady(p) ==
  /\ MayCommit(p)
  /\ Members = Opening \union Artifacts
  /\ \A f \in Members : Whole(f)
  /\ mode = "official" =>
       /\ \A f \in ReviewFiles : author[f] = p
       /\ reviews[p] = "accept"

-----------------------------------------------------------------------------
(* Control of one command *)

Goto(p, next) == pc' = [pc EXCEPT ![p] = next] /\ UNCHANGED stage

\* An exception. The store is poisoned before the exception leaves a method of
\* the store, and by main for every exception; the two are one attempt here.
Fails(p, who) == /\ pc' = [pc EXCEPT ![p] = "poison"]
                 /\ stage' = [stage EXCEPT ![p] = who]

Quiet == UNCHANGED <<mode, reviews, rejection, held, ghosts>>

\* A check that leaves the run alone; anything may also raise for a reason of
\* its own.
Check(p, at, holds, next) ==
  /\ pc[p] = at
  /\ \/ holds /\ Goto(p, next)
     \/ Fails(p, "command")
  /\ Quiet /\ UNCHANGED files

\* An exclusive create inside a method of the store.
Publish(p, at, f, next) ==
  /\ pc[p] = at
  /\ \/ Writes(p, f) /\ Goto(p, next)
     \/ RaisesIn(p, f) /\ Fails(p, "command")
  /\ Quiet

Live(p) == pc[p] \notin {"done", "failed", "dead"}

-----------------------------------------------------------------------------
(* The run command *)

\* The artifacts of the run.
FillStore ==
  Publish(Runner, "fill", "precursor",
          IF mode = "official" THEN "seal" ELSE "commit")

\* seal_awaiting_review gives the capability away.
SealAwaitingReview ==
  Publish(Runner, "seal", "AWAITING_REVIEW", "collect")

-----------------------------------------------------------------------------
(* The finalize-review command *)

AdoptAwaitingReview(p) ==
  /\ pc[p] = "adopt"
  /\ \/ /\ Adoptable
        /\ Goto(p, "decide")
        /\ held' = [held EXCEPT ![p] = TRUE]
        /\ contended' = (contended \/ \E q \in Processes \ {p} : held[q] /\ Live(q))
     \/ Goto(p, "failed") /\ UNCHANGED <<held, contended>>
  /\ UNCHANGED <<mode, reviews, files, rejection, unrecorded, powerLost>>

\* Every method looks at the markers first, and then creates its file. One role
\* that does not accept rejects the run.
ReviewSteps(p) ==
  \/ Check(p, "decide", MayCommit(p), "write_decisions")
  \/ Publish(p, "write_decisions", "review-decisions", "summarize")
  \/ Check(p, "summarize", MayCommit(p), "write_summary")
  \/ Publish(p, "write_summary", "execution-summary",
             IF reviews[p] = "accept" THEN "commit" ELSE "reject")

-----------------------------------------------------------------------------
(* Commit, terminal commit and status, the same for both commands *)

Commit(p) ==
  \/ Check(p, "commit", CommitReady(p), "write_manifest")
  \/ Publish(p, "write_manifest", "result-manifest", "write_committed")
  \/ Publish(p, "write_committed", "COMMITTED", "collect")

\* capture_terminal: the terminal commit runs only after a silent callback, and
\* has nothing to do for a run that awaits its review.
CollectTranscript(p) ==
  Check(p, "collect", TRUE,
        IF mode = "official" /\ p = Runner THEN "emit" ELSE "authorize")

\* commit, _finalize_and_terminalize, the minting of the capability and the
\* marker writer verify the committed run one after the other. Files are only
\* ever added, so the last verification stands for all.
Authorize(p) == Check(p, "authorize", Verifies("committed"), "mark")

\* Faulty: the marker writer takes an error for success.
AmbiguousFaulty(p) == Goto(p, "emit")

\* An error after the marker exists leaves the writer "ambiguous": it is not
\* poisoned, and can do nothing more.
Ambiguous(p) == Fails(p, "command")

\* _write_terminal_success_final and the reopening of the run.
MarkTerminalSuccess(p) ==
  \/ /\ pc[p] = "mark"
     /\ \/ Writes(p, "TERMINAL_SUCCESS") /\ Goto(p, "reopen")
        \/ /\ RaisesIn(p, "TERMINAL_SUCCESS")
           /\ IF disk'["TERMINAL_SUCCESS"] = "absent" THEN Fails(p, "command")
                                                      ELSE Ambiguous(p)
     /\ Quiet
  \/ Check(p, "reopen", Accepted, "emit")

\* The status goes out through the bootstrap, or cannot be delivered.
EmitStatus(p) ==
  /\ pc[p] = "emit"
  /\ Goto(p, "done") \/ Fails(p, "bootstrap")
  /\ Quiet /\ UNCHANGED files

-----------------------------------------------------------------------------
(* Failure *)

\* What follows an attempt to record the failure.
AfterPoison(p) ==
  Goto(p, IF stage[p] = "command" THEN "diagnose" ELSE "invalidate")

\* Writes the failure record, or tries to. An error is swallowed.
Record(p, rejected) ==
  /\ Writes(p, "TERMINAL_FAILURE") \/ RaisesIn(p, "TERMINAL_FAILURE")
  /\ rejection' = IF ~Present("TERMINAL_FAILURE") THEN rejected ELSE rejection
  /\ unrecorded' = (disk'["TERMINAL_FAILURE"] = "absent")
  /\ UNCHANGED <<mode, reviews, held, contended, powerLost>>

\* _poison looks for the markers ...
LookForMarkers(p) ==
  /\ pc[p] = "poison"
  /\ IF {"TERMINAL_SUCCESS", "TERMINAL_FAILURE"} \intersect Members = {}
     THEN Goto(p, "write_failure")
     ELSE AfterPoison(p)
  /\ Quiet /\ UNCHANGED files

\* ... and then writes the record, whatever has appeared since.
WriteFailure(p) ==
  /\ pc[p] = "write_failure"
  /\ Record(p, FALSE)
  /\ AfterPoison(p)

\* main for a rejected review: _fail_rejected_review, whose error is swallowed, and
\* no log. Reading the summary back may also raise before that.
RecordRejection(p) ==
  /\ pc[p] = "reject"
  /\ \/ MayCommit(p) /\ Record(p, TRUE) /\ Fails(p, "bootstrap")
     \/ Quiet /\ UNCHANGED files /\ Fails(p, "bootstrap")
     \/ Quiet /\ UNCHANGED files /\ Fails(p, "command")

\* _persist_failure_diagnostic, best effort (only the presence of the log
\* matters); then main returns 1.
Diagnose(p) ==
  /\ pc[p] = "diagnose"
  /\ \/ ~Present("failure-details") /\ Create(p, "failure-details", "exact")
     \/ UNCHANGED files
  /\ Fails(p, "bootstrap")
  /\ Quiet

\* Faulty: a success marker is never contradicted.
InvalidateFaulty(p) ==
  /\ pc[p] = "invalidate"
  /\ Goto(p, "failed") /\ Quiet /\ UNCHANGED files

\* The bootstrap's invalidator, for every exit code but 0: after one more attempt
\* at an ordinary failure, the record is put beside a success marker.
Invalidate(p) ==
  /\ pc[p] = "invalidate"
  /\ Goto(p, "failed")
  /\ IF Present("TERMINAL_SUCCESS") /\ ~Present("TERMINAL_FAILURE")
     THEN Record(p, FALSE)
     ELSE Quiet /\ UNCHANGED files

FailurePath(p) ==
  \/ LookForMarkers(p) \/ WriteFailure(p)
  \/ RecordRejection(p) \/ Diagnose(p) \/ Invalidate(p)

-----------------------------------------------------------------------------
(* The environment *)

\* The process dies between two steps. (Dying inside a write is a write that
\* raises, and dying before the exception is handled.)
Crash(p) ==
  /\ Live(p) /\ held[p]
  /\ pc' = [pc EXCEPT ![p] = "dead"]
  /\ Quiet /\ UNCHANGED <<files, stage>>

\* What a power cut may leave of a file.
Remains == [absent |-> {"absent"}, torn |-> {"absent", "torn"},
            volatile |-> {"absent", "torn", "volatile"}, exact |-> {"exact"}]

\* All running processes die, and bytes that were never fsynced may go.
PowerLoss ==
  /\ ~powerLost
  /\ powerLost' = TRUE
  /\ pc' = [p \in Processes |-> IF Live(p) /\ held[p] THEN "dead" ELSE pc[p]]
  /\ \E left \in [{f \in File : disk[f] \in {"torn", "volatile"}} -> Bytes] :
       /\ \A f \in DOMAIN left : left[f] \in Remains[disk[f]]
       /\ disk' = [f \in File |-> IF f \in DOMAIN left THEN left[f] ELSE disk[f]]
  /\ unrecorded' = \/ unrecorded
                    \/ /\ Present("TERMINAL_FAILURE")
                       /\ disk'["TERMINAL_FAILURE"] = "absent"
  /\ UNCHANGED <<mode, reviews, author, rejection, stage, held, contended>>

-----------------------------------------------------------------------------

Init ==
  /\ mode \in {"official", "unreviewed"}
  /\ reviews \in {v \in [Processes -> {"accept", "reject"}] : v[Runner] = "reject"}
  /\ disk = [f \in File |-> IF f = "PENDING" THEN "exact" ELSE "absent"]
  /\ author = [f \in Signed |-> Runner]
  /\ rejection = FALSE
  /\ pc = [p \in Processes |-> IF p = Runner THEN "fill" ELSE "adopt"]
  /\ stage = [p \in Processes |-> "command"]
  /\ held = [p \in Processes |-> p = Runner]
  /\ contended = FALSE /\ unrecorded = FALSE /\ powerLost = FALSE

Step(p) ==
  \/ p = Runner /\ (FillStore \/ SealAwaitingReview)
  \/ AdoptAwaitingReview(p) \/ ReviewSteps(p)
  \/ Commit(p) \/ CollectTranscript(p) \/ Authorize(p) \/ MarkTerminalSuccess(p)
  \/ EmitStatus(p) \/ FailurePath(p)

Next == (\E p \in Processes : Step(p) \/ Crash(p)) \/ PowerLoss

Spec == Init /\ [][Next]_vars
-----------------------------------------------------------------------------
(* Properties *)

\* The process whose exit code 0 means a finished run.
Finishes(p) == pc[p] = "done" /\ (mode = "official" => p # Runner)

\* A run command died between writing AWAITING_REVIEW and its fsync, and a power
\* cut took the marker back: adopting a run does not sync it again.
MarkerLost == mode = "official" /\ powerLost /\ ~Whole("AWAITING_REVIEW")

\* A command that exits with 0 after finishing a run leaves a run that verifies,
\* for good, power cut or not, unless another live command held the run at the
\* same time. Exit code 0 of an official run command means that the review can
\* begin: until a finalize-review command adopts the run, it can be adopted.
ExitZeroMeansAccepted ==
  /\ \A p \in Processes :
       Finishes(p) /\ ~contended /\ ~MarkerLost => Accepted
  /\ /\ mode = "official" /\ pc[Runner] = "done"
     /\ \A p \in Finalizers : ~held[p]
     => Adoptable

\* However many commands adopt a run, what carries the success marker is the
\* work of one of them: it wrote the decisions, the summary, the seals and the
\* marker, and its own reviewers accepted. The run command never reviews itself.
OneFinalizer ==
  mode = "official" /\ Present("TERMINAL_SUCCESS") =>
    /\ reviews[author["TERMINAL_SUCCESS"]] = "accept"
    /\ author["TERMINAL_SUCCESS"] # Runner
    /\ \A f \in ReviewFiles \union Seals :
          author[f] = author["TERMINAL_SUCCESS"]

\* A command that held the run and exits with 1 leaves it closed for good: before
\* it returns there is a failure record, if need be beside the success marker,
\* unless the record could not be written. A rejected review that was recorded
\* stays verifiable as one, whatever the command that rejected does afterwards.
ClosedRunStands ==
  /\ \A p \in Processes :
       pc[p] = "failed" /\ held[p] /\ ~unrecorded =>
         Present("TERMINAL_FAILURE") /\ ~Accepted
  /\ /\ rejection /\ disk["TERMINAL_FAILURE"] = "exact"
     /\ ~contended /\ ~MarkerLost
     => RejectionVerifies
=============================================================================
