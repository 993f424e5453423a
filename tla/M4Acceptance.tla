----------------------------- MODULE M4Acceptance -----------------------------
(***************************************************************************)
(* The local M4 acceptance command (evalsim/sources/waymax_m4_cli.py): two  *)
(* scans of all shards and their cohorts (waymax_cohort.py), three visits   *)
(* of the chosen records, the benchmark in a fresh worker process, the      *)
(* terminal capture around all of it, and the publication of the aggregate. *)
(* While it runs, the sources and the shard files may change, the worker    *)
(* may hang or die, and the command itself may be interrupted or killed.    *)
(***************************************************************************)
EXTENDS Naturals, FiniteSets, FiniteSetsExt, Sequences, Functions

CONSTANTS
  NumShards,          \* 10
  Ordinals,           \* of the records of a shard
  Contents,           \* versions of a shard file
  EligibleIn,         \* the ordinals that a version makes eligible
  Rank, SecondRank,   \* of a record: the cohort and the redistribution domain
  IDMRank,            \* and the nested subset
  Qualifying,         \* records with a vehicle for IDM
  Quota, Target, Floor, IDMTarget, IDMFloor,
  Sources,            \* versions of the reviewed code
  MaxDrift, MaxOutput \* bounds of the model

Shards  == 1 .. NumShards
Records == Shards \X Ordinals

Before(rank, a, b) == rank[a] < rank[b]

ASSUME M4Assumption ==
  /\ NumShards \in Nat \ {0} /\ Ordinals \subseteq Nat /\ IsFiniteSet(Ordinals)
  /\ EligibleIn \in [Contents -> SUBSET Ordinals]
  /\ \A rank \in {Rank, SecondRank, IDMRank} :
       rank \in [Records -> Nat] /\ IsInjective(rank)
  /\ Qualifying \subseteq Records
  /\ Quota \in [Shards -> Nat] /\ {Target, Floor, IDMTarget, IDMFloor} \subseteq Nat
  /\ SumFunction(Quota) = Target /\ 2 <= Floor /\ Floor <= Target
  /\ 0 < IDMFloor /\ IDMFloor <= IDMTarget
  /\ {MaxDrift, MaxOutput} \subseteq Nat

VARIABLES
  source, shards, drifts,     \* the world: the checkout and the data set
  stage,
  approved,                   \* execution-provenance.json
  pass, at, opened, read,     \* the pass over the shards
  events,                     \* of the scan so far
  manifests,                  \* manifest-pass-1.json and manifest-pass-2.json
  subset,                     \* the nested IDM subset
  visits,                     \* what the visitors were given: pass, record, content
  worker, pipe, message, primary, cleanup,  \* the benchmark
  pending,                    \* the callback has returned an aggregate
  transcript, measured,       \* terminal-output.bin, and its size when it was closed
  report                      \* aggregate-summary.json

world == <<source, shards, drifts>>
scan  == <<pass, at, opened, read, events, manifests, subset, visits>>
bench == <<worker, pipe, message, primary, cleanup>>
vars  == <<world, stage, approved, scan, bench, pending, transcript, measured, report>>

-----------------------------------------------------------------------------
(* _compute_selection, over a set of eligible records *)

Of(shard, records) == {e \in records : e[1] = shard}

\* The n records that come first.
First(n, records, rank) ==
  {e \in records : Cardinality({f \in records : Before(rank, f, e)}) < n}

\* Faulty: quotas are not looked at.
InitiallyFaulty(eligible) == First(Target, eligible, Rank)

Initially(eligible) == UNION {First(Quota[s], Of(s, eligible), Rank) : s \in Shards}

Needed(eligible) == Target - Cardinality(Initially(eligible))

Redistributed(eligible) ==
  First(Needed(eligible), eligible \ Initially(eligible), SecondRank)

FallbackUsed(eligible) == Cardinality(eligible) < Target

Deficits(eligible) ==
  [s \in Shards |-> LET n == Cardinality(Of(s, eligible))
                    IN IF n < Quota[s] THEN Quota[s] - n ELSE 0]

Selectable(eligible) ==
  FallbackUsed(eligible) =>
    Cardinality(eligible) >= Floor /\ \A s \in Shards : Of(s, eligible) # {}

Selection(eligible) ==
  [selected |-> IF FallbackUsed(eligible) THEN eligible
                ELSE Initially(eligible) \union Redistributed(eligible),
   deficits |-> Deficits(eligible),
   redistributed |-> IF FallbackUsed(eligible) THEN 0 ELSE Needed(eligible)]

\* select_idm_subset.
IDMQualified(selected) == selected \intersect Qualifying

IDMSubset(selected) == First(IDMTarget, IDMQualified(selected), IDMRank)

-----------------------------------------------------------------------------
(* Control *)

Goto(next) == stage' = next

Quiet == UNCHANGED world

Ended == {"failed", "interrupted", "undelivered", "passed", "crashed"}

Reaping  == {"terminate", "join", "terminate_again", "join_again", "kill"}
Benchmark == {"start", "poll", "receive", "judge"} \union Reaping
Publication == {"check", "link", "unlink", "deliver"}

\* Stages of the callback that runs under the terminal capture.
Captured == {"open", "decode", "pass_done"} \union Benchmark

-----------------------------------------------------------------------------
(* run_acceptance before the capture *)

\* A clean checkout, a new output directory, and the fingerprints of the code.
Prepare ==
  /\ stage = "new"
  /\ approved' = source
  /\ Goto("open")
  /\ Quiet /\ UNCHANGED <<scan, bench, pending, transcript, measured, report>>

-----------------------------------------------------------------------------
(* The passes over the shards *)

Scanning == pass <= 2

\* The records that a pass wants from a shard.
Targets ==
  CASE Scanning       -> Records
    [] pass \in {3, 4} -> manifests[1].selection.selected
    [] pass = 5       -> subset

\* What a manifest says a shard's digest is.
DigestOf(manifest, s) == (CHOOSE e \in manifest.events : e.record[1] = s).digest

\* _guarded_shard_digest; a visit compares it with the manifest, and skips a shard
\* that it wants nothing from.
OpenShard ==
  /\ stage = "open" /\ at <= NumShards
  /\ LET wanted == Scanning \/ Of(at, Targets) # {}
         right  == wanted /\ ~Scanning =>
                     shards[at].content = DigestOf(manifests[1], at)
     IN IF right
        THEN /\ opened' = IF wanted THEN shards[at] ELSE opened
             /\ Goto(IF wanted THEN "decode" ELSE "open")
             /\ at' = IF wanted THEN at ELSE at + 1
        ELSE Goto("measure") /\ UNCHANGED <<opened, at>>
  /\ Quiet
  /\ UNCHANGED <<approved, pass, read, events, manifests, subset, visits, bench,
                 pending, transcript, measured, report>>

Undecoded == {e \in Of(at, Targets) : \A x \in read : x.record # e}

\* The next record, decoded from what the file holds by now.
DecodeRecord ==
  /\ stage = "decode"
  /\ \E e \in Undecoded :
       /\ \A f \in Undecoded : e[2] <= f[2]
       /\ read' = read \union {[record |-> e, content |-> shards[at].content]}
  /\ Quiet
  /\ UNCHANGED <<stage, approved, pass, at, opened, events, manifests, subset,
                 visits, bench, pending, transcript, measured, report>>

\* Faulty: the file is not looked at again after it was read.
FileIsSameFaulty == TRUE

\* _assert_file_identity.
FileIsSame == shards[at].stamp = opened.stamp

\* ScanEvents carry the digest of the shard, and the outcome of the record.
EventOf(x) == [record   |-> x.record,
               digest   |-> opened.content,
               eligible |-> x.record[2] \in EligibleIn[x.content]]

\* A visitor is given a record that is classified as before, selection apart.
VisitorAccepts(x) == EventOf(x) \in manifests[1].events

CloseShard ==
  /\ stage = "decode" /\ Undecoded = {}
  /\ IF FileIsSame /\ (Scanning \/ \A x \in read : VisitorAccepts(x))
     THEN /\ at' = at + 1
          /\ Goto("open")
          /\ IF Scanning
             THEN /\ events' = events \union {EventOf(x) : x \in read}
                  /\ UNCHANGED visits
             ELSE /\ visits' = visits \union
                       {[pass |-> pass, record |-> x.record, content |-> x.content] :
                          x \in read}
                  /\ UNCHANGED events
     ELSE Goto("measure") /\ UNCHANGED <<at, events, visits>>
  /\ read' = {}
  /\ opened' = [content |-> opened.content, stamp |-> 0]
  /\ Quiet
  /\ UNCHANGED <<approved, pass, manifests, subset, bench, pending, transcript,
                 measured, report>>

NextPass ==
  /\ pass' = pass + 1 /\ at' = 1
  /\ Goto(IF pass = 5 THEN "start" ELSE "open")

\* WaymaxCohortManifest.build and _write_manifest_exclusive, twice, and the
\* comparison of the bytes.
EndScan ==
  /\ stage = "open" /\ at > NumShards /\ Scanning
  /\ LET eligible == {e.record : e \in {x \in events : x.eligible}}
         manifest == [events |-> events, selection |-> Selection(eligible)]
     IN /\ IF Selectable(eligible)
           THEN manifests' = Append(manifests, manifest)
           ELSE UNCHANGED manifests
        /\ IF Selectable(eligible) /\ (pass = 2 => manifest = manifests[1])
           THEN NextPass
           ELSE Goto("measure") /\ UNCHANGED <<pass, at>>
  /\ events' = {}
  /\ Quiet
  /\ UNCHANGED <<approved, opened, read, subset, visits, bench, pending, transcript,
                 measured, report>>

\* The qualification pass freezes the nested subset before any IDM output exists.
EndVisit ==
  /\ stage = "open" /\ at > NumShards /\ ~Scanning
  /\ LET selected == manifests[1].selection.selected
     IN IF pass = 3
        THEN IF Cardinality(IDMQualified(selected)) >= IDMFloor
             THEN subset' = IDMSubset(selected) /\ NextPass
             ELSE Goto("measure") /\ UNCHANGED <<subset, pass, at>>
        ELSE NextPass /\ UNCHANGED subset
  /\ Quiet
  /\ UNCHANGED <<approved, opened, read, events, manifests, visits, bench, pending,
                 transcript, measured, report>>

-----------------------------------------------------------------------------
(* _fresh_worker_benchmark *)

Alive == worker \in {"working", "sent"}

\* The worker is spawned; that may raise, and an interrupt may come after it.
StartWorker ==
  /\ stage = "start"
  /\ \/ worker' = "working" /\ Goto("poll")
     \/ worker' = "working" /\ Goto("measure")
     \/ UNCHANGED worker /\ Goto("measure")
  /\ Quiet
  /\ UNCHANGED <<approved, scan, pipe, message, primary, cleanup, pending, transcript,
                 measured, report>>

\* The wait ends with something to read, the end of the pipe, or the time limit;
\* it may be interrupted.
Poll ==
  /\ stage = "poll"
  /\ \/ /\ pipe # "empty" \/ ~Alive
        /\ Goto("receive") /\ UNCHANGED primary
     \/ primary' = TRUE /\ Goto("terminate")
  /\ Quiet
  /\ UNCHANGED <<approved, scan, worker, pipe, message, cleanup, pending, transcript,
                 measured, report>>

\* An empty pipe at its end raises EOFError.
Receive ==
  /\ stage = "receive"
  /\ message' = pipe /\ pipe' = "empty"
  /\ primary' = (pipe = "empty")
  /\ Goto(IF pipe = "empty" THEN "terminate" ELSE "join")
  /\ Quiet
  /\ UNCHANGED <<approved, scan, worker, cleanup, pending, transcript, measured, report>>

\* SIGTERM, which the worker may not follow; or the call raises.
Terminate(from, next) ==
  /\ stage = from
  /\ \/ worker' \in (IF Alive THEN {worker, "died"} ELSE {worker}) /\ UNCHANGED cleanup
     \/ cleanup' = FALSE /\ UNCHANGED worker
  /\ Goto(next)
  /\ Quiet
  /\ UNCHANGED <<approved, scan, pipe, message, primary, pending, transcript, measured,
                 report>>

\* join ends when the worker is dead, or after ten seconds.
Join(from, next) ==
  /\ stage = from
  /\ Goto(IF Alive THEN next ELSE "judge")
  /\ Quiet
  /\ UNCHANGED <<approved, scan, bench, pending, transcript, measured, report>>

\* Faulty: the worker is waited for, but not killed.
KillNobody ==
  /\ stage = "kill" /\ ~Alive
  /\ Goto("judge")
  /\ Quiet
  /\ UNCHANGED <<approved, scan, bench, pending, transcript, measured, report>>

\* SIGKILL, and a join without a limit.
Kill ==
  /\ stage = "kill"
  /\ worker' = IF Alive THEN "died" ELSE worker
  /\ Goto("judge")
  /\ Quiet
  /\ UNCHANGED <<approved, scan, pipe, message, primary, cleanup, pending, transcript,
                 measured, report>>

\* _reap_benchmark_worker.
Reap ==
  \/ Terminate("terminate", "join")
  \/ Join("join", "terminate_again")
  \/ Terminate("terminate_again", "join_again")
  \/ Join("join_again", "kill")
  \/ Kill

AnswerCounts == cleanup /\ ~primary /\ worker = "exited" /\ message = "report"

\* The rest of the callback: runtime, aggregate.
Judge ==
  /\ stage = "judge"
  /\ pending' = AnswerCounts
  /\ Goto("measure")
  /\ Quiet
  /\ UNCHANGED <<approved, scan, bench, transcript, measured, report>>

-----------------------------------------------------------------------------
(* The worker process *)

\* _benchmark_worker: a report, or the code of what went wrong.
Answer ==
  /\ worker = "working"
  /\ worker' = "sent"
  /\ pipe' \in {"report", "code"}
  /\ Quiet
  /\ UNCHANGED <<stage, approved, scan, message, primary, cleanup, pending, transcript,
                 measured, report>>

\* An exit code of 0 is possible only after an answer.
ExitWorker ==
  /\ Alive
  /\ worker' \in (IF worker = "sent" THEN {"exited", "died"} ELSE {"died"})
  /\ Quiet
  /\ UNCHANGED <<stage, approved, scan, pipe, message, primary, cleanup, pending,
                 transcript, measured, report>>

\* The worker has inherited descriptors 1 and 2 of the capture.
WorkerPrints ==
  /\ Alive /\ transcript < MaxOutput
  /\ transcript' = transcript + 1
  /\ Quiet /\ UNCHANGED <<stage, approved, scan, bench, pending, measured, report>>

Worker == Answer \/ ExitWorker \/ WorkerPrints

-----------------------------------------------------------------------------
(* The end of the capture, and the publication *)

\* The optional runtime may print while it works.
RuntimePrints ==
  /\ stage \in Captured /\ transcript < MaxOutput
  /\ transcript' = transcript + 1
  /\ Quiet /\ UNCHANGED <<stage, approved, scan, bench, pending, measured, report>>

\* Whatever the callback raises ends it; inside the benchmark the handlers reap
\* the worker first.
Raise ==
  /\ stage \in Captured \ Benchmark
  /\ Goto("measure")
  /\ Quiet /\ UNCHANGED <<approved, scan, bench, pending, transcript, measured, report>>

\* _finalize_terminal_capture: flush, fsync, restore, and the size of the file.
Measure ==
  /\ stage = "measure"
  /\ measured' = transcript
  /\ Goto("close")
  /\ Quiet /\ UNCHANGED <<approved, scan, bench, pending, transcript, report>>

\* The descriptors are closed, which may fail; any output is a failure.
CloseCapture ==
  /\ stage = "close"
  /\ \/ pending /\ measured = 0 /\ Goto("check")
     \/ Goto("failed")
  /\ Quiet
  /\ UNCHANGED <<approved, scan, bench, pending, transcript, measured, report>>

\* _publish_accepted_aggregate: the code is what it was, and the path ignored.
CheckSource ==
  /\ stage = "check"
  /\ Goto(IF source = approved THEN "link" ELSE "failed")
  /\ Quiet
  /\ UNCHANGED <<approved, scan, bench, pending, transcript, measured, report>>

\* _write_bytes_exclusive: the file is complete when it gets its name.
LinkReport ==
  /\ stage = "link"
  /\ \/ report' = TRUE /\ Goto("unlink")
     \/ UNCHANGED report /\ Goto("failed")
  /\ Quiet /\ UNCHANGED <<approved, scan, bench, pending, transcript, measured>>

\* The temporary file goes, or stays.
UnlinkPending ==
  /\ stage = "unlink"
  /\ Goto("deliver")
  /\ Quiet
  /\ UNCHANGED <<approved, scan, bench, pending, transcript, measured, report>>

DeliverStatus ==
  /\ stage = "deliver"
  /\ Goto("passed") \/ Goto("undelivered")
  /\ Quiet
  /\ UNCHANGED <<approved, scan, bench, pending, transcript, measured, report>>

\* Control-C during the publication.
Interrupt ==
  /\ stage \in Publication
  /\ Goto("interrupted")
  /\ Quiet
  /\ UNCHANGED <<approved, scan, bench, pending, transcript, measured, report>>

Crash ==
  /\ stage \notin Ended
  /\ Goto("crashed")
  /\ Quiet
  /\ UNCHANGED <<approved, scan, bench, pending, transcript, measured, report>>

-----------------------------------------------------------------------------
(* The world *)

Drift ==
  /\ drifts < MaxDrift /\ drifts' = drifts + 1
  /\ UNCHANGED <<stage, approved, scan, bench, pending, transcript, measured, report>>

ChangeSource(c) ==
  /\ Drift /\ c # source
  /\ source' = c /\ UNCHANGED shards

ReplaceShard(s, c) ==
  /\ Drift /\ c # shards[s].content
  /\ shards' = [shards EXCEPT ![s] = [content |-> c, stamp |-> @.stamp + 1]]
  /\ UNCHANGED source

-----------------------------------------------------------------------------

Init ==
  /\ source \in Sources /\ drifts = 0
  /\ \E contents \in [Shards -> Contents] :
       shards = [s \in Shards |-> [content |-> contents[s], stamp |-> 1]]
  /\ stage = "new" /\ approved = source
  /\ pass = 1 /\ at = 1 /\ opened = shards[1]
  /\ read = {} /\ events = {} /\ manifests = << >> /\ subset = {} /\ visits = {}
  /\ worker = "none" /\ pipe = "empty" /\ message = "empty"
  /\ primary = FALSE /\ cleanup = TRUE
  /\ pending = FALSE /\ transcript = 0 /\ measured = 0 /\ report = FALSE

Command ==
  \/ Prepare
  \/ OpenShard \/ DecodeRecord \/ CloseShard \/ EndScan \/ EndVisit
  \/ StartWorker \/ Poll \/ Receive \/ Reap \/ Judge
  \/ Measure \/ CloseCapture
  \/ CheckSource \/ LinkReport \/ UnlinkPending \/ DeliverStatus

Trouble == Raise \/ RuntimePrints \/ Interrupt \/ Crash

World ==
  \/ \E c \in Sources : ChangeSource(c)
  \/ \E s \in Shards, c \in Contents : ReplaceShard(s, c)

Next == Command \/ Trouble \/ Worker \/ World

\* The command never waits for anything without a limit but for a killed worker.
Spec == Init /\ [][Next]_vars /\ WF_vars(Command)
-----------------------------------------------------------------------------
(* Properties *)

\* A cohort has exactly the target, or everything there is; no shard gets less
\* than its quota while it has more to give, none gets more than its quota
\* unless another is short, and what is redistributed is exactly what is missing.
CohortIsExact ==
  \A i \in DOMAIN manifests :
    LET sel      == manifests[i].selection
        eligible == {e.record : e \in {x \in manifests[i].events : x.eligible}}
        Got(s)   == Cardinality(Of(s, sel.selected))
        Has(s)   == Cardinality(Of(s, eligible))
    IN /\ sel.selected \subseteq eligible
       /\ Cardinality(sel.selected) = Min({Target, Cardinality(eligible)})
       /\ \A s \in Shards : Got(s) >= Min({Quota[s], Has(s)})
       /\ Cardinality(eligible) >= Target =>
            /\ sel.redistributed = SumFunction(sel.deficits)
            /\ \A s \in Shards : Got(s) > Quota[s] => \E t \in Shards : Got(t) < Quota[t]

\* A report rests on one version of every shard: both manifests are equal, every
\* outcome in them is that of the content with the recorded digest, and each of
\* the three passes saw exactly the records it should, with that content. Behind
\* it is a worker that answered with a report, ended by itself with exit code 0
\* and is gone, so that the transcript, which it could write to, is still as
\* empty as it was found.
ReportIsEarned ==
  report =>
    /\ Len(manifests) = 2 /\ manifests[1] = manifests[2]
    /\ \A e \in manifests[1].events : e.eligible = (e.record[2] \in EligibleIn[e.digest])
    /\ \A p \in {3, 4, 5} :
         LET seen == {v \in visits : v.pass = p}
         IN /\ {v.record : v \in seen} =
                 (IF p = 5 THEN subset ELSE manifests[1].selection.selected)
            /\ \A v \in seen : v.content = DigestOf(manifests[1], v.record[1])
    /\ worker = "exited" /\ message = "report" /\ transcript = 0

\* Whatever the worker does, the command ends.
CommandEnds == <>(stage \in Ended)
=============================================================================
