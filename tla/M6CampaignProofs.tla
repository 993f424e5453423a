--------------------------- MODULE M6CampaignProofs ---------------------------
(***************************************************************************)
(* Proofs about M6Campaign, for any cohort, any number of runs and any     *)
(* number of changes of the world: what a run seals is what its M4 run was *)
(* accepted for, official outcomes have their whole chain behind them, the *)
(* collector holds the best scenes at every moment, and no pilot is        *)
(* refused for durations that were really measured.                        *)
(***************************************************************************)
EXTENDS M6Campaign, TerminalCapture, FiniteSetTheorems, TLAPS

Stages == {"new", "shard", "decode", "deliver", "begin", "execute", "numpy", "waymax",
           "artifacts",
           "committed", "recheck_local", "recheck_shards", "mark", "awaiting"} \union Ended

Spans == [parts : Nat, ms : Nat, ticks : Nat]

Timings == [wall : Spans, numpy : Spans, waymax : Spans]

\* Types, as far as the proofs use them.
Typed ==
  /\ code \in Codes
  /\ manifest \in [DOMAIN Shards -> Contents]
  /\ shards \in [DOMAIN Shards -> [content : Contents, stamp : Nat]]
  /\ stage \in [Runs -> Stages]
  /\ local \in [Runs -> Observations]
  /\ closed \in [Runs -> Nat]
  /\ opened \in [Runs -> Nat]
  /\ read \in [Runs -> [Members -> Contents \union {Unread}]]
  /\ seen \in [Runs -> SUBSET Members]
  /\ residents \in [Runs -> SUBSET Members]
  /\ sealed = [r \in Runs |-> sealed[r]]
  /\ outcomes \in [Runs -> BOOLEAN]
  /\ passed \in [Runs -> BOOLEAN]
  /\ timing \in [Runs -> Timings]

Visiting(r) == stage[r] \in {"shard", "decode", "deliver"}

\* Every record of a finished shard was decoded from the accepted content. In
\* the shard that is open this holds as long as the file is the one that was
\* hashed, which CheckFile asks for before the first record is handed on.
ReadSoFar(r) ==
  /\ stage[r] = "new" => closed[r] = 0 /\ \A m \in Members : read[r][m] = Unread
  /\ Visiting(r) => \A m \in Members :
       /\ ShardOf[m] <= closed[r] => read[r][m] = local[r].manifest[ShardOf[m]]
       /\ ShardOf[m] > closed[r] + 1 => read[r][m] = Unread
       /\ ShardOf[m] > closed[r] /\ stage[r] = "shard" => read[r][m] = Unread
       /\ ShardOf[m] <= closed[r] + 1 /\ stage[r] = "deliver" =>
            read[r][m] = local[r].manifest[ShardOf[m]]

OpenShardIsAccepted(r) ==
  stage[r] = "decode" =>
    /\ closed[r] < Len(Shards)
    /\ opened[r] <= shards[Current(r)].stamp
    /\ opened[r] = shards[Current(r)].stamp =>
         /\ shards[Current(r)].content = local[r].manifest[Current(r)]
         /\ \A m \in Members : ShardOf[m] = Current(r) =>
              read[r][m] \in {Unread, local[r].manifest[Current(r)]}

Reading == \A r \in Runs : ReadSoFar(r) /\ OpenShardIsAccepted(r)

AcceptedFacts(r) ==
  Verdicts(local[r].code, [m \in Members |-> local[r].manifest[ShardOf[m]]])

Sealing(r) ==
  /\ sealed[r] # Nothing =>
       sealed[r] = [rows      |-> EligibilityRows(Mode[r], AcceptedFacts(r)),
                    selection |-> SelectSubset(AcceptedFacts(r))]
  /\ stage[r] = "new" \/ Visiting(r) => sealed[r] = Nothing
  /\ stage[r] \in {"begin", "execute"} => sealed[r] # Nothing

IInv == Typed /\ Reading /\ \A r \in Runs : Sealing(r)

-----------------------------------------------------------------------------

(* Type correctness *)

LEMMA Quotient ==
  ASSUME NEW a \in Nat, NEW b \in Nat \ {0}
  PROVE  a \div b \in Nat /\ b * (a \div b) <= a /\ a < b * (a \div b) + b
OBVIOUS

\* A duration is rounded up, by less than a millisecond.
LEMMA ElapsedRoundsUp ==
  ASSUME NEW t \in Nat
  PROVE  /\ ElapsedMs(t) \in Nat
         /\ t <= TicksPerMs * ElapsedMs(t)
         /\ TicksPerMs * ElapsedMs(t) <= t + TicksPerMs - 1
<1> DEFINE a == t + TicksPerMs - 1
<1>1. TicksPerMs \in Nat \ {0} /\ a \in Nat
  BY CampaignAssumption
<1>2. ElapsedMs(t) = a \div TicksPerMs
  BY DEF ElapsedMs
<1>3. /\ a \div TicksPerMs \in Nat /\ TicksPerMs * (a \div TicksPerMs) <= a
      /\ a < TicksPerMs * (a \div TicksPerMs) + TicksPerMs
  BY <1>1, Quotient
<1> DEFINE p == TicksPerMs * (a \div TicksPerMs)
<1>4. p \in Nat
  BY <1>1, <1>3
<1>5. a < p + TicksPerMs => t <= p
  <2> HIDE DEF p
  <2> QED
    BY <1>1, <1>4
<1> QED
  BY <1>2, <1>3, <1>5

LEMMA InitTyped == Init => Typed
<1> SUFFICES ASSUME Init PROVE Typed
  OBVIOUS
<1>1. Observed \in Observations
  BY DEF Init, Observed, Observations
<1>2. "new" \in Stages /\ Untimed \in Timings
  BY DEF Stages, Untimed, NoTime, Timings, Spans
<1> QED
  BY <1>1, <1>2, CampaignAssumption DEF Init, Typed

LEMMA ObservedTyped == Typed => Observed \in Observations
BY DEF Typed, Observed, Observations

LEMMA NextTyped == Typed /\ [Next]_vars => Typed'
<1> SUFFICES ASSUME Typed, [Next]_vars PROVE Typed'
  OBVIOUS
<1> USE DEF Quiet, Goto, Fails, world, visit
<1>1. ASSUME NEW r \in Runs, Prepare(r) PROVE Typed'
  BY <1>1, ObservedTyped DEF Prepare, Typed, Stages, Ended
<1>2. ASSUME NEW r \in Runs, OpenShard(r) PROVE Typed'
  <2>1. Current(r) \in DOMAIN Shards
    BY <1>2, CampaignAssumption DEF OpenShard, Current, Typed
  <2>2. shards[Current(r)].stamp \in Nat
    BY <2>1 DEF Typed
  <2> QED
    BY <1>2, <2>2 DEF OpenShard, Typed, Stages, Ended
<1>3. ASSUME NEW r \in Runs, DecodeRecord(r) PROVE Typed'
  <2>1. PICK m \in Pending(r) :
           read' = [read EXCEPT ![r][m] = shards[Current(r)].content]
    BY <1>3 DEF DecodeRecord
  <2>2. m \in Members /\ Current(r) \in DOMAIN Shards
    BY <2>1, CampaignAssumption DEF Pending
  <2>3. shards[Current(r)].content \in Contents
    BY <2>2 DEF Typed
  <2> QED
    BY <1>3, <2>1, <2>2, <2>3 DEF DecodeRecord, Typed
<1>4. ASSUME NEW r \in Runs, CheckFile(r) \/ CloseShard(r) PROVE Typed'
  <2>1. closed' \in [Runs -> Nat] /\ opened' \in [Runs -> Nat]
    <3>1. closed' \in {closed, [closed EXCEPT ![r] = @ + 1]}
      BY <1>4 DEF CheckFile, CloseShard
    <3>2. opened' \in {opened, [opened EXCEPT ![r] = 0]}
      BY <1>4 DEF CheckFile, CloseShard
    <3>3. closed \in [Runs -> Nat] /\ opened \in [Runs -> Nat]
      BY DEF Typed
    <3>4. [closed EXCEPT ![r] = @ + 1] \in [Runs -> Nat]
      BY <3>3
    <3>5. [opened EXCEPT ![r] = 0] \in [Runs -> Nat]
      BY <3>3
    <3> QED
      BY <3>1, <3>2, <3>3, <3>4, <3>5
  <2>2. stage' \in [Runs -> Stages]
    BY <1>4 DEF CheckFile, CloseShard, Typed, Stages, Ended
  <2>3. UNCHANGED <<code, manifest, shards, local, read, seen, residents, sealed,
                    outcomes, passed, timing>>
    BY <1>4 DEF CheckFile, CloseShard
  <2> QED
    BY <2>1, <2>2, <2>3 DEF Typed
<1>12. ASSUME NEW r \in Runs, Deliver(r) PROVE Typed'
  <2>1. PICK m \in Members :
          /\ residents' = [residents EXCEPT ![r] = Collect(@, m, FactOf(r, m))]
          /\ seen' = [seen EXCEPT ![r] = @ \union {m}]
    BY <1>12 DEF Deliver, Undelivered
  <2>2. Collect(residents[r], m, FactOf(r, m)) \subseteq residents[r] \union {m}
    BY DEF Collect, Evict
  <2> QED
    BY <1>12, <2>1, <2>2 DEF Deliver, Typed
<1>13. ASSUME NEW r \in Runs, PilotPhase(r) PROVE Typed'
  <2>1. PICK t \in Measured, spans \in SUBSET {"wall", "numpy", "waymax"} :
          timing' = [timing EXCEPT ![r] =
                       [s \in DOMAIN @ |-> IF s \in spans THEN Timed(@[s], t) ELSE @[s]]]
    BY <1>13 DEF PilotPhase, Phase
  <2>2. \A span \in Spans : Timed(span, t) \in Spans
    <3>1. t \in Nat /\ ElapsedMs(t) \in Nat
      BY ElapsedRoundsUp, CampaignAssumption
    <3> QED
      BY <3>1 DEF Timed, Spans
  <2>3. timing'[r] \in Timings
    BY <2>1, <2>2 DEF Typed, Timings
  <2>4. timing' \in [Runs -> Timings]
    BY <2>1, <2>3 DEF Typed
  <2> QED
    BY <1>13, <2>4 DEF PilotPhase, Phase, Typed, Stages
<1>14. ASSUME NEW r \in Runs, VerifyPilot(r) \/ Fail(r) PROVE Typed'
  <2>1. Untimed \in Timings
    BY DEF Untimed, NoTime, Timings, Spans
  <2>2. timing' \in [Runs -> Timings]
    BY <1>14, <2>1 DEF VerifyPilot, Fail, Typed
  <2>3. stage' \in [Runs -> Stages] /\ passed' \in [Runs -> BOOLEAN]
    BY <1>14 DEF VerifyPilot, Fail, Typed, Stages, Ended
  <2> QED
    BY <1>14, <2>2, <2>3 DEF VerifyPilot, Fail, Typed
<1>5. ASSUME NEW r \in Runs, Preregister(r) PROVE Typed'
  BY <1>5 DEF Preregister, Typed, Stages, Ended
<1>6. ASSUME NEW r \in Runs,
             BeginOutcomes(r) \/ ExecuteOfficial(r) \/ Commit(r)
             \/ Invalidate(r) \/ Terminalize(r)
      PROVE Typed'
  BY <1>6 DEF BeginOutcomes, ExecuteOfficial, Commit, Invalidate,
              Terminalize, Recheck, Typed, Stages, Ended
<1>7. ASSUME NEW r \in Runs, FinalizeReview(r) PROVE Typed'
  BY <1>7, ObservedTyped DEF FinalizeReview, Typed, Stages, Ended
<1>8. ASSUME NEW c \in Codes, Approve(c) PROVE Typed'
  BY <1>8 DEF Approve, Drift, Typed
<1>9. ASSUME NEW i \in DOMAIN Shards, NEW c \in Contents, ReplaceShard(i, c) PROVE Typed'
  BY <1>9 DEF ReplaceShard, Drift, Typed
<1>10. ASSUME AcceptM4 PROVE Typed'
  BY <1>10 DEF AcceptM4, Drift, Typed
<1>11. ASSUME UNCHANGED vars PROVE Typed'
  BY <1>11 DEF vars, Typed
<1> QED
  BY <1>1, <1>2, <1>3, <1>4, <1>5, <1>6, <1>7, <1>8, <1>9, <1>10, <1>11, <1>12, <1>13,
     <1>14 DEF Next, Run, World

-----------------------------------------------------------------------------
(* What a step leaves alone *)

\* A step of one run says nothing about the visit and the seal of another.
Frame(r) ==
  /\ stage'[r] = stage[r] /\ local'[r] = local[r] /\ closed'[r] = closed[r]
  /\ opened'[r] = opened[r] /\ read'[r] = read[r] /\ seen'[r] = seen[r]
  /\ residents'[r] = residents[r] /\ sealed'[r] = sealed[r]
  /\ outcomes'[r] = outcomes[r] /\ passed'[r] = passed[r] /\ timing'[r] = timing[r]

LEMMA OneRunMoves ==
  ASSUME Typed, NEW r \in Runs, Run(r) \/ FinalizeReview(r)
  PROVE  UNCHANGED world /\ \A q \in Runs \ {r} : Frame(q)
<1> SUFFICES ASSUME NEW q \in Runs \ {r} PROVE UNCHANGED world /\ Frame(q)
  <2>1. UNCHANGED world
    BY DEF Run, FinalizeReview, Quiet, Prepare, OpenShard, DecodeRecord, CheckFile,
           Deliver, CloseShard,
           Preregister, BeginOutcomes, PilotPhase, Phase, VerifyPilot,
              ExecuteOfficial, Commit,
           Terminalize, Recheck, Invalidate, Fail
  <2> QED
    BY <2>1
<1> USE DEF Quiet, Goto, Fails, visit, Frame, Typed
<1>1. ASSUME Prepare(r) PROVE Frame(q)
  BY <1>1 DEF Prepare
<1>2. ASSUME OpenShard(r) PROVE Frame(q)
  BY <1>2 DEF OpenShard
<1>3. ASSUME DecodeRecord(r) PROVE Frame(q)
  BY <1>3 DEF DecodeRecord
<1>4. ASSUME CheckFile(r) \/ Deliver(r) \/ CloseShard(r) PROVE Frame(q)
  BY <1>4 DEF CheckFile, Deliver, CloseShard
<1>5. ASSUME Preregister(r) PROVE Frame(q)
  BY <1>5 DEF Preregister
<1>6. ASSUME BeginOutcomes(r) \/ PilotPhase(r) \/ VerifyPilot(r)
             \/ ExecuteOfficial(r) \/ Commit(r)
             \/ Invalidate(r) \/ Fail(r) \/ Terminalize(r)
      PROVE Frame(q)
  BY <1>6 DEF BeginOutcomes, PilotPhase, Phase, VerifyPilot,
              ExecuteOfficial, Commit, Invalidate, Fail,
              Terminalize, Recheck
<1>7. ASSUME FinalizeReview(r) PROVE Frame(q)
  BY <1>7 DEF FinalizeReview
<1>8. UNCHANGED world
  BY DEF Run, FinalizeReview, Quiet, Prepare, OpenShard, DecodeRecord, CheckFile,
           Deliver, CloseShard,
         Preregister, BeginOutcomes, PilotPhase, Phase, VerifyPilot,
              ExecuteOfficial, Commit,
         Terminalize, Recheck, Invalidate, Fail
<1> QED
  BY <1>1, <1>2, <1>3, <1>4, <1>5, <1>6, <1>7, <1>8 DEF Run

\* A change of the world leaves every run where it is, and a file that is replaced
\* gets another identity.
LEMMA WorldMoves ==
  ASSUME Typed, World
  PROVE  /\ \A r \in Runs : Frame(r)
         /\ \A i \in DOMAIN Shards :
              \/ shards'[i] = shards[i]
              \/ shards'[i].stamp = shards[i].stamp + 1
<1>1. ASSUME NEW c \in Codes, Approve(c)
      PROVE  shards' = shards
  BY <1>1 DEF Approve
<1>2. ASSUME NEW i \in DOMAIN Shards, NEW c \in Contents, ReplaceShard(i, c)
      PROVE  \A k \in DOMAIN Shards : \/ shards'[k] = shards[k]
                                      \/ shards'[k].stamp = shards[k].stamp + 1
  BY <1>2 DEF ReplaceShard, Typed
<1>3. AcceptM4 => shards' = shards
  BY DEF AcceptM4
<1>4. Drift
  BY DEF World, Approve, ReplaceShard, AcceptM4
<1> QED
  BY <1>1, <1>2, <1>3, <1>4 DEF World, Drift, visit, Frame

-----------------------------------------------------------------------------
(* The visit *)

\* What does not touch a run or the open file keeps what is known of its visit.
LEMMA ReadingKept ==
  ASSUME Typed, NEW r \in Runs, Frame(r), ReadSoFar(r), OpenShardIsAccepted(r),
         \A i \in DOMAIN Shards : \/ shards'[i] = shards[i]
                                  \/ shards'[i].stamp = shards[i].stamp + 1
  PROVE  ReadSoFar(r)' /\ OpenShardIsAccepted(r)'
<1>1. ReadSoFar(r)'
  BY DEF Frame, ReadSoFar, Visiting
<1>2. CASE stage[r] # "decode"
  BY <1>1, <1>2 DEF Frame, OpenShardIsAccepted
<1>3. CASE stage[r] = "decode"
  <2> DEFINE c == Current(r)
  <2>1. closed[r] < Len(Shards) /\ closed[r] \in Nat
    BY <1>3 DEF OpenShardIsAccepted, Typed
  <2>2. c \in DOMAIN Shards
    BY <2>1, CampaignAssumption DEF Current
  <2>3. shards[c].stamp \in Nat /\ opened[r] \in Nat
    BY <2>2 DEF Typed
  <2>4. Current(r)' = c
    BY DEF Frame, Current
  <2>5. /\ opened[r] <= shards[c].stamp
        /\ opened[r] = shards[c].stamp =>
             /\ shards[c].content = local[r].manifest[c]
             /\ \A m \in Members : ShardOf[m] = c =>
                  read[r][m] \in {Unread, local[r].manifest[c]}
    BY <1>3 DEF OpenShardIsAccepted
  <2> HIDE DEF c
  <2>6. \/ shards'[c] = shards[c]
        \/ shards'[c].stamp = shards[c].stamp + 1
    BY <2>2
  <2>7. /\ opened[r] <= shards'[c].stamp
        /\ opened[r] = shards'[c].stamp =>
             /\ shards'[c].content = local[r].manifest[c]
             /\ \A m \in Members : ShardOf[m] = c =>
                  read[r][m] \in {Unread, local[r].manifest[c]}
    BY <2>3, <2>5, <2>6
  <2>8. OpenShardIsAccepted(r)'
    BY <2>1, <2>4, <2>7 DEF Frame, OpenShardIsAccepted
  <2> QED
    BY <1>1, <2>8
<1> QED
  BY <1>2, <1>3

\* A run that is not at its visit after the step has nothing to show.
LEMMA NoVisit ==
  ASSUME NEW r \in Runs, stage'[r] \notin {"new", "shard", "decode", "deliver"}
  PROVE  ReadSoFar(r)' /\ OpenShardIsAccepted(r)'
BY DEF ReadSoFar, OpenShardIsAccepted, Visiting

LEMMA ReadingStep ==
  ASSUME Typed, NEW r \in Runs, ReadSoFar(r), OpenShardIsAccepted(r),
         Run(r) \/ FinalizeReview(r)
  PROVE  ReadSoFar(r)' /\ OpenShardIsAccepted(r)'
<1> USE DEF Quiet, Goto, Fails, visit, world
<1>1. ASSUME Prepare(r) PROVE ReadSoFar(r)' /\ OpenShardIsAccepted(r)'
  <2>1. CASE stage'[r] = "shard"
    <3>1. /\ closed'[r] = 0 /\ \A m \in Members : read'[r][m] = Unread
      BY <1>1 DEF Prepare, ReadSoFar
    <3>2. \A m \in Members : ShardOf[m] >= 1
      BY CampaignAssumption
    <3> QED
      BY <2>1, <3>1, <3>2, CampaignAssumption DEF ReadSoFar, OpenShardIsAccepted, Visiting
  <2>2. stage'[r] \in {"shard", "failed"}
    BY <1>1 DEF Prepare, Typed
  <2> QED
    BY <2>1, <2>2, NoVisit
<1>2. ASSUME OpenShard(r) PROVE ReadSoFar(r)' /\ OpenShardIsAccepted(r)'
  <2>1. CASE shards[Current(r)].content = local[r].manifest[Current(r)]
    <3>1. /\ stage[r] = "shard" /\ stage'[r] = "decode" /\ closed[r] < Len(Shards)
          /\ opened'[r] = shards[Current(r)].stamp
          /\ closed' = closed /\ read' = read /\ local' = local /\ shards' = shards
      BY <1>2, <2>1 DEF OpenShard, Typed
    <3>2. Current(r) \in DOMAIN Shards /\ Current(r)' = Current(r)
      BY <3>1, CampaignAssumption DEF Current, Typed
    <3>3. shards[Current(r)].stamp \in Nat /\ closed[r] \in Nat
      BY <3>2 DEF Typed
    <3>4. ReadSoFar(r)'
      BY <3>1 DEF ReadSoFar, Visiting
    <3>5. \A m \in Members : ShardOf[m] = Current(r) => read[r][m] = Unread
      BY <3>1, <3>3 DEF ReadSoFar, Visiting, Current
    <3>6. OpenShardIsAccepted(r)'
      BY <2>1, <3>1, <3>2, <3>3, <3>5 DEF OpenShardIsAccepted
    <3> QED
      BY <3>4, <3>6
  <2>2. CASE shards[Current(r)].content # local[r].manifest[Current(r)]
    BY <1>2, <2>2, NoVisit DEF OpenShard, Typed
  <2> QED
    BY <2>1, <2>2
<1>3. ASSUME DecodeRecord(r) PROVE ReadSoFar(r)' /\ OpenShardIsAccepted(r)'
  <2>1. PICK m \in Pending(r) :
           read' = [read EXCEPT ![r][m] = shards[Current(r)].content]
    BY <1>3 DEF DecodeRecord
  <2>2. /\ m \in Members /\ ShardOf[m] = Current(r) /\ stage[r] = "decode"
        /\ stage' = stage /\ local' = local /\ closed' = closed /\ opened' = opened
        /\ shards' = shards
    BY <1>3, <2>1 DEF DecodeRecord, Pending
  <2>3. closed[r] \in Nat /\ Current(r)' = Current(r)
    BY <2>2 DEF Typed, Current
  <2>4. \A k \in Members : ShardOf[k] # Current(r) => read'[r][k] = read[r][k]
    BY <2>1, <2>2 DEF Typed
  <2>5. ReadSoFar(r)'
    BY <2>2, <2>3, <2>4, CampaignAssumption DEF ReadSoFar, Visiting, Current
  <2>6. \A k \in Members : read'[r][k] \in {read[r][k], shards[Current(r)].content}
    BY <2>1, <2>2 DEF Typed
  <2>7. OpenShardIsAccepted(r)'
    BY <2>2, <2>3, <2>6 DEF OpenShardIsAccepted
  <2> QED
    BY <2>5, <2>7
<1>4. ASSUME CheckFile(r) PROVE ReadSoFar(r)' /\ OpenShardIsAccepted(r)'
  <2>1. CASE FileIsSame(r)
    <3>1. /\ stage[r] = "decode" /\ stage'[r] = "deliver" /\ closed' = closed
          /\ read' = read /\ local' = local /\ Pending(r) = {}
      BY <1>4, <2>1 DEF CheckFile, Typed
    <3>2. closed[r] \in Nat
      BY DEF Typed
    <3>3. \A m \in Members : ShardOf[m] = Current(r) =>
             read[r][m] = local[r].manifest[Current(r)]
      BY <2>1, <3>1 DEF Pending, FileIsSame, OpenShardIsAccepted
    <3>4. \A m \in Members : ShardOf[m] \in Nat
      BY CampaignAssumption
    <3>5. ReadSoFar(r)'
      BY <3>1, <3>2, <3>3, <3>4 DEF ReadSoFar, Visiting, Current
    <3> QED
      BY <3>1, <3>5 DEF OpenShardIsAccepted
  <2>2. CASE ~FileIsSame(r)
    BY <1>4, <2>2, NoVisit DEF CheckFile, Typed
  <2> QED
    BY <2>1, <2>2
<1>7. ASSUME Deliver(r) PROVE ReadSoFar(r)' /\ OpenShardIsAccepted(r)'
  BY <1>7 DEF Deliver, ReadSoFar, OpenShardIsAccepted, Visiting
<1>8. ASSUME CloseShard(r) PROVE ReadSoFar(r)' /\ OpenShardIsAccepted(r)'
  <2>1. /\ stage[r] = "deliver" /\ stage'[r] = "shard" /\ closed'[r] = closed[r] + 1
        /\ read' = read /\ local' = local /\ closed[r] \in Nat
    BY <1>8 DEF CloseShard, Typed
  <2>2. \A m \in Members : ShardOf[m] \in Nat
    BY CampaignAssumption
  <2> QED
    BY <2>1, <2>2 DEF ReadSoFar, OpenShardIsAccepted, Visiting
<1>5. ASSUME Preregister(r) PROVE ReadSoFar(r)' /\ OpenShardIsAccepted(r)'
  <2>1. stage'[r] \in {"artifacts", "begin", "failed"}
    BY <1>5 DEF Preregister, Typed
  <2> QED
    BY <2>1, NoVisit
<1>6. ASSUME BeginOutcomes(r) \/ PilotPhase(r) \/ VerifyPilot(r)
             \/ ExecuteOfficial(r) \/ Commit(r)
             \/ Invalidate(r) \/ Fail(r) \/ Terminalize(r) \/ FinalizeReview(r)
      PROVE ReadSoFar(r)' /\ OpenShardIsAccepted(r)'
  <2>1. stage'[r] \notin {"new", "shard", "decode", "deliver"}
    BY <1>6 DEF BeginOutcomes, PilotPhase, Phase, VerifyPilot,
              ExecuteOfficial, Commit, Invalidate, Fail,
                Terminalize, Recheck, FinalizeReview, Typed
  <2> QED
    BY <2>1, NoVisit
<1> QED
  BY <1>1, <1>2, <1>3, <1>4, <1>5, <1>6, <1>7, <1>8 DEF Run

-----------------------------------------------------------------------------
(* The seal *)

\* A sealed record is not the absence of one.
LEMMA SealIsSomething ==
  ASSUME NEW rows, NEW selection
  PROVE  [rows |-> rows, selection |-> selection] # Nothing
<1> DEFINE new == [rows |-> rows, selection |-> selection]
<1>1. "rows" \in DOMAIN new
  OBVIOUS
<1>2. DOMAIN Nothing = {}
  BY DEF Nothing
<1> QED
  BY <1>1, <1>2

LEMMA SealingKept ==
  ASSUME NEW r \in Runs, Frame(r), Sealing(r)
  PROVE  Sealing(r)'
<1>1. local'[r] = local[r] => AcceptedFacts(r)' = AcceptedFacts(r)
  BY DEF AcceptedFacts, Verdicts
<1> QED
  BY <1>1 DEF Frame, Sealing, Visiting

\* After the last shard everything was read as accepted.
LEMMA CollectedIsAccepted ==
  ASSUME Typed, NEW r \in Runs, ReadSoFar(r), stage[r] = "shard",
         closed[r] = Len(Shards)
  PROVE  Collected(r) = AcceptedFacts(r)
<1>1. \A m \in Members : ShardOf[m] <= closed[r]
  BY CampaignAssumption
<1>2. \A m \in Members : read[r][m] = local[r].manifest[ShardOf[m]]
  BY <1>1 DEF ReadSoFar, Visiting
<1> QED
  BY <1>2 DEF Collected, AcceptedFacts, Verdicts, Typed

LEMMA SealingStep ==
  ASSUME Typed, NEW r \in Runs, ReadSoFar(r), Sealing(r), Run(r) \/ FinalizeReview(r)
  PROVE  Sealing(r)'
<1> USE DEF Quiet, Goto, Fails, visit, world
<1> DEFINE Same == /\ local'[r].code = local[r].code
                   /\ local'[r].manifest = local[r].manifest
<1>0. Same => AcceptedFacts(r)' = AcceptedFacts(r)
  BY DEF AcceptedFacts, Verdicts
<1>1. ASSUME Prepare(r) PROVE Sealing(r)'
  BY <1>1 DEF Prepare, Sealing, Typed
<1>2. ASSUME OpenShard(r) \/ DecodeRecord(r) \/ CheckFile(r) \/ Deliver(r) \/ CloseShard(r)
      PROVE  Sealing(r)'
  <2>1. /\ sealed' = sealed /\ local' = local /\ Visiting(r)
        /\ stage'[r] \in {"shard", "decode", "deliver", "failed"}
    BY <1>2 DEF OpenShard, DecodeRecord, CheckFile, Deliver, CloseShard, Visiting, Typed
  <2> QED
    BY <2>1 DEF Sealing, Visiting
<1>3. ASSUME Preregister(r) PROVE Sealing(r)'
  <2> DEFINE new == [rows      |-> EligibilityRows(Mode[r], Collected(r)),
                     selection |-> SelectSubset(Collected(r))]
  <2>1. /\ local' = local
        /\ stage[r] = "shard" /\ closed[r] = Len(Shards)
        /\ \/ sealed' = [sealed EXCEPT ![r] = new] /\ stage'[r] \in {"artifacts", "begin"}
           \/ sealed' = sealed /\ stage'[r] = "failed"
    BY <1>3 DEF Preregister, Typed
  <2>2. Collected(r) = AcceptedFacts(r) /\ AcceptedFacts(r)' = AcceptedFacts(r)
    BY <1>0, <2>1, CollectedIsAccepted
  <2>3. new # Nothing
    BY SealIsSomething
  <2>4. CASE sealed' = [sealed EXCEPT ![r] = new] /\ stage'[r] \in {"artifacts", "begin"}
    <3>1. sealed'[r] = new
      BY <2>4 DEF Typed
    <3> QED
      BY <2>2, <2>3, <2>4, <3>1 DEF Sealing, Visiting
  <2>5. CASE sealed' = sealed /\ stage'[r] = "failed"
    BY <2>1, <2>5 DEF Sealing, Visiting
  <2> QED
    BY <2>1, <2>4, <2>5
<1>4. ASSUME BeginOutcomes(r) \/ PilotPhase(r) \/ VerifyPilot(r)
             \/ ExecuteOfficial(r) \/ Commit(r)
             \/ Invalidate(r) \/ Fail(r) \/ Terminalize(r)
      PROVE Sealing(r)'
  <2>1. /\ sealed' = sealed /\ local' = local
        /\ stage'[r] \notin {"new", "shard", "decode", "deliver"}
        /\ stage'[r] \in {"begin", "execute"} => stage[r] \in {"begin", "execute"}
    BY <1>4 DEF BeginOutcomes, PilotPhase, Phase, VerifyPilot,
              ExecuteOfficial, Commit, Invalidate, Fail,
                Terminalize, Recheck, Typed
  <2> QED
    BY <1>0, <2>1 DEF Sealing, Visiting
<1>5. ASSUME FinalizeReview(r) PROVE Sealing(r)'
  <2>1. /\ sealed' = sealed /\ stage'[r] \in {"committed", "rejected", "refused"}
        /\ Same
    BY <1>5 DEF FinalizeReview, PrecursorHolds, SameProvenance, Typed
  <2> QED
    BY <1>0, <2>1 DEF Sealing, Visiting
<1> QED
  BY <1>1, <1>2, <1>3, <1>4, <1>5 DEF Run

-----------------------------------------------------------------------------
(* The inductive invariant *)

LEMMA InitIInv == Init => IInv
<1> SUFFICES ASSUME Init PROVE IInv
  OBVIOUS
<1>1. Typed
  BY InitTyped
<1>2. \A r \in Runs : /\ stage[r] = "new" /\ closed[r] = 0 /\ sealed[r] = Nothing
                      /\ \A m \in Members : read[r][m] = Unread
  BY DEF Init
<1> QED
  BY <1>1, <1>2 DEF IInv, Reading, ReadSoFar, OpenShardIsAccepted, Visiting, Sealing

LEMMA NextIInv == IInv /\ [Next]_vars => IInv'
<1> SUFFICES ASSUME IInv, [Next]_vars PROVE IInv'
  OBVIOUS
<1>1. Typed /\ Typed'
  BY NextTyped DEF IInv
<1>2. SUFFICES ASSUME NEW r \in Runs
               PROVE  ReadSoFar(r)' /\ OpenShardIsAccepted(r)' /\ Sealing(r)'
  BY <1>1 DEF IInv, Reading
<1>3. ReadSoFar(r) /\ OpenShardIsAccepted(r) /\ Sealing(r)
  BY DEF IInv, Reading
<1>4. ASSUME NEW q \in Runs, Run(q) \/ FinalizeReview(q)
      PROVE  ReadSoFar(r)' /\ OpenShardIsAccepted(r)' /\ Sealing(r)'
  <2>1. CASE q = r
    BY <1>1, <1>3, <1>4, <2>1, ReadingStep, SealingStep
  <2>2. CASE q # r
    <3>1. Frame(r) /\ shards' = shards
      BY <1>1, <1>4, <2>2, OneRunMoves DEF world
    <3> QED
      BY <1>1, <1>3, <3>1, ReadingKept, SealingKept
  <2> QED
    BY <2>1, <2>2
<1>5. ASSUME World PROVE ReadSoFar(r)' /\ OpenShardIsAccepted(r)' /\ Sealing(r)'
  BY <1>1, <1>3, <1>5, WorldMoves, ReadingKept, SealingKept
<1>6. ASSUME UNCHANGED vars PROVE ReadSoFar(r)' /\ OpenShardIsAccepted(r)' /\ Sealing(r)'
  <2>1. Frame(r) /\ shards' = shards
    BY <1>6 DEF vars, visit, world, Frame
  <2> QED
    BY <1>1, <1>3, <2>1, ReadingKept, SealingKept
<1> QED
  BY <1>4, <1>5, <1>6 DEF Next

LEMMA IInvHolds == Spec => []IInv
<1>1. Init => IInv
  BY InitIInv
<1>2. IInv /\ [Next]_vars => IInv'
  BY NextIInv
<1> QED
  BY <1>1, <1>2, PTL DEF Spec

\* Whatever happens to the files while they are read, what a run seals is what
\* its code says of the content that its M4 run was accepted for.
THEOREM SealedSafety == Spec => []SealedIsAccepted
<1>1. IInv => SealedIsAccepted
  BY DEF IInv, Sealing, SealedIsAccepted, AcceptedFacts
<1> QED
  BY <1>1, IInvHolds, PTL

-----------------------------------------------------------------------------
(* The chain of runs *)

Done(p) == stage[p] \in {"success", "invalidated"}

\* What the gate has found, and nothing can change any more.
Link(r) ==
  /\ \A p \in {Eligibility(r), Pilot(r)} : Done(p) /\ SameProvenance(local[p], local[r])
  /\ passed[Pilot(r)]
  /\ SameReceipt(sealed[Pilot(r)], sealed[Eligibility(r)])

Agreed(r) ==
  /\ SameReceipt(sealed[r], sealed[Eligibility(r)])
  /\ Secondary(sealed[r].rows) = Secondary(sealed[Pilot(r)].rows)

Chained(r) ==
  /\ Mode[r] = "official" /\ (Visiting(r) \/ sealed[r] # Nothing) => Link(r)
  /\ Mode[r] = "official" /\ sealed[r] # Nothing => Agreed(r)
  /\ outcomes[r] => sealed[r] # Nothing

ChainInv == IInv /\ \A r \in Runs : Chained(r)

LEMMA NamedRuns ==
  ASSUME NEW r \in Runs
  PROVE  /\ Eligibility(r) \in Runs /\ Pilot(r) \in Runs
         /\ Mode[r] = "official" => Predecessors(r) = {Eligibility(r), Pilot(r)}
BY CampaignAssumption DEF Eligibility, Pilot, Predecessors

\* A run that has ended well can still be invalidated, and that is all.
LEMMA DoneStays ==
  ASSUME Typed, [Next]_vars, NEW p \in Runs, Done(p)
  PROVE  /\ Done(p)' /\ local'[p] = local[p]
         /\ sealed'[p] = sealed[p] /\ passed'[p] = passed[p]
<1>1. ASSUME NEW q \in Runs \ {p}, Run(q) \/ FinalizeReview(q) PROVE Frame(p)
  BY <1>1, OneRunMoves
<1>2. CASE Run(p) \/ FinalizeReview(p)
  <2>1. Invalidate(p)
    BY <1>2 DEF Run, FinalizeReview, Done, Prepare, OpenShard, DecodeRecord, CheckFile,
           Deliver, CloseShard,
                Preregister, BeginOutcomes, PilotPhase, Phase, VerifyPilot,
              ExecuteOfficial, Commit,
                Terminalize, Recheck, Fail, Ended
  <2> QED
    BY <2>1 DEF Invalidate, Done, Goto, visit, Typed
<1>3. ASSUME World PROVE Frame(p)
  BY <1>3, WorldMoves
<1>4. UNCHANGED vars => Frame(p)
  BY DEF vars, visit, Frame
<1>5. Frame(p) => /\ Done(p)' /\ local'[p] = local[p]
                  /\ sealed'[p] = sealed[p] /\ passed'[p] = passed[p]
  BY DEF Frame, Done
<1> QED
  BY <1>1, <1>2, <1>3, <1>4, <1>5 DEF Next

LEMMA LinkKept ==
  ASSUME Typed, [Next]_vars, NEW r \in Runs, Link(r),
         SameProvenance(local'[r], local[r])
  PROVE  /\ Link(r)'
         /\ sealed'[Eligibility(r)] = sealed[Eligibility(r)]
         /\ sealed'[Pilot(r)] = sealed[Pilot(r)]
<1> DEFINE e == Eligibility(r)
           p == Pilot(r)
<1>1. e \in Runs /\ p \in Runs /\ Done(e) /\ Done(p)
  BY NamedRuns DEF Link
<1>2. /\ Done(e)' /\ local'[e] = local[e] /\ sealed'[e] = sealed[e]
      /\ Done(p)' /\ local'[p] = local[p] /\ sealed'[p] = sealed[p]
      /\ passed'[p] = passed[p]
  BY <1>1, DoneStays
<1>3. /\ Eligibility(r)' = e /\ Pilot(r)' = p
  BY DEF Eligibility, Pilot
<1>4. /\ SameProvenance(local'[e], local'[r]) /\ SameProvenance(local'[p], local'[r])
  BY <1>2 DEF Link, SameProvenance
<1>5. SameReceipt(sealed[p], sealed[e])' = SameReceipt(sealed[p], sealed[e])
  BY <1>2 DEF SameReceipt, Eligible, ReasonCount
<1> QED
  BY <1>2, <1>3, <1>4, <1>5 DEF Link

\* What the steps of a run do to its place in the chain.
LEMMA ChainMoves ==
  ASSUME Typed, [Next]_vars, NEW r \in Runs, ~Prepare(r)
  PROVE  /\ SameProvenance(local'[r], local[r])
         /\ \/ sealed'[r] = sealed[r] /\ (Visiting(r)' => Visiting(r))
            \/ Preregister(r) /\ Visiting(r)
         /\ outcomes'[r] = outcomes[r] \/ BeginOutcomes(r)
<1> USE DEF Quiet, Goto, Fails, visit, Visiting, SameProvenance
<1>1. Frame(r) => /\ SameProvenance(local'[r], local[r])
                  /\ sealed'[r] = sealed[r] /\ (Visiting(r)' => Visiting(r))
                  /\ outcomes'[r] = outcomes[r]
  BY DEF Frame
<1>2. ASSUME NEW q \in Runs \ {r}, Run(q) \/ FinalizeReview(q) PROVE Frame(r)
  BY <1>2, OneRunMoves
<1>3. World => Frame(r)
  BY WorldMoves
<1>4. UNCHANGED vars => Frame(r)
  BY DEF vars, Frame
<1>5. CASE FinalizeReview(r)
  BY <1>5 DEF FinalizeReview, PrecursorHolds, Typed
<1>6. CASE Preregister(r)
  BY <1>6 DEF Preregister
<1>7. CASE OpenShard(r) \/ DecodeRecord(r) \/ CheckFile(r) \/ Deliver(r) \/ CloseShard(r)
  BY <1>7 DEF OpenShard, DecodeRecord, CheckFile, Deliver, CloseShard
<1>8. CASE PilotPhase(r) \/ VerifyPilot(r)
             \/ ExecuteOfficial(r) \/ Commit(r)
           \/ Invalidate(r) \/ Fail(r) \/ Terminalize(r)
  BY <1>8 DEF PilotPhase, Phase, VerifyPilot,
              ExecuteOfficial, Commit, Invalidate, Fail, Terminalize,
              Recheck, Typed
<1>9. CASE BeginOutcomes(r)
  BY <1>9 DEF BeginOutcomes, Typed
<1> QED
  BY <1>1, <1>2, <1>3, <1>4, <1>5, <1>6, <1>7, <1>8, <1>9 DEF Next, Run

\* The gate opens on a chain.
LEMMA GateMakesLink ==
  ASSUME Typed, [Next]_vars, NEW r \in Runs, Prepare(r), Mode[r] = "official",
         stage'[r] = "shard"
  PROVE  Link(r)'
<1> DEFINE e == Eligibility(r)
           p == Pilot(r)
<1>1. GateOpens(r, Observed) /\ local'[r] = Observed
  BY DEF Prepare, Goto, Fails, Typed
<1>2. /\ e \in Runs /\ p \in Runs /\ EndedWell(e) /\ EndedWell(p)
      /\ SameProvenance(local[e], Observed) /\ SameProvenance(local[p], Observed)
      /\ passed[p] /\ SameReceipt(sealed[p], sealed[e])
  BY <1>1, NamedRuns DEF GateOpens
<1>3. Done(e) /\ Done(p)
  BY <1>2 DEF EndedWell, Done
<1>4. /\ Done(e)' /\ local'[e] = local[e] /\ sealed'[e] = sealed[e]
      /\ Done(p)' /\ local'[p] = local[p] /\ sealed'[p] = sealed[p]
      /\ passed'[p] = passed[p]
  BY <1>2, <1>3, DoneStays
<1>5. Eligibility(r)' = e /\ Pilot(r)' = p
  BY DEF Eligibility, Pilot
<1>6. SameReceipt(sealed[p], sealed[e])' = SameReceipt(sealed[p], sealed[e])
  BY <1>4 DEF SameReceipt, Eligible, ReasonCount
<1>7. SameProvenance(local'[e], local'[r]) /\ SameProvenance(local'[p], local'[r])
  BY <1>1, <1>2, <1>4
<1> QED
  BY <1>2, <1>4, <1>5, <1>6, <1>7 DEF Link

LEMMA InitChain == Init => ChainInv
<1> SUFFICES ASSUME Init PROVE ChainInv
  OBVIOUS
<1>1. \A r \in Runs : stage[r] = "new" /\ sealed[r] = Nothing /\ ~outcomes[r]
  BY DEF Init
<1> QED
  BY <1>1, InitIInv DEF ChainInv, Chained, Visiting

\* What a run seals has been compared with what its predecessors sealed.
LEMMA PreregisterAgrees ==
  ASSUME Typed, [Next]_vars, NEW r \in Runs, Mode[r] = "official", Link(r),
         SameProvenance(local'[r], local[r]),
         Preregister(r), sealed[r] = Nothing, sealed'[r] # Nothing
  PROVE  Agreed(r)'
<1> DEFINE e == Eligibility(r)
           p == Pilot(r)
           new == [rows      |-> EligibilityRows(Mode[r], Collected(r)),
                   selection |-> SelectSubset(Collected(r))]
<1>1. sealed' = [sealed EXCEPT ![r] = new] /\ GateAccepts(r, new)
  BY DEF Preregister
<1>2. sealed'[r] = new
  BY <1>1 DEF Typed
<1> HIDE DEF new
<1>3. sealed'[e] = sealed[e] /\ sealed'[p] = sealed[p]
  BY LinkKept
<1>4. SameReceipt(new, sealed[e]) /\ Secondary(new.rows) = Secondary(sealed[p].rows)
  BY <1>1 DEF GateAccepts
<1>5. Eligibility(r)' = e /\ Pilot(r)' = p
  BY DEF Eligibility, Pilot
<1>6. SameReceipt(sealed'[r], sealed'[e])
  BY <1>2, <1>3, <1>4
<1>7. SameReceipt(sealed[r], sealed[e])' = SameReceipt(sealed'[r], sealed'[e])
  BY DEF SameReceipt, Eligible, ReasonCount, Eligibility
<1>8. Secondary(sealed[r].rows)' = Secondary(sealed'[r].rows)
  BY DEF Secondary
<1> QED
  BY <1>2, <1>3, <1>4, <1>5, <1>6, <1>7, <1>8 DEF Agreed, Secondary

LEMMA NextChain == ChainInv /\ [Next]_vars => ChainInv'
<1> SUFFICES ASSUME ChainInv, [Next]_vars PROVE ChainInv'
  OBVIOUS
<1>1. Typed /\ IInv'
  BY NextIInv DEF ChainInv, IInv
<1>2. SUFFICES ASSUME NEW r \in Runs PROVE Chained(r)'
  BY <1>1 DEF ChainInv
<1>3. Chained(r) /\ Sealing(r)
  BY DEF ChainInv, IInv
<1>4. CASE Prepare(r)
  <2>1. /\ sealed' = sealed /\ outcomes' = outcomes /\ stage[r] = "new"
        /\ stage'[r] \in {"shard", "failed"}
    BY <1>1, <1>4 DEF Prepare, Goto, Fails, Typed
  <2>2. sealed'[r] = Nothing
    BY <1>3, <2>1 DEF Sealing
  <2>3. ASSUME Mode[r] = "official", Visiting(r)' PROVE Link(r)'
    BY <1>1, <1>4, <2>1, <2>3, GateMakesLink DEF Visiting
  <2>4. outcomes'[r] => sealed'[r] # Nothing
    BY <1>3, <2>1 DEF Chained
  <2> QED
    BY <2>2, <2>3, <2>4 DEF Chained
<1>5. CASE ~Prepare(r)
  <2>1. /\ SameProvenance(local'[r], local[r])
        /\ \/ sealed'[r] = sealed[r] /\ (Visiting(r)' => Visiting(r))
           \/ Preregister(r) /\ Visiting(r)
        /\ outcomes'[r] = outcomes[r] \/ BeginOutcomes(r)
    BY <1>1, <1>5, ChainMoves
  <2>2. Visiting(r) => sealed[r] = Nothing
    BY <1>3 DEF Sealing, Visiting
  <2>3. ASSUME Mode[r] = "official", Visiting(r)' \/ sealed'[r] # Nothing
        PROVE  Link(r) /\ Link(r)'
    <3>1. Visiting(r) \/ sealed[r] # Nothing
      BY <2>1, <2>3
    <3>2. Link(r)
      BY <1>3, <2>3, <3>1 DEF Chained
    <3> QED
      BY <1>1, <2>1, <3>2, LinkKept
  <2>4. ASSUME Mode[r] = "official", sealed'[r] # Nothing PROVE Agreed(r)'
    <3>1. CASE sealed'[r] = sealed[r]
      <4>1. Agreed(r)
        BY <1>3, <2>4, <3>1 DEF Chained
      <4>2. /\ sealed'[Eligibility(r)] = sealed[Eligibility(r)]
            /\ sealed'[Pilot(r)] = sealed[Pilot(r)]
        BY <1>1, <2>1, <2>3, <2>4, LinkKept
      <4>3. SameReceipt(sealed[r], sealed[Eligibility(r)])'
              = SameReceipt(sealed[r], sealed[Eligibility(r)])
        BY <3>1, <4>2 DEF SameReceipt, Eligible, ReasonCount, Eligibility
      <4>4. /\ Secondary(sealed[r].rows)' = Secondary(sealed[r].rows)
            /\ Secondary(sealed[Pilot(r)].rows)' = Secondary(sealed[Pilot(r)].rows)
        BY <3>1, <4>2 DEF Secondary, Pilot
      <4> QED
        BY <4>1, <4>3, <4>4 DEF Agreed
    <3>2. CASE Preregister(r) /\ Visiting(r)
      BY <1>1, <2>1, <2>2, <2>3, <2>4, <3>2, PreregisterAgrees
    <3> QED
      BY <2>1, <3>1, <3>2
  <2>5. ASSUME outcomes'[r] PROVE sealed'[r] # Nothing
    <3>1. CASE BeginOutcomes(r)
      BY <1>3, <3>1 DEF BeginOutcomes, Sealing
    <3>2. CASE outcomes[r]
      BY <1>3, <2>1, <2>2, <3>2 DEF Chained
    <3> QED
      BY <2>1, <2>5, <3>1, <3>2
  <2> QED
    BY <2>3, <2>4, <2>5 DEF Chained
<1> QED
  BY <1>4, <1>5

LEMMA ReceiptsAgree ==
  ASSUME NEW a, NEW b, NEW c, SameReceipt(a, c), SameReceipt(b, c)
  PROVE  SameReceipt(c, a) /\ SameReceipt(b, a)
BY DEF SameReceipt

\* No official outcome without the chain of runs behind it.
THEOREM ChainSafety == Spec => []OutcomesHaveChain
<1>1. Init => ChainInv
  BY InitChain
<1>2. ChainInv /\ [Next]_vars => ChainInv'
  BY NextChain
<1>3. ChainInv => OutcomesHaveChain
  <2> SUFFICES ASSUME ChainInv, NEW r \in OfMode("official"), outcomes[r]
               PROVE  /\ passed[Pilot(r)]
                      /\ \A p \in Predecessors(r) :
                           /\ stage[p] \in {"success", "invalidated"}
                           /\ SameProvenance(local[p], local[r])
                           /\ SameReceipt(sealed[p], sealed[r])
                      /\ Secondary(sealed[r].rows) = Secondary(sealed[Pilot(r)].rows)
    BY DEF OutcomesHaveChain
  <2>1. r \in Runs /\ Mode[r] = "official"
    BY DEF OfMode
  <2>2. Link(r) /\ Agreed(r)
    BY <2>1 DEF ChainInv, Chained
  <2>3. SameReceipt(sealed[Eligibility(r)], sealed[r])
        /\ SameReceipt(sealed[Pilot(r)], sealed[r])
    BY <2>2, ReceiptsAgree DEF Link, Agreed
  <2> QED
    BY <2>1, <2>2, <2>3, NamedRuns DEF Link, Agreed, Done
<1> QED
  BY <1>1, <1>2, <1>3, PTL DEF Spec

-----------------------------------------------------------------------------
(* The residents *)

LEMMA BeforeOrders ==
  ASSUME NEW a \in Members, NEW b \in Members, NEW c \in Members
  PROVE  /\ ~ Before(a, a)
         /\ Before(a, b) => ~ Before(b, a)
         /\ Before(a, b) /\ Before(b, c) => Before(a, c)
         /\ a # b => Before(a, b) \/ Before(b, a)
<1>1. /\ a \in Nat /\ b \in Nat /\ c \in Nat
      /\ Rank[a] \in Nat /\ Rank[b] \in Nat /\ Rank[c] \in Nat
  BY CampaignAssumption
<1> QED
  BY <1>1 DEF Before

\* Among finitely many members one comes last: the members that come before each
\* of two are not equally many, so all numbers up to the size must occur.
LEMMA LastExists ==
  ASSUME NEW all \in SUBSET Members, all # {}
  PROVE  \E w \in all : \A k \in all \ {w} : Before(k, w)
<1> DEFINE Earlier(x) == {k \in all : Before(k, x)}
           n == Cardinality(all)
           place == [x \in all |-> Cardinality(Earlier(x))]
<1>1. IsFiniteSet(all) /\ n \in Nat /\ n # 0
  BY CampaignAssumption, FS_Subset, FS_CardinalityType, FS_EmptySet
<1>2. ASSUME NEW x \in all
      PROVE  /\ IsFiniteSet(Earlier(x)) /\ Cardinality(Earlier(x)) \in Nat
             /\ Earlier(x) \subseteq all \ {x} /\ Cardinality(Earlier(x)) <= n - 1
             /\ Cardinality(Earlier(x)) = n - 1 => Earlier(x) = all \ {x}
  <2>1. Earlier(x) \subseteq all \ {x}
    BY BeforeOrders
  <2>2. IsFiniteSet(all \ {x}) /\ Cardinality(all \ {x}) = n - 1
    BY <1>1, FS_RemoveElement
  <2> QED
    BY <2>1, <2>2, FS_Subset, FS_CardinalityType
<1>3. ASSUME NEW x \in all, NEW y \in all, Before(x, y)
      PROVE  Cardinality(Earlier(x)) # Cardinality(Earlier(y))
  <2>1. Earlier(x) \subseteq Earlier(y) /\ x \in Earlier(y) /\ x \notin Earlier(x)
    BY <1>3, BeforeOrders
  <2> QED
    BY <1>2, <2>1, FS_Subset
<1>4. PICK w \in all : Cardinality(Earlier(w)) = n - 1
  <2> SUFFICES ASSUME \A x \in all : Cardinality(Earlier(x)) # n - 1 PROVE FALSE
    OBVIOUS
  <2> DEFINE slots == 0 .. (n - 2)
  <2>1. place \in [all -> slots]
    <3> HIDE DEF Earlier, n
    <3> QED
      BY <1>1, <1>2
  <2>2. IsFiniteSet(slots) /\ Cardinality(slots) < n
    <3>1. 0 \in Int /\ n - 2 \in Int
      BY <1>1
    <3>2. /\ IsFiniteSet(slots)
          /\ Cardinality(slots) = IF 0 > n - 2 THEN 0 ELSE (n - 2) - 0 + 1
      BY <3>1, FS_Interval
    <3> HIDE DEF n, slots
    <3> QED
      BY <1>1, <3>2
  <2>3. PICK x \in all, y \in all : x # y /\ place[x] = place[y]
    <3> HIDE DEF slots, place
    <3> QED
      BY <1>1, <2>1, <2>2, FS_PigeonHole
  <2> QED
    BY <1>3, <2>3, BeforeOrders
<1>5. Earlier(w) = all \ {w}
  BY <1>2, <1>4
<1> QED
  BY <1>5

\* What the collector keeps of all it was given: as many as it may, and the best.
Keeps(kept, all) ==
  /\ kept \subseteq all
  /\ Cardinality(kept) <= MaxScenes
  /\ kept # all => Cardinality(kept) = MaxScenes
  /\ \A k \in kept, o \in all \ kept : Before(k, o)

LEMMA EvictsLast ==
  ASSUME NEW all \in SUBSET Members, all # {}, NEW m
  PROVE  \E w \in all : /\ Evict(all, m) = all \ {w}
                        /\ \A k \in all \ {w} : Before(k, w)
<1> DEFINE w == CHOOSE w \in all : \A k \in all \ {w} : Before(k, w)
<1>1. w \in all /\ \A k \in all \ {w} : Before(k, w)
  BY LastExists
<1> QED
  BY <1>1 DEF Evict

\* One more member.
LEMMA CollectKeeps ==
  ASSUME NEW all \in SUBSET Members, NEW kept, Keeps(kept, all),
         NEW m \in Members \ all, NEW fact
  PROVE  Keeps(Collect(kept, m, fact), IF Qualifies(fact) THEN all \union {m} ELSE all)
<1> DEFINE more == kept \union {m}
           given == all \union {m}
<1>1. CASE ~Qualifies(fact)
  BY <1>1 DEF Collect
<1>2. CASE Qualifies(fact)
  <2>1. /\ IsFiniteSet(kept) /\ Cardinality(kept) \in Nat
        /\ m \notin kept /\ kept \subseteq all
        /\ Cardinality(kept) <= MaxScenes /\ MaxScenes \in Nat
    BY CampaignAssumption, FS_Subset, FS_CardinalityType DEF Keeps
  <2>2. IsFiniteSet(more) /\ Cardinality(more) = Cardinality(kept) + 1
    BY <2>1, FS_AddElement
  <2>3. CASE Cardinality(more) <= MaxScenes
    <3>1. kept = all
      BY <2>1, <2>2, <2>3 DEF Keeps
    <3> QED
      BY <1>2, <2>3, <3>1 DEF Collect, Keeps
  <2>4. CASE ~(Cardinality(more) <= MaxScenes)
    <3>1. Cardinality(kept) = MaxScenes
      BY <2>1, <2>2, <2>4
    <3>2. more \in SUBSET Members /\ more # {}
      BY <2>1
    <3>3. PICK w \in more : /\ Evict(more, m) = more \ {w}
                            /\ \A k \in more \ {w} : Before(k, w)
      BY <3>2, EvictsLast
    <3>4. Collect(kept, m, fact) = more \ {w}
      BY <1>2, <2>4, <3>3 DEF Collect
    <3>5. Cardinality(more \ {w}) = MaxScenes
      <4>1. Cardinality(more \ {w}) = Cardinality(more) - 1
        BY <2>2, <3>3, FS_RemoveElement
      <4> HIDE DEF more
      <4> QED
        BY <2>1, <2>2, <3>1, <4>1
    <3>6. ASSUME NEW k \in more \ {w}, NEW o \in given \ (more \ {w})
          PROVE  Before(k, o)
      <4>1. CASE o = w
        BY <3>3, <4>1
      <4>2. CASE o # w
        <5>1. o \in all \ kept /\ o \in Members /\ w \in Members /\ k \in Members
          BY <2>1, <4>2
        <5>2. CASE k \in kept
          BY <5>1, <5>2 DEF Keeps
        <5>3. CASE k = m
          <6>1. w \in kept /\ Before(m, w)
            BY <3>3, <5>3
          <6>2. Before(w, o)
            BY <5>1, <6>1 DEF Keeps
          <6> QED
            BY <5>1, <5>3, <6>1, <6>2, BeforeOrders
        <5> QED
          BY <5>2, <5>3
      <4> QED
        BY <4>1, <4>2
    <3>7. more \ {w} \subseteq given
      BY <2>1
    <3> QED
      BY <1>2, <2>1, <3>4, <3>5, <3>6, <3>7 DEF Keeps
  <2> QED
    BY <2>3, <2>4
<1> QED
  BY <1>1, <1>2

\* What is kept are those that fewer than MaxScenes others are before.
LEMMA KeepsTheBest ==
  ASSUME NEW all \in SUBSET Members, NEW kept, Keeps(kept, all)
  PROVE  kept = {m \in all : Cardinality({k \in all : Before(k, m)}) < MaxScenes}
<1> DEFINE Earlier(m) == {k \in all : Before(k, m)}
<1>1. /\ IsFiniteSet(all) /\ IsFiniteSet(kept) /\ Cardinality(kept) \in Nat
      /\ kept \subseteq all /\ MaxScenes \in Nat \ {0}
      /\ Cardinality(kept) <= MaxScenes
  BY CampaignAssumption, FS_Subset, FS_CardinalityType DEF Keeps
<1>2. ASSUME NEW m \in kept PROVE Cardinality(Earlier(m)) < MaxScenes
  <2>1. Earlier(m) \subseteq kept \ {m}
    <3> SUFFICES ASSUME NEW k \in all, Before(k, m) PROVE k \in kept \ {m}
      OBVIOUS
    <3>1. k \in Members /\ m \in Members
      BY <1>1
    <3>2. k # m
      BY <3>1, BeforeOrders
    <3>3. k \notin kept => Before(m, k)
      BY DEF Keeps
    <3> QED
      BY <3>1, <3>2, <3>3, BeforeOrders
  <2>2. IsFiniteSet(kept \ {m}) /\ Cardinality(kept \ {m}) = Cardinality(kept) - 1
    BY <1>1, FS_RemoveElement
  <2>3. Cardinality(Earlier(m)) <= Cardinality(kept) - 1 /\ Cardinality(Earlier(m)) \in Nat
    BY <2>1, <2>2, FS_Subset, FS_CardinalityType
  <2> QED
    BY <1>1, <2>3
<1>3. ASSUME NEW m \in all \ kept PROVE ~(Cardinality(Earlier(m)) < MaxScenes)
  <2>1. kept \subseteq Earlier(m) /\ Cardinality(kept) = MaxScenes
    BY <1>1 DEF Keeps
  <2>2. IsFiniteSet(Earlier(m))
    BY <1>1, FS_Subset
  <2>3. MaxScenes <= Cardinality(Earlier(m)) /\ Cardinality(Earlier(m)) \in Nat
    BY <2>1, <2>2, FS_Subset, FS_CardinalityType
  <2> QED
    BY <1>1, <2>3
<1> QED
  BY <1>1, <1>2, <1>3

Came(r) == {m \in seen[r] : Qualifies(FactOf(r, m))}

\* What has reached the collectors was read, and no run holds a scene before its
\* visit or after its preregistration.
Delivery(r) ==
  /\ \A m \in seen[r] : read[r][m] # Unread
  /\ ~Visiting(r) /\ stage[r] # "failed" => seen[r] = {} /\ residents[r] = {}
  /\ Keeps(residents[r], Came(r))

DeliveryInv == IInv /\ \A r \in Runs : Delivery(r)

LEMMA CameKept ==
  ASSUME NEW r \in Runs, seen'[r] = seen[r], read'[r] = read[r],
         local'[r].code = local[r].code
  PROVE  Came(r)' = Came(r)
BY DEF Came, FactOf

LEMMA KeepsNothing == Keeps({}, {})
BY CampaignAssumption, FS_EmptySet DEF Keeps

LEMMA DeliveryStays ==
  ASSUME NEW r \in Runs, Delivery(r), seen'[r] = seen[r], read'[r] = read[r],
         residents'[r] = residents[r], local'[r].code = local[r].code,
         \/ Visiting(r)' \/ stage'[r] = "failed"
         \/ ~Visiting(r) /\ stage[r] # "failed"
  PROVE  Delivery(r)'
BY CameKept DEF Delivery, Keeps

LEMMA DeliveryStep ==
  ASSUME Typed, NEW r \in Runs, ReadSoFar(r), Delivery(r), Run(r) \/ FinalizeReview(r)
  PROVE  Delivery(r)'
<1> USE DEF Quiet, Goto, Fails, visit
<1>1. ASSUME seen'[r] = {}, residents'[r] = {} PROVE Delivery(r)'
  <2>1. Came(r)' = {}
    BY <1>1 DEF Came
  <2> QED
    BY <1>1, <2>1, KeepsNothing DEF Delivery, Keeps
<1>2. CASE Prepare(r)
  <2>1. stage[r] = "new" /\ seen' = seen /\ residents' = residents
    BY <1>2 DEF Prepare
  <2> QED
    BY <1>1, <2>1 DEF Delivery, Visiting
<1>3. CASE OpenShard(r) \/ CheckFile(r) \/ CloseShard(r)
  <2>1. /\ seen' = seen /\ residents' = residents /\ read' = read /\ local' = local
        /\ stage'[r] \in {"shard", "decode", "deliver", "failed"}
    BY <1>3 DEF OpenShard, CheckFile, CloseShard, Typed
  <2> QED
    BY <2>1, DeliveryStays DEF Visiting
<1>4. CASE DecodeRecord(r)
  <2>1. PICK m \in Pending(r) :
           read' = [read EXCEPT ![r][m] = shards[Current(r)].content]
    BY <1>4 DEF DecodeRecord
  <2>2. /\ seen' = seen /\ residents' = residents /\ local' = local /\ stage' = stage
        /\ stage[r] = "decode" /\ m \in Members /\ m \notin seen[r]
    BY <1>4, <2>1 DEF DecodeRecord, Pending, Delivery
  <2>3. \A k \in Members \ {m} : read'[r][k] = read[r][k]
    BY <2>1, <2>2 DEF Typed
  <2>4. \A k \in seen[r] : read'[r][k] = read[r][k]
    BY <2>2, <2>3 DEF Typed
  <2>5. Came(r)' = Came(r)
    BY <2>2, <2>4 DEF Came, FactOf
  <2> QED
    BY <2>2, <2>4, <2>5 DEF Delivery, Visiting, Keeps
<1>5. CASE Deliver(r)
  <2>1. PICK m \in Undelivered(r) :
          /\ residents' = [residents EXCEPT ![r] = Collect(@, m, FactOf(r, m))]
          /\ seen' = [seen EXCEPT ![r] = @ \union {m}]
    BY <1>5 DEF Deliver
  <2>2. /\ stage' = stage /\ stage[r] = "deliver" /\ read' = read /\ local' = local
        /\ m \in Members \ seen[r] /\ seen'[r] = seen[r] \union {m}
        /\ residents'[r] = Collect(residents[r], m, FactOf(r, m))
    BY <1>5, <2>1 DEF Deliver, Undelivered, Typed
  <2>3. Came(r) \in SUBSET Members /\ m \notin Came(r)
    BY <2>2 DEF Came, Typed
  <2>4. Came(r)' = IF Qualifies(FactOf(r, m)) THEN Came(r) \union {m} ELSE Came(r)
    BY <2>2 DEF Came, FactOf
  <2>5. Keeps(residents'[r], Came(r)')
    <3> DEFINE now == IF Qualifies(FactOf(r, m)) THEN Came(r) \union {m} ELSE Came(r)
    <3>1. Keeps(residents[r], Came(r)) /\ m \in Members \ Came(r)
      BY <2>2, <2>3 DEF Delivery
    <3>2. Keeps(Collect(residents[r], m, FactOf(r, m)), now)
      BY <2>3, <3>1, CollectKeeps
    <3> HIDE DEF now
    <3>3. Came(r)' = now
      BY <2>4 DEF now
    <3> QED
      BY <2>2, <3>2, <3>3
  <2>6. Keeps(residents[r], Came(r))'
    BY <2>5 DEF Keeps
  <2> QED
    <3>1. read[r][m] \in Contents
      <4>1. /\ ShardOf[m] = closed[r] + 1 /\ closed[r] \in Nat
            /\ ShardOf[m] \in DOMAIN Shards
        BY <2>1, <2>2, CampaignAssumption DEF Undelivered, Current, Typed
      <4>2. read[r][m] = local[r].manifest[ShardOf[m]]
        BY <2>2, <4>1 DEF ReadSoFar, Visiting
      <4>3. local[r].manifest \in [DOMAIN Shards -> Contents]
        BY DEF Typed, Observations
      <4> QED
        BY <4>1, <4>2, <4>3
    <3>2. \A k \in seen'[r] : read'[r][k] # Unread
      BY <2>2, <3>1, CampaignAssumption DEF Delivery, Unread
    <3> QED
      BY <2>2, <2>6, <3>2 DEF Delivery, Visiting
<1>6. CASE Preregister(r)
  BY <1>1, <1>6 DEF Preregister, Typed
<1>7. CASE BeginOutcomes(r) \/ PilotPhase(r) \/ VerifyPilot(r) \/ ExecuteOfficial(r)
           \/ Commit(r) \/ Invalidate(r) \/ Terminalize(r)
  <2>1. /\ seen' = seen /\ residents' = residents /\ read' = read /\ local' = local
        /\ ~Visiting(r) /\ stage[r] # "failed"
    BY <1>7 DEF BeginOutcomes, PilotPhase, Phase, VerifyPilot, ExecuteOfficial, Commit,
                Invalidate, Terminalize, Recheck, Visiting
  <2> QED
    BY <2>1, DeliveryStays
<1>9. CASE Fail(r)
  <2>1. /\ seen' = seen /\ residents' = residents /\ read' = read /\ local' = local
        /\ stage'[r] = "failed"
    BY <1>9 DEF Fail, Typed
  <2> QED
    BY <2>1, DeliveryStays
<1>8. CASE FinalizeReview(r)
  <2>1. /\ seen' = seen /\ residents' = residents /\ read' = read
        /\ local'[r].code = local[r].code
        /\ stage[r] = "awaiting"
    BY <1>8 DEF FinalizeReview, PrecursorHolds, SameProvenance, Typed
  <2> QED
    BY <2>1, DeliveryStays DEF Visiting
<1> QED
  BY <1>2, <1>3, <1>4, <1>5, <1>6, <1>7, <1>8, <1>9 DEF Run

LEMMA DeliveryInvHolds == Spec => []DeliveryInv
<1>1. Init => DeliveryInv
  <2> SUFFICES ASSUME Init, NEW r \in Runs PROVE Delivery(r)
    BY InitIInv DEF DeliveryInv
  <2>1. seen[r] = {} /\ residents[r] = {}
    BY DEF Init
  <2>2. Came(r) = {}
    BY <2>1 DEF Came
  <2> QED
    BY <2>1, <2>2, KeepsNothing DEF Delivery
<1>2. DeliveryInv /\ [Next]_vars => DeliveryInv'
  <2> SUFFICES ASSUME DeliveryInv, [Next]_vars, NEW r \in Runs PROVE Delivery(r)'
    BY NextIInv DEF DeliveryInv
  <2>1. Typed /\ Delivery(r) /\ \A q \in Runs : ReadSoFar(q) /\ Delivery(q)
    BY DEF DeliveryInv, IInv, Reading
  <2>2. ASSUME Frame(r) PROVE Delivery(r)'
    BY <2>1, <2>2, DeliveryStays DEF Frame, Visiting
  <2>3. ASSUME NEW q \in Runs, Run(q) \/ FinalizeReview(q) PROVE Delivery(r)'
    BY <2>1, <2>2, <2>3, DeliveryStep, OneRunMoves
  <2>4. World \/ UNCHANGED vars => Frame(r)
    BY <2>1, WorldMoves DEF vars, visit, Frame
  <2> QED
    BY <2>2, <2>3, <2>4 DEF Next
<1> QED
  BY <1>1, <1>2, PTL DEF Spec

\* In whatever order the members come, the collector holds the best of them.
THEOREM ResidentSafety == Spec => []ResidentsAreBest
<1>1. DeliveryInv => ResidentsAreBest
  <2> SUFFICES ASSUME DeliveryInv, NEW r \in Runs
               PROVE  residents[r] = {m \in Came(r) :
                        Cardinality({k \in Came(r) : Before(k, m)}) < MaxScenes}
    BY DEF ResidentsAreBest, Came
  <2>1. Came(r) \in SUBSET Members /\ Keeps(residents[r], Came(r))
    BY DEF DeliveryInv, IInv, Delivery, Came, Typed
  <2> QED
    BY <2>1, KeepsTheBest
<1> QED
  BY <1>1, DeliveryInvHolds, PTL

-----------------------------------------------------------------------------
(* The timings *)

\* Every part was rounded up, by less than a millisecond.
Rounded(span) ==
  TicksPerMs * span.ms <= span.ticks + span.parts * (TicksPerMs - 1)

LEMMA TimedIsRounded ==
  ASSUME NEW span \in Spans, Rounded(span), NEW t \in Measured
  PROVE  Rounded(Timed(span, t))
<1> DEFINE e == ElapsedMs(t)
<1>1. /\ t \in Nat /\ e \in Nat /\ TicksPerMs \in Nat \ {0}
      /\ TicksPerMs * e <= t + TicksPerMs - 1
  BY CampaignAssumption, ElapsedRoundsUp
<1>2. span.parts \in Nat /\ span.ms \in Nat /\ span.ticks \in Nat
  BY DEF Spans
<1>3. /\ Timed(span, t).parts = span.parts + 1 /\ Timed(span, t).ms = span.ms + e
      /\ Timed(span, t).ticks = span.ticks + t
  BY DEF Timed
<1> HIDE DEF e
<1>4. TicksPerMs * (span.ms + e) = TicksPerMs * span.ms + TicksPerMs * e
  BY <1>1, <1>2
<1>5. (span.parts + 1) * (TicksPerMs - 1) = span.parts * (TicksPerMs - 1) + TicksPerMs - 1
  BY <1>1, <1>2
<1> DEFINE a == TicksPerMs * span.ms
           b == TicksPerMs * e
           c == span.parts * (TicksPerMs - 1)
<1>6. a \in Int /\ b \in Int /\ c \in Int /\ a <= span.ticks + c
  BY <1>1, <1>2 DEF Rounded
<1>7. a + b <= (span.ticks + t) + (c + TicksPerMs - 1)
  <2> HIDE DEF a, c
  <2>1. b <= t + TicksPerMs - 1
    BY <1>1
  <2> HIDE DEF b
  <2> QED
    BY <1>1, <1>2, <1>6, <2>1
<1> QED
  BY <1>3, <1>4, <1>5, <1>7 DEF Rounded

\* The parts of a span exceed it by one millisecond less than there are parts.
LEMMA RoundedIsBounded ==
  ASSUME NEW span \in Spans, Rounded(span), span.parts > 0
  PROVE  span.ms <= ElapsedMs(span.ticks) + span.parts - 1
<1> DEFINE e == ElapsedMs(span.ticks)
<1>1. span.parts \in Nat /\ span.ms \in Nat /\ span.ticks \in Nat
  BY DEF Spans
<1>2. TicksPerMs \in Nat \ {0} /\ e \in Nat /\ span.ticks <= TicksPerMs * e
  BY <1>1, CampaignAssumption, ElapsedRoundsUp
<1> HIDE DEF e
<1>3. TicksPerMs * (e + span.parts)
        = TicksPerMs * e + span.parts * (TicksPerMs - 1) + span.parts
  BY <1>1, <1>2
<1> DEFINE a == TicksPerMs * span.ms
           b == TicksPerMs * e
           c == span.parts * (TicksPerMs - 1)
           d == TicksPerMs * (e + span.parts)
<1>4. a \in Int /\ b \in Int /\ c \in Int /\ d \in Int
      /\ a <= span.ticks + c /\ span.ticks <= b /\ d = b + c + span.parts
  BY <1>1, <1>2, <1>3 DEF Rounded
<1>5. a < d
  <2> HIDE DEF a, b, c, d
  <2> QED
    BY <1>1, <1>4
<1>6. span.ms < e + span.parts
  BY <1>1, <1>2, <1>5
<1> QED
  BY <1>1, <1>2, <1>6 DEF e

\* Where a pilot is, and how many parts each span has by then.
Punctual(r) ==
  LET t == timing[r]
  IN /\ stage[r] # "mistimed"
     /\ Rounded(t.wall) /\ Rounded(t.numpy) /\ Rounded(t.waymax)
     /\ stage[r] \notin {"numpy", "waymax"} => t = Untimed
     /\ stage[r] = "numpy" =>
          /\ t.numpy.parts <= MinScenes
          /\ t.wall.parts = t.numpy.parts + 1
          /\ t.waymax.parts = 0
     /\ stage[r] = "waymax" =>
          /\ t.numpy.parts = MinScenes
          /\ t.wall.parts = MinScenes + t.waymax.parts + 1
          /\ t.waymax.parts \in 1 .. WaymaxScenes(r) + 1

TimingInv == Typed /\ \A r \in Runs : Punctual(r)

LEMMA UntimedIsRounded == Rounded(Untimed.wall) /\ Rounded(Untimed.numpy) /\ Rounded(Untimed.waymax)
<1>1. TicksPerMs \in Nat
  BY CampaignAssumption
<1> QED
  BY <1>1 DEF Untimed, NoTime, Rounded

\* A verified pilot has measured n + w + 3 parts.
LEMMA VerifiedAgrees ==
  ASSUME Typed, NEW r \in Runs, Punctual(r), stage[r] = "waymax",
         timing[r].waymax.parts > WaymaxScenes(r), NEW t \in Measured
  PROVE  TimingsAgree([timing[r] EXCEPT !.wall = Timed(@, t)], MinScenes, WaymaxScenes(r))
<1> DEFINE w == WaymaxScenes(r)
           time == timing[r]
           wall == Timed(time.wall, t)
<1>1. w \in Nat /\ MinScenes \in Nat \ {0}
  BY CampaignAssumption DEF WaymaxScenes
<1>2. /\ time \in Timings
      /\ time.wall \in Spans /\ time.numpy \in Spans /\ time.waymax \in Spans
  BY DEF Typed, Timings
<1>3. /\ time.numpy.parts = MinScenes /\ time.wall.parts = MinScenes + time.waymax.parts + 1
      /\ time.waymax.parts \in 1 .. w + 1
      /\ Rounded(time.wall) /\ Rounded(time.numpy) /\ Rounded(time.waymax)
  BY DEF Punctual
<1>4. time.waymax.parts = w + 1
  BY <1>1, <1>3
<1>5. wall \in Spans /\ wall.parts = MinScenes + w + 3 /\ Rounded(wall)
  <2>1. t \in Nat /\ ElapsedMs(t) \in Nat
    BY CampaignAssumption, ElapsedRoundsUp
  <2> QED
    BY <1>1, <1>2, <1>3, <1>4, <2>1, TimedIsRounded DEF Timed, Spans
<1>6. /\ time.numpy.ms <= ElapsedMs(time.numpy.ticks) + MinScenes - 1
      /\ time.waymax.ms <= ElapsedMs(time.waymax.ticks) + w
      /\ wall.ms <= ElapsedMs(wall.ticks) + Overage(MinScenes, w)
  <2>1. \A span \in Spans : span.ticks \in Nat /\ span.ms \in Nat /\ ElapsedMs(span.ticks) \in Nat
    BY ElapsedRoundsUp DEF Spans
  <2>2. time.numpy.ms <= ElapsedMs(time.numpy.ticks) + MinScenes - 1
    BY <1>1, <1>2, <1>3, RoundedIsBounded
  <2>3. time.waymax.ms <= ElapsedMs(time.waymax.ticks) + (w + 1) - 1
    BY <1>1, <1>2, <1>3, <1>4, RoundedIsBounded
  <2>4. wall.ms <= ElapsedMs(wall.ticks) + (MinScenes + w + 3) - 1
    <3> HIDE DEF wall
    <3> QED
      BY <1>1, <1>5, RoundedIsBounded
  <2> HIDE DEF wall, w
  <2> QED
    BY <1>1, <1>2, <1>5, <2>1, <2>2, <2>3, <2>4 DEF Overage
<1>7. /\ [time EXCEPT !.wall = wall].wall = wall
      /\ [time EXCEPT !.wall = wall].numpy = time.numpy
      /\ [time EXCEPT !.wall = wall].waymax = time.waymax
  <2> HIDE DEF wall, time
  <2> QED
    BY <1>2 DEF Timings
<1> QED
  BY <1>6, <1>7 DEF TimingsAgree

LEMMA PunctualStays ==
  ASSUME NEW r \in Runs, Punctual(r), timing'[r] = timing[r], sealed'[r] = sealed[r],
         \/ stage'[r] = stage[r]
         \/ /\ stage[r] \notin {"numpy", "waymax"}
            /\ stage'[r] \notin {"numpy", "waymax", "mistimed"}
  PROVE  Punctual(r)'
BY DEF Punctual, Rounded, WaymaxScenes

LEMMA PunctualAgain ==
  ASSUME NEW r \in Runs, timing'[r] = Untimed,
         stage'[r] \notin {"numpy", "waymax", "mistimed"}
  PROVE  Punctual(r)'
BY UntimedIsRounded DEF Punctual, Rounded

LEMMA PhaseStep ==
  ASSUME Typed, NEW r \in Runs, Punctual(r), PilotPhase(r)
  PROVE  Punctual(r)'
<1> USE DEF Quiet, Goto, visit
<1> DEFINE w == WaymaxScenes(r)
           t == timing[r]
<1>1. PICK spans \in SUBSET {"wall", "numpy", "waymax"}, next \in {"numpy", "waymax"} :
        /\ \/ stage[r] = "execute" /\ spans = {"wall"} /\ next = "numpy"
           \/ /\ stage[r] = "numpy" /\ t.numpy.parts < MinScenes
              /\ spans = {"wall", "numpy"} /\ next = "numpy"
           \/ /\ stage[r] = "numpy" /\ t.numpy.parts = MinScenes
              /\ spans = {"wall", "waymax"} /\ next = "waymax"
           \/ /\ stage[r] = "waymax" /\ t.waymax.parts <= w
              /\ spans = {"wall", "waymax"} /\ next = "waymax"
        /\ Phase(r, stage[r], TRUE, spans, next)
  BY DEF PilotPhase, Phase
<1>2. PICK d \in Measured :
        timing' = [timing EXCEPT ![r] =
                     [s \in DOMAIN @ |-> IF s \in spans THEN Timed(@[s], d) ELSE @[s]]]
  BY <1>1 DEF Phase
<1>3. /\ t \in Timings /\ DOMAIN t = {"wall", "numpy", "waymax"}
      /\ t.wall \in Spans /\ t.numpy \in Spans /\ t.waymax \in Spans
  BY DEF Typed, Timings
<1>4. timing'[r] = [s \in {"wall", "numpy", "waymax"} |->
                      IF s \in spans THEN Timed(t[s], d) ELSE t[s]]
  BY <1>2, <1>3 DEF Typed
<1>5. /\ timing'[r].wall   = IF "wall" \in spans THEN Timed(t.wall, d) ELSE t.wall
      /\ timing'[r].numpy  = IF "numpy" \in spans THEN Timed(t.numpy, d) ELSE t.numpy
      /\ timing'[r].waymax = IF "waymax" \in spans THEN Timed(t.waymax, d) ELSE t.waymax
  BY <1>4
<1>6. /\ Rounded(t.wall) /\ Rounded(t.numpy) /\ Rounded(t.waymax)
  BY DEF Punctual
<1>7. /\ Rounded(Timed(t.wall, d)) /\ Rounded(Timed(t.numpy, d))
      /\ Rounded(Timed(t.waymax, d))
  BY <1>3, <1>6, TimedIsRounded
<1>8. Rounded(timing'[r].wall) /\ Rounded(timing'[r].numpy) /\ Rounded(timing'[r].waymax)
  BY <1>5, <1>6, <1>7
<1>9. \A span \in Spans : span.parts \in Nat /\ Timed(span, d).parts = span.parts + 1
  BY DEF Spans, Timed
<1>10. stage'[r] = next /\ sealed' = sealed
  BY <1>1 DEF Phase, Typed
<1>11. w \in Nat /\ MinScenes \in Nat \ {0} /\ WaymaxScenes(r)' = w
  BY <1>10, CampaignAssumption DEF WaymaxScenes
<1>12. stage[r] = "execute" => t.numpy.parts = 0 /\ t.waymax.parts = 0 /\ t.wall.parts = 0
  BY DEF Punctual, Untimed, NoTime
<1>13. /\ stage[r] = "numpy" =>
             /\ t.numpy.parts <= MinScenes
             /\ t.wall.parts = t.numpy.parts + 1
             /\ t.waymax.parts = 0
       /\ stage[r] = "waymax" =>
             /\ t.numpy.parts = MinScenes
             /\ t.wall.parts = MinScenes + t.waymax.parts + 1
             /\ t.waymax.parts \in 1 .. w + 1
  BY DEF Punctual
<1> HIDE DEF w, t
<1>14. /\ timing'[r].wall.parts   = IF "wall" \in spans THEN t.wall.parts + 1 ELSE t.wall.parts
       /\ timing'[r].numpy.parts  = IF "numpy" \in spans THEN t.numpy.parts + 1
                                                         ELSE t.numpy.parts
       /\ timing'[r].waymax.parts = IF "waymax" \in spans THEN t.waymax.parts + 1
                                                          ELSE t.waymax.parts
  BY <1>3, <1>5, <1>9
<1>15. /\ t.wall.parts \in Nat /\ t.numpy.parts \in Nat /\ t.waymax.parts \in Nat
  BY <1>3, <1>9
<1>16. CASE next = "numpy"
  <2>1. /\ timing'[r].numpy.parts <= MinScenes
        /\ timing'[r].wall.parts = timing'[r].numpy.parts + 1
        /\ timing'[r].waymax.parts = 0
    BY <1>1, <1>11, <1>12, <1>13, <1>14, <1>15, <1>16
  <2> QED
    BY <1>8, <1>10, <1>16, <2>1 DEF Punctual, Rounded
<1>17. CASE next = "waymax"
  <2>1. /\ timing'[r].numpy.parts = MinScenes
        /\ timing'[r].wall.parts = MinScenes + timing'[r].waymax.parts + 1
        /\ timing'[r].waymax.parts \in 1 .. w + 1
    BY <1>1, <1>11, <1>12, <1>13, <1>14, <1>15, <1>17
  <2> QED
    BY <1>8, <1>10, <1>11, <1>17, <2>1 DEF Punctual, Rounded
<1> QED
  BY <1>16, <1>17

LEMMA TimingStep ==
  ASSUME Typed, NEW r \in Runs, Punctual(r), Run(r) \/ FinalizeReview(r)
  PROVE  Punctual(r)'
<1> USE DEF Quiet, Goto, Fails, visit
<1>1. CASE Prepare(r) \/ OpenShard(r) \/ DecodeRecord(r) \/ CheckFile(r) \/ Deliver(r)
           \/ CloseShard(r)
  <2>1. /\ timing' = timing /\ sealed' = sealed
        /\ stage[r] \in {"new", "shard", "decode", "deliver"}
        /\ stage'[r] \in {"shard", "decode", "deliver", "failed"}
    BY <1>1 DEF Prepare, OpenShard, DecodeRecord, CheckFile, Deliver, CloseShard, Typed
  <2> QED
    BY <2>1, PunctualStays
<1>2. CASE Preregister(r)
  <2>1. /\ timing' = timing /\ stage[r] = "shard"
        /\ stage'[r] \in {"begin", "artifacts", "failed"}
    BY <1>2 DEF Preregister, Typed
  <2>2. timing[r] = Untimed
    BY <2>1 DEF Punctual
  <2> QED
    BY <2>1, <2>2, PunctualAgain
<1>3. CASE PilotPhase(r)
  BY <1>3, PhaseStep
<1>4. CASE VerifyPilot(r)
  <2>1. stage'[r] = "artifacts" /\ timing'[r] = Untimed
    BY <1>4, VerifiedAgrees DEF VerifyPilot, Typed
  <2> QED
    BY <2>1, PunctualAgain
<1>5. CASE Fail(r)
  <2>1. stage'[r] = "failed" /\ timing'[r] = Untimed
    BY <1>5 DEF Fail, Typed
  <2> QED
    BY <2>1, PunctualAgain
<1>6. CASE BeginOutcomes(r) \/ ExecuteOfficial(r) \/ Commit(r) \/ Invalidate(r)
           \/ Terminalize(r) \/ FinalizeReview(r)
  <2>1. /\ timing' = timing /\ sealed' = sealed
        /\ stage[r] \notin {"numpy", "waymax"}
        /\ stage'[r] \notin {"numpy", "waymax", "mistimed"}
    BY <1>6 DEF BeginOutcomes, ExecuteOfficial, Commit, Invalidate, Terminalize, Recheck,
                FinalizeReview, Typed
  <2> QED
    BY <2>1, PunctualStays
<1> QED
  BY <1>1, <1>2, <1>3, <1>4, <1>5, <1>6 DEF Run

\* Rounding up every phase of a pilot on its own never exceeds what is allowed for,
\* whatever the clock measured and however many scenes there are.
THEOREM TimingSafety == Spec => []GenuineTimingsAccepted
<1>1. Init => TimingInv
  <2> SUFFICES ASSUME Init, NEW r \in Runs PROVE Punctual(r)
    BY InitTyped DEF TimingInv
  <2>1. stage[r] = "new" /\ timing[r] = Untimed
    BY DEF Init
  <2> QED
    BY <2>1, UntimedIsRounded DEF Punctual
<1>2. TimingInv /\ [Next]_vars => TimingInv'
  <2> SUFFICES ASSUME TimingInv, [Next]_vars, NEW r \in Runs PROVE Punctual(r)'
    BY NextTyped DEF TimingInv
  <2>1. Typed /\ Punctual(r)
    BY DEF TimingInv
  <2>2. ASSUME Frame(r) PROVE Punctual(r)'
    BY <2>1, <2>2, PunctualStays DEF Frame
  <2>3. ASSUME NEW q \in Runs, Run(q) \/ FinalizeReview(q) PROVE Punctual(r)'
    BY <2>1, <2>2, <2>3, TimingStep, OneRunMoves
  <2>4. World \/ UNCHANGED vars => Frame(r)
    BY <2>1, WorldMoves DEF vars, visit, Frame
  <2> QED
    BY <2>2, <2>3, <2>4 DEF Next
<1>3. TimingInv => GenuineTimingsAccepted
  BY DEF TimingInv, Punctual, GenuineTimingsAccepted
<1> QED
  BY <1>1, <1>2, <1>3, PTL DEF Spec

-----------------------------------------------------------------------------
(***************************************************************************)
(* The terminal the commands run behind, for every capacity of the pipe    *)
(* and every size of a read and of the transcript: what was committed had  *)
(* printed nothing and never will, and captured output stays off the       *)
(* terminal.                                                               *)
(***************************************************************************)

-----------------------------------------------------------------------------
(* The parts of capture_terminal *)

Opening     == {"dup_status", "dup_restore", "pipe"}
Redirecting == {"flush_before", "redirect_stdout", "redirect_stderr"}
Running     == {"callback", "flush_after"}
Swapping    == {"swap_open", "swap_stdout", "swap_stderr"}
Joining     == {"join", "join_again", "payload"}
Restoring   == {"restore_stdout", "restore_stderr", "close", "return", "returned"}

BeforeClose == Redirecting \union Running \union Swapping \union {"finish"}
AfterClose  == Joining \union {"commit"} \union Restoring

\* The drain thread read all that there was to read, and nobody can write more.
Drained == drain = "done" /\ ~drainFailure

-----------------------------------------------------------------------------
(* The inductive invariant *)

Flags ==
  /\ seal \in BOOLEAN /\ commitGiven \in BOOLEAN /\ primary \in BOOLEAN
  /\ committed \in BOOLEAN /\ truncated \in BOOLEAN /\ child \in BOOLEAN

\* The flags that some step raises.
Raised ==
  /\ captureFailure \in BOOLEAN /\ osFault \in BOOLEAN /\ drainFailure \in BOOLEAN
  /\ started \in BOOLEAN /\ writeEnd \in BOOLEAN /\ stop \in BOOLEAN
  /\ leaked \in BOOLEAN

Counts ==
  /\ retained \in Nat /\ retained <= RetainLimit
  /\ transcript \in Nat /\ dropped \in Nat /\ pipe \in Nat /\ written \in Nat

TypeOK ==
  /\ Raised /\ Flags /\ Counts
  /\ pc \in Opening \union BeforeClose \union AfterClose
  /\ fd \in [Streams -> {"terminal", "pipe", "sink", "closed"}]
  /\ redirected \subseteq Streams
  /\ have \subseteq {"status", "restore", "capture", "sink"}
  /\ result \in {"none", "boundary_error", "primary", "capture_failed",
                 "output_detected", "captured"}
  /\ drain \in {"off", "running", "done"} /\ thread \in {"idle", "in_pipe"}

\* Every byte that was written is in the pipe, in the transcript or was dropped, and
\* nothing is dropped before something is retained.
Conserved ==
  /\ written = pipe + retained + dropped
  /\ retained = 0 => dropped = 0

\* The pipe is held open until finish(), so the drain thread that ends without a
\* failure has seen it empty and held by nobody; nobody can take hold of it again.
Sealed ==
  /\ drain = "running" /\ pc \in BeforeClose => writeEnd
  /\ drain # "off" => pc \notin Opening
  /\ Drained => pc \in AfterClose /\ pipe = 0 /\ ~PipeHeld

\* Without a capture failure the transcript is all that was ever written.
Settled ==
  /\ pc \in BeforeClose => "capture" \in have \/ captureFailure
  /\ pc = "payload" => drain = "done" \/ drainFailure
  /\ pc \in {"commit"} \union Restoring =>
       captureFailure \/ (Drained /\ transcript = retained)

\* What was committed, or reported as clean, was silent.
Silent ==
  committed \/ result = "captured" =>
    Drained /\ retained = 0 /\ pc \in Restoring

\* From the start of the callback on the descriptors are off the terminal.
Off(s) == fd[s] \in {"pipe", "sink"}

Guarded ==
  /\ ~leaked
  /\ started => pc \notin Opening \union Redirecting
  /\ pc = "redirect_stderr" => fd[1] = "pipe"
  /\ started /\ (seal \/ pc \notin Restoring) => \A s \in Streams : Off(s)

\* Without an operating-system error every step had its effect.
OnTrack ==
  ~osFault =>
    LET final == IF seal THEN "sink" ELSE "terminal"
    IN /\ pc \notin Opening \union Redirecting => started /\ redirected = Streams
       /\ pc \notin {"dup_status", "dup_restore", "return", "returned"} =>
            "restore" \in have
       /\ pc = "redirect_stderr" => 1 \in redirected
       /\ pc \in {"swap_stdout", "swap_stderr"} => "sink" \in have
       /\ pc \in {"swap_stderr", "finish", "commit", "restore_stdout"} \union Joining =>
            fd[1] = "sink"
       /\ pc \in {"finish", "commit", "restore_stdout", "restore_stderr"} \union Joining =>
            fd[2] = "sink"
       /\ pc \in Restoring \ {"restore_stdout"} => fd[1] = final
       /\ pc \in Restoring \ {"restore_stdout", "restore_stderr"} => fd[2] = final

CaptureInv ==
  TypeOK /\ Conserved /\ Sealed /\ Settled /\ Silent /\ Guarded /\ OnTrack

LEMMA CaptureBegins == CaptureInit => CaptureInv
<1> SUFFICES ASSUME CaptureInit PROVE CaptureInv
  OBVIOUS
<1> USE CaptureAssumption DEF CaptureInit, Drained, Opening, Redirecting, Running, Swapping, Joining,
    Restoring, BeforeClose, AfterClose, Streams
<1>1. Flags /\ Raised
  BY DEF Flags, Raised
<1>2. Counts /\ Conserved
  BY DEF Counts, Conserved
<1>3. TypeOK
  BY <1>1, <1>2 DEF TypeOK
<1>4. Sealed /\ Settled /\ Silent
  BY DEF Sealed, Settled, Silent
<1>5. Guarded /\ OnTrack
  BY DEF Guarded, OnTrack
<1> QED
  BY <1>2, <1>3, <1>4, <1>5 DEF CaptureInv

-----------------------------------------------------------------------------
(* The actions *)

\* Nothing is captured yet; a step that fails is noted and gives up.
LEMMA OpensKeep ==
  ASSUME CaptureInv, DuplicateStatus \/ DuplicateRestore \/ OpenPipe \/ FlushBefore
  PROVE  CaptureInv'
<1> USE CaptureAssumption DEF CaptureInv, captureVars, mainVars, mode, drainVars, pipeVars,
    DuplicateStatus, DuplicateRestore, OpenPipe, FlushBefore, Setup, CaptureGoto
<1>1. TypeOK'
  <2>0. Raised'
    BY DEF TypeOK, Raised
  <2>1. Flags'
    BY DEF TypeOK, Flags
  <2>2. Counts'
    BY DEF TypeOK, Counts
  <2> QED
    BY <2>0, <2>1, <2>2 DEF TypeOK, Opening, Redirecting, Running, Swapping, Joining,
       Restoring, BeforeClose, AfterClose
<1>2. Conserved'
  BY DEF TypeOK, Raised, Flags, Counts, Conserved
<1>3. Sealed'
  BY DEF TypeOK, Raised, Flags, Counts, Sealed, Drained, PipeHeld, Opening, Redirecting,
     Running, Swapping, Joining, Restoring, BeforeClose, AfterClose
<1>4. Settled'
  BY DEF TypeOK, Raised, Flags, Counts, Settled, Drained, Opening, Redirecting, Running,
     Swapping, Joining, Restoring, BeforeClose
<1>5. Silent'
  BY DEF TypeOK, Raised, Flags, Counts, Silent, Settled, Drained, Restoring
<1>6. Guarded'
  BY DEF TypeOK, Raised, Flags, Counts, Guarded, Off, Opening, Redirecting, Restoring,
     Streams
<1>7. OnTrack'
  BY DEF TypeOK, Raised, Flags, Counts, OnTrack, Opening, Redirecting, Joining,
     Restoring, Streams
<1> QED
  BY <1>1, <1>2, <1>3, <1>4, <1>5, <1>6, <1>7

\* Both descriptors are on the pipe before the callback starts.
LEMMA RedirectsKeep ==
  ASSUME CaptureInv, RedirectStdout \/ RedirectStderr
  PROVE  CaptureInv'
<1> USE CaptureAssumption DEF CaptureInv, captureVars, mainVars, mode, drainVars, pipeVars,
    RedirectStdout, RedirectStderr, Setup, Redirect, CaptureGoto
<1>1. TypeOK'
  <2>0. Raised'
    BY DEF TypeOK, Raised
  <2>1. Flags'
    BY DEF TypeOK, Flags
  <2>2. Counts'
    BY DEF TypeOK, Counts
  <2> QED
    BY <2>0, <2>1, <2>2 DEF TypeOK, Streams, Opening, Redirecting, Running, Swapping,
       Joining, Restoring, BeforeClose, AfterClose
<1>2. Conserved'
  BY DEF TypeOK, Raised, Flags, Counts, Conserved
<1>3. Sealed'
  BY DEF TypeOK, Raised, Flags, Counts, Sealed, Drained, PipeHeld, Opening, Redirecting,
     Running, Swapping, Joining, Restoring, BeforeClose, AfterClose
<1>4. Settled'
  BY DEF TypeOK, Raised, Flags, Counts, Settled, Drained, Opening, Redirecting, Running,
     Swapping, Joining, Restoring, BeforeClose
<1>5. Silent'
  BY DEF TypeOK, Raised, Flags, Counts, Silent, Settled, Drained, Restoring
<1>6. Guarded'
  BY DEF TypeOK, Raised, Flags, Counts, Guarded, Off, Opening, Redirecting, Restoring,
     Streams
<1>7. OnTrack'
  <2>1. CASE RedirectStdout
    BY <2>1 DEF TypeOK, OnTrack, Opening, Redirecting, Joining, Restoring, Streams
  <2>2. CASE RedirectStderr
    <3>1. osFault' \/ (pc' = "callback" /\ started' /\ pc = "redirect_stderr" /\ ~osFault
                       /\ have' = have /\ redirected' = redirected \union {2})
      BY <2>2 DEF TypeOK, Raised
    <3>2. ~osFault' => redirected' = Streams /\ "restore" \in have'
      <4>1. ~osFault' => 1 \in redirected /\ "restore" \in have
        BY <3>1 DEF OnTrack
      <4>2. redirected \subseteq {1, 2}
        BY DEF TypeOK, Streams
      <4> QED
        BY <3>1, <4>1, <4>2 DEF Streams
    <3> QED
      BY <3>1, <3>2 DEF OnTrack, Opening, Redirecting, Joining, Restoring
  <2> QED
    BY <2>1, <2>2
<1> QED
  BY <1>1, <1>2, <1>3, <1>4, <1>5, <1>6, <1>7

\* The callback and what the buffers still hold print into the pipe.
LEMMA CallsKeep ==
  ASSUME CaptureInv, CallbackPrints \/ CallbackEnds \/ FlushAfter
  PROVE  CaptureInv'
<1> USE CaptureAssumption DEF CaptureInv, captureVars, mainVars, mode, drainVars, pipeVars,
    CallbackPrints, CallbackEnds, FlushAfter, PutByte, CaptureGoto
<1>1. TypeOK'
  <2>0. Raised'
    BY DEF TypeOK, Raised
  <2>1. Flags'
    BY DEF TypeOK, Flags
  <2>2. Counts'
    BY DEF TypeOK, Counts
  <2> QED
    BY <2>0, <2>1, <2>2 DEF TypeOK, Opening, Redirecting, Running, Swapping, Joining,
       Restoring, BeforeClose, AfterClose
<1>2. Conserved'
  BY DEF TypeOK, Raised, Flags, Counts, Conserved
<1>3. Sealed'
  BY DEF TypeOK, Raised, Flags, Counts, Sealed, Drained, PipeHeld, Opening, Redirecting,
     Running, Swapping, Joining, Restoring, BeforeClose, AfterClose
<1>4. Settled'
  BY DEF TypeOK, Raised, Flags, Counts, Settled, Drained, Opening, Redirecting, Running,
     Swapping, Joining, Restoring, BeforeClose
<1>5. Silent'
  BY DEF TypeOK, Raised, Flags, Counts, Silent, Settled, Drained, Restoring
<1>6. Guarded'
  BY DEF TypeOK, Raised, Flags, Counts, Guarded, Off, Opening, Redirecting, Restoring,
     Streams
<1>7. OnTrack'
  BY DEF TypeOK, Raised, Flags, Counts, OnTrack, Opening, Redirecting, Joining,
     Restoring, Streams
<1> QED
  BY <1>1, <1>2, <1>3, <1>4, <1>5, <1>6, <1>7

\* The sink replaces the pipe; the drain thread still runs.
LEMMA SwapsKeep ==
  ASSUME CaptureInv, OpenSink \/ ReplaceStreams
  PROVE  CaptureInv'
<1> USE CaptureAssumption DEF CaptureInv, captureVars, mainVars, mode, drainVars, pipeVars,
    OpenSink, ReplaceStreams, Replace, Replacement, Cleanup, Skip, CaptureGoto
<1>1. TypeOK'
  <2>0. Raised'
    BY DEF TypeOK, Raised
  <2>1. Flags'
    BY DEF TypeOK, Flags
  <2>2. Counts'
    BY DEF TypeOK, Counts
  <2> QED
    BY <2>0, <2>1, <2>2 DEF TypeOK, Opening, Redirecting, Running, Swapping, Joining,
       Restoring, BeforeClose, AfterClose
<1>2. Conserved'
  BY DEF TypeOK, Raised, Flags, Counts, Conserved
<1>3. Sealed'
  BY DEF TypeOK, Raised, Flags, Counts, Sealed, Drained, PipeHeld, Opening, Redirecting,
     Running, Swapping, Joining, Restoring, BeforeClose, AfterClose
<1>4. Settled'
  BY DEF TypeOK, Raised, Flags, Counts, Settled, Drained, Opening, Redirecting, Running,
     Swapping, Joining, Restoring, BeforeClose
<1>5. Silent'
  BY DEF TypeOK, Raised, Flags, Counts, Silent, Settled, Drained, Restoring
<1>6. Guarded'
  BY DEF TypeOK, Raised, Flags, Counts, Guarded, Off, Opening, Redirecting, Restoring,
     Streams
<1>7. OnTrack'
  BY DEF TypeOK, Raised, Flags, Counts, OnTrack, Opening, Redirecting, Joining,
     Restoring, Streams
<1> QED
  BY <1>1, <1>2, <1>3, <1>4, <1>5, <1>6, <1>7

\* The pipe is closed here. Whether the drain thread ended or not is known before
\* the transcript is read.
LEMMA FinishesKeep ==
  ASSUME CaptureInv, CloseWriteEnd \/ JoinDrain \/ JoinAgain \/ ReadTranscript
  PROVE  CaptureInv'
<1> USE CaptureAssumption DEF CaptureInv, captureVars, mainVars, mode, drainVars, pipeVars,
    CloseWriteEnd, JoinDrain, JoinAgain, Outlived, ReadTranscript, CaptureGoto
<1>1. TypeOK'
  <2>0. Raised'
    BY DEF TypeOK, Raised
  <2>1. Flags'
    BY DEF TypeOK, Flags
  <2>2. Counts'
    BY DEF TypeOK, Counts
  <2> QED
    BY <2>0, <2>1, <2>2 DEF TypeOK, Opening, Redirecting, Running, Swapping, Joining,
       Restoring, BeforeClose, AfterClose
<1>2. Conserved'
  BY DEF TypeOK, Raised, Flags, Counts, Conserved
<1>3. Sealed'
  BY DEF TypeOK, Raised, Flags, Counts, Sealed, Drained, PipeHeld, Opening, Redirecting,
     Running, Swapping, Joining, Restoring, BeforeClose, AfterClose
<1>4. Settled'
  BY DEF TypeOK, Raised, Flags, Counts, Settled, Drained, Opening, Redirecting, Running,
     Swapping, Joining, Restoring, BeforeClose
<1>5. Silent'
  BY DEF TypeOK, Raised, Flags, Counts, Silent, Settled, Drained, Restoring
<1>6. Guarded'
  BY DEF TypeOK, Raised, Flags, Counts, Guarded, Off, Opening, Redirecting, Restoring,
     Streams
<1>7. OnTrack'
  BY DEF TypeOK, Raised, Flags, Counts, OnTrack, Opening, Redirecting, Joining,
     Restoring, Streams
<1> QED
  BY <1>1, <1>2, <1>3, <1>4, <1>5, <1>6, <1>7

\* The commit runs only on a transcript that is complete and empty.
LEMMA CommitsKeep ==
  ASSUME CaptureInv, TerminalCommit
  PROVE  CaptureInv'
<1> USE CaptureAssumption DEF CaptureInv, captureVars, mainVars, mode, drainVars, pipeVars,
    TerminalCommit, MayCommit, CaptureGoto
<1>1. TypeOK'
  <2>0. Raised'
    BY DEF TypeOK, Raised
  <2>1. Flags'
    BY DEF TypeOK, Flags
  <2>2. Counts'
    BY DEF TypeOK, Counts
  <2> QED
    BY <2>0, <2>1, <2>2 DEF TypeOK, Opening, Redirecting, Running, Swapping, Joining,
       Restoring, BeforeClose, AfterClose
<1>2. Conserved'
  BY DEF TypeOK, Raised, Flags, Counts, Conserved
<1>3. Sealed'
  BY DEF TypeOK, Raised, Flags, Counts, Sealed, Drained, PipeHeld, Opening, Redirecting,
     Running, Swapping, Joining, Restoring, BeforeClose, AfterClose
<1>4. Settled'
  BY DEF TypeOK, Raised, Flags, Counts, Settled, Drained, Opening, Redirecting, Running,
     Swapping, Joining, Restoring, BeforeClose
<1>5. Silent'
  BY DEF TypeOK, Raised, Flags, Counts, Silent, Settled, Drained, Restoring
<1>6. Guarded'
  BY DEF TypeOK, Raised, Flags, Counts, Guarded, Off, Opening, Redirecting, Restoring,
     Streams
<1>7. OnTrack'
  BY DEF TypeOK, Raised, Flags, Counts, OnTrack, Opening, Redirecting, Joining,
     Restoring, Streams
<1> QED
  BY <1>1, <1>2, <1>3, <1>4, <1>5, <1>6, <1>7

\* Only a command that is not sealed gets the terminal back.
LEMMA RestoresKeep ==
  ASSUME CaptureInv, RestoreStreams \/ CloseSaved \/ Return
  PROVE  CaptureInv'
<1> USE CaptureAssumption DEF CaptureInv, captureVars, mainVars, mode, drainVars, pipeVars,
    RestoreStreams, Restore, StaysSealed, CloseSaved, Return, Verdict, Cleanup, Skip, CaptureGoto
<1>1. TypeOK'
  <2>0. Raised'
    BY DEF TypeOK, Raised
  <2>1. Flags'
    BY DEF TypeOK, Flags
  <2>2. Counts'
    BY DEF TypeOK, Counts
  <2> QED
    BY <2>0, <2>1, <2>2 DEF TypeOK, Opening, Redirecting, Running, Swapping, Joining,
       Restoring, BeforeClose, AfterClose
<1>2. Conserved'
  BY DEF TypeOK, Raised, Flags, Counts, Conserved
<1>3. Sealed'
  BY DEF TypeOK, Raised, Flags, Counts, Sealed, Drained, PipeHeld, Opening, Redirecting,
     Running, Swapping, Joining, Restoring, BeforeClose, AfterClose
<1>4. Settled'
  BY DEF TypeOK, Raised, Flags, Counts, Settled, Drained, Opening, Redirecting, Running,
     Swapping, Joining, Restoring, BeforeClose
<1>5. Silent'
  BY DEF TypeOK, Raised, Flags, Counts, Silent, Settled, Drained, Restoring
<1>6. Guarded'
  BY DEF TypeOK, Raised, Flags, Counts, Guarded, Off, Opening, Redirecting, Restoring,
     Streams
<1>7. OnTrack'
  BY DEF TypeOK, Raised, Flags, Counts, OnTrack, Opening, Redirecting, Joining,
     Restoring, Streams
<1> QED
  BY <1>1, <1>2, <1>3, <1>4, <1>5, <1>6, <1>7

\* The thread reports no failure only when nobody held the pipe.
LEMMA DrainsKeep ==
  ASSUME CaptureInv, DrainRead \/ DrainReachesEnd \/ DrainGivesUp
  PROVE  CaptureInv'
<1> USE CaptureAssumption DEF CaptureInv, captureVars, mainVars, mode, drainVars, pipeVars,
    DrainRead, DrainReachesEnd, DrainGivesUp, Kept, Overflows, Least
<1>1. TypeOK'
  <2>0. Raised'
    BY DEF TypeOK, Raised
  <2>1. Flags'
    BY DEF TypeOK, Flags
  <2>2. Counts'
    BY DEF TypeOK, Counts
  <2> QED
    BY <2>0, <2>1, <2>2 DEF TypeOK, Opening, Redirecting, Running, Swapping, Joining,
       Restoring, BeforeClose, AfterClose
<1>2. Conserved'
  BY DEF TypeOK, Raised, Flags, Counts, Conserved
<1>3. Sealed'
  BY DEF TypeOK, Raised, Flags, Counts, Sealed, Drained, PipeHeld, Opening, Redirecting,
     Running, Swapping, Joining, Restoring, BeforeClose, AfterClose
<1>4. Settled'
  BY DEF TypeOK, Raised, Flags, Counts, Settled, Drained, Opening, Redirecting, Running,
     Swapping, Joining, Restoring, BeforeClose
<1>5. Silent'
  BY DEF TypeOK, Raised, Flags, Counts, Silent, Settled, Drained, Restoring
<1>6. Guarded'
  BY DEF TypeOK, Raised, Flags, Counts, Guarded, Off, Opening, Redirecting, Restoring,
     Streams
<1>7. OnTrack'
  BY DEF TypeOK, Raised, Flags, Counts, OnTrack, Opening, Redirecting, Joining,
     Restoring, Streams
<1> QED
  BY <1>1, <1>2, <1>3, <1>4, <1>5, <1>6, <1>7

\* Threads and children can print only while the pipe is held, or where descriptors
\* 1 and 2 are bound.
LEMMA OthersKeep ==
  ASSUME CaptureInv, \/ ThreadFinishesWrite \/ ChildStarts \/ ChildWrites \/ ChildExits
                     \/ \E s \in Streams : ThreadWrites(s)
  PROVE  CaptureInv'
<1> USE CaptureAssumption DEF CaptureInv, captureVars, mainVars, mode, drainVars, pipeVars,
    ThreadFinishesWrite, ChildStarts, ChildWrites, ChildExits, ThreadWrites, PutByte, Captured,
    StaysSealed
<1>1. TypeOK'
  <2>0. Raised'
    BY DEF TypeOK, Raised
  <2>1. Flags'
    BY DEF TypeOK, Flags
  <2>2. Counts'
    BY DEF TypeOK, Counts
  <2> QED
    BY <2>0, <2>1, <2>2 DEF TypeOK, Opening, Redirecting, Running, Swapping, Joining,
       Restoring, BeforeClose, AfterClose
<1>2. Conserved'
  BY DEF TypeOK, Raised, Flags, Counts, Conserved
<1>3. Sealed'
  BY DEF TypeOK, Raised, Flags, Counts, Sealed, Drained, PipeHeld, Opening, Redirecting,
     Running, Swapping, Joining, Restoring, BeforeClose, AfterClose
<1>4. Settled'
  BY DEF TypeOK, Raised, Flags, Counts, Settled, Drained, Opening, Redirecting, Running,
     Swapping, Joining, Restoring, BeforeClose
<1>5. Silent'
  BY DEF TypeOK, Raised, Flags, Counts, Silent, Settled, Drained, Restoring
<1>6. Guarded'
  BY DEF TypeOK, Raised, Flags, Counts, Guarded, Off, Opening, Redirecting, Restoring,
     Streams
<1>7. OnTrack'
  BY DEF TypeOK, Raised, Flags, Counts, OnTrack, Opening, Redirecting, Joining,
     Restoring, Streams
<1> QED
  BY <1>1, <1>2, <1>3, <1>4, <1>5, <1>6, <1>7

-----------------------------------------------------------------------------
(* The specification *)

LEMMA CaptureStutter == ASSUME CaptureInv, UNCHANGED captureVars PROVE CaptureInv'
<1> USE DEF CaptureInv, captureVars, mainVars, mode, drainVars, pipeVars
<1>1. TypeOK'
  BY DEF TypeOK, Flags, Raised, Counts
<1>2. Conserved' /\ Sealed' /\ Settled' /\ Silent'
  BY DEF Conserved, Sealed, Settled, Silent, Drained, PipeHeld
<1>3. Guarded' /\ OnTrack'
  BY DEF Guarded, Off, OnTrack
<1> QED
  BY <1>1, <1>2, <1>3

LEMMA CaptureStep == CaptureInv /\ [CaptureNext]_captureVars => CaptureInv'
<1> SUFFICES ASSUME CaptureInv, [CaptureNext]_captureVars PROVE CaptureInv'
  OBVIOUS
<1>1. CASE UNCHANGED captureVars
  BY <1>1, CaptureStutter
<1>2. CASE CaptureTerminal
  BY <1>2, OpensKeep, RedirectsKeep, CallsKeep, SwapsKeep, FinishesKeep, CommitsKeep,
     RestoresKeep
  DEF CaptureTerminal
<1>3. CASE Drain \/ DrainGivesUp
  BY <1>3, DrainsKeep DEF Drain
<1>4. CASE Others
  BY <1>4, CallsKeep, OthersKeep DEF Others
<1> QED
  BY <1>1, <1>2, <1>3, <1>4 DEF CaptureNext

LEMMA CaptureInvariant == CaptureSpec => []CaptureInv
BY CaptureBegins, CaptureStep, PTL DEF CaptureSpec

-----------------------------------------------------------------------------
(* The theorems *)

\* capture_terminal commits, or reports a clean capture, only if nothing was ever
\* written to the captured descriptors and nobody can write to them any more.
THEOREM CommitSafety == CaptureSpec => []CommitWasSilent
<1>1. CaptureInv => CommitWasSilent
  BY DEF CaptureInv, Conserved, Sealed, Silent, TypeOK, Counts, CommitWasSilent
<1> QED
  BY <1>1, CaptureInvariant, PTL

\* While descriptors 1 and 2 are captured nothing reaches the real terminal, and
\* without an operating-system error they end where seal_terminal says.
THEOREM TerminalSafety == CaptureSpec => []TerminalIsGuarded
<1>1. CaptureInv => TerminalIsGuarded
  BY DEF CaptureInv, Guarded, OnTrack, TypeOK, TerminalIsGuarded, StaysSealed, Streams,
         Opening, Redirecting, Restoring
<1> QED
  BY <1>1, CaptureInvariant, PTL

=============================================================================
