-------------------------- MODULE M4AcceptanceProofs --------------------------
(***************************************************************************)
(* Proofs about M4Acceptance, for any shards, quotas, targets and number   *)
(* of changes of the world: what a published report rests on, and what a   *)
(* cohort is.                                                              *)
(***************************************************************************)
EXTENDS M4Acceptance, FiniteSetTheorems, FunctionTheorems, TLAPS

-----------------------------------------------------------------------------
(* The inductive invariant *)

Event == [record : Records, digest : Contents, eligible : BOOLEAN]

\* The records that a scan found eligible, and the manifest made of it.
EligibleOf(scanned) == {e.record : e \in {x \in scanned : x.eligible}}

ManifestOf(scanned) ==
  [events |-> scanned, selection |-> Selection(EligibleOf(scanned))]

Manifest == {ManifestOf(scanned) : scanned \in SUBSET Event}

Read  == [record : Records, content : Contents]
Visit == [pass : {3, 4, 5}, record : Records, content : Contents]

Stages ==
  Captured \union Publication \union Ended \union {"new", "measure", "close"}

TypeOK ==
  /\ shards \in [Shards -> [content : Contents, stamp : Nat]]
  /\ stage \in Stages
  /\ pass \in 1 .. 6 /\ at \in 1 .. NumShards + 1
  /\ opened \in [content : Contents, stamp : Nat]
  /\ read \subseteq Read /\ events \subseteq Event
  /\ manifests \in Seq(Manifest)
  /\ subset \subseteq Records /\ visits \subseteq Visit
  /\ worker \in {"none", "working", "sent", "exited", "died"}

InPass == stage \in {"open", "decode"}

\* How far the passes are, and which manifests there are by then.
Passes ==
  /\ pass = 1 => manifests = << >>
  /\ pass = 2 /\ InPass => Len(manifests) = 1
  /\ pass >= 3 => Len(manifests) = 2 /\ manifests[1] = manifests[2]
  /\ stage = "new" => pass = 1 /\ at = 1
  /\ InPass => pass <= 5
  /\ stage \in Benchmark => pass = 6

\* What is read of the open shard is of the content that was hashed, if the file is
\* still the one that it was taken from.
OpenShardIsHashed ==
  /\ stage \in {"new", "open"} => read = {}
  /\ stage = "decode" =>
       /\ at <= NumShards
       /\ \A x \in read : x.record \in Of(at, Targets)
       /\ opened.stamp <= shards[at].stamp
       /\ opened.stamp = shards[at].stamp =>
            /\ opened.content = shards[at].content
            /\ \A x \in read : x.content = opened.content
       /\ ~Scanning => opened.content = DigestOf(manifests[1], at)

IsTrue(e) == e.eligible = (e.record[2] \in EligibleIn[e.digest])

\* Every outcome is that of the content with the recorded digest.
EventsAreTrue ==
  /\ \A e \in events : IsTrue(e)
  /\ \A i \in DOMAIN manifests : \A e \in manifests[i].events : IsTrue(e)

Wanted(p) == IF p = 5 THEN subset ELSE manifests[1].selection.selected

VisitedIn(p) == {v.record : v \in {w \in visits : w.pass = p}}

\* A pass has seen what it wants of the shards behind it, with the content that the
\* manifest names.
VisitsAreDue ==
  /\ \A p \in {3, 4, 5} :
       /\ p < pass => VisitedIn(p) = Wanted(p)
       /\ p = pass /\ InPass => VisitedIn(p) = {e \in Wanted(p) : e[1] < at}
       /\ p > pass => VisitedIn(p) = {}
  /\ \A v \in visits : v.content = DigestOf(manifests[1], v.record[1])

\* An aggregate is pending only over a worker that has answered and is gone, and only
\* what was measured to be silent is published.
EndIsEarned ==
  /\ pending => /\ worker = "exited" /\ message = "report" /\ pass = 6
                /\ stage \notin Captured \union {"new"}
  /\ stage = "close" /\ pending => measured = transcript
  /\ stage \in Publication \/ report => pending /\ transcript = 0

AcceptanceInv ==
  /\ TypeOK /\ Passes /\ OpenShardIsHashed /\ EventsAreTrue /\ VisitsAreDue
  /\ EndIsEarned

\* Nothing is read, recorded or visited at the start.
LEMMA AcceptanceInit == Init => AcceptanceInv
<1> SUFFICES ASSUME Init PROVE AcceptanceInv
  OBVIOUS
<1>1. 1 \in Shards /\ 1 \in 1 .. NumShards + 1
  BY M4Assumption DEF Shards
<1>2. shards \in [Shards -> [content : Contents, stamp : Nat]]
  BY DEF Init
<1>3. TypeOK
  BY <1>1, <1>2 DEF Init, TypeOK, Stages
<1>4. ~InPass /\ stage \notin Benchmark \union Publication \union {"close"}
  BY DEF Init, InPass, Benchmark, Reaping, Publication
<1>5. /\ Passes /\ OpenShardIsHashed /\ EventsAreTrue /\ VisitsAreDue /\ EndIsEarned
  BY <1>4 DEF Init, Passes, OpenShardIsHashed, EventsAreTrue, VisitsAreDue, VisitedIn,
              EndIsEarned
<1> QED
  BY <1>3, <1>5 DEF AcceptanceInv

-----------------------------------------------------------------------------
(* Selections are of the records that were found eligible *)

\* What a scan finds eligible are records.
LEMMA EligibleIsRecords ==
  ASSUME NEW scanned \in SUBSET Event
  PROVE  EligibleOf(scanned) \subseteq Records
BY DEF EligibleOf, Event

\* Nothing else is selected than what is eligible.
LEMMA SelectionIsEligible ==
  ASSUME NEW E
  PROVE  Selection(E).selected \subseteq E
BY DEF Selection, Initially, Redistributed, First, Of

\* What is in a manifest, and what it selects.
LEMMA ManifestTypes ==
  ASSUME NEW m \in Manifest
  PROVE  /\ m.events \subseteq Event
         /\ m = ManifestOf(m.events)
         /\ m.selection.selected \subseteq Records
<1>1. PICK scanned \in SUBSET Event : m = ManifestOf(scanned)
  BY DEF Manifest
<1>2. m.events = scanned /\ m.selection = Selection(EligibleOf(scanned))
  BY <1>1 DEF ManifestOf
<1> QED
  BY <1>1, <1>2, EligibleIsRecords, SelectionIsEligible

\* The first manifest is there from the second pass on.
LEMMA FirstManifest ==
  ASSUME TypeOK, Passes, pass >= 3
  PROVE  /\ manifests[1] \in Manifest /\ 1 \in DOMAIN manifests
         /\ manifests[1].selection.selected \subseteq Records
<1>1. Len(manifests) = 2
  BY DEF Passes
<1>2. manifests \in Seq(Manifest)
  BY DEF TypeOK
<1>3. manifests[1] \in Manifest /\ 1 \in DOMAIN manifests
  BY <1>1, <1>2
<1> QED
  BY <1>3, ManifestTypes

\* What a pass wants are records.
LEMMA TargetsAreRecords ==
  ASSUME TypeOK, Passes, InPass
  PROVE  /\ Targets \subseteq Records
         /\ ~Scanning => pass \in {3, 4, 5} /\ Targets = Wanted(pass)
<1>1. CASE Scanning
  <2>1. pass \notin {3, 4, 5}
    BY <1>1 DEF Scanning, TypeOK
  <2> QED
    BY <1>1, <2>1 DEF Targets
<1>2. CASE ~Scanning
  <2>1. pass \in {3, 4, 5}
    BY <1>2 DEF TypeOK, Passes, Scanning
  <2>2. manifests[1].selection.selected \subseteq Records /\ subset \subseteq Records
    BY <2>1, FirstManifest DEF TypeOK
  <2>3. Targets = IF pass = 5 THEN subset ELSE manifests[1].selection.selected
    BY <1>2, <2>1 DEF Targets
  <2> QED
    BY <2>1, <2>2, <2>3 DEF Wanted
<1> QED
  BY <1>1, <1>2

-----------------------------------------------------------------------------
(* Steps that leave the passes alone *)

ScanInv == TypeOK /\ Passes /\ OpenShardIsHashed /\ EventsAreTrue /\ VisitsAreDue

\* What was visited stays due while neither pass nor shard changes.
LEMMA VisitsStay ==
  ASSUME VisitsAreDue, UNCHANGED <<pass, manifests, subset, visits>>,
         InPass' => InPass /\ at' = at
  PROVE  VisitsAreDue'
<1>1. \A p : VisitedIn(p)' = VisitedIn(p) /\ Wanted(p)' = Wanted(p)
  BY DEF VisitedIn, Wanted
<1>2. \A v \in visits : DigestOf(manifests[1], v.record[1])' = DigestOf(manifests[1], v.record[1])
  BY DEF DigestOf
<1>3. \A p \in {3, 4, 5} : p = pass' /\ InPass' =>
         VisitedIn(p)' = {e \in Wanted(p)' : e[1] < at'}
  BY <1>1 DEF VisitsAreDue
<1> QED
  BY <1>1, <1>2, <1>3 DEF VisitsAreDue

\* Before the third pass nothing was visited.
LEMMA NoVisits ==
  ASSUME TypeOK, VisitsAreDue, pass <= 2
  PROVE  visits = {}
<1> SUFFICES ASSUME NEW v \in visits PROVE FALSE
  OBVIOUS
<1>1. v.pass \in {3, 4, 5} /\ v.pass > pass
  BY DEF TypeOK, Visit
<1>2. v.record \in VisitedIn(v.pass)
  BY DEF VisitedIn
<1> QED
  BY <1>1, <1>2 DEF VisitsAreDue

\* A step that leaves the scan alone and enters no pass keeps what is said of both.
LEMMA ScanStays ==
  ASSUME ScanInv, UNCHANGED <<shards, scan>>,
         worker' \in {"none", "working", "sent", "exited", "died"},
         stage' \in Stages,
         stage' = stage \/ stage' \notin {"new", "open", "decode"}
           \/ (stage = "new" /\ stage' = "open"),
         stage' \in Benchmark => stage \in Benchmark
  PROVE  ScanInv'
<1> USE DEF scan
<1>1. TypeOK'
  BY DEF ScanInv, TypeOK
<1>2. InPass' => InPass \/ (stage = "new" /\ stage' = "open")
  BY DEF InPass
<1>3. Passes'
  BY <1>2 DEF ScanInv, Passes, InPass
<1>4. OpenShardIsHashed'
  BY DEF ScanInv, OpenShardIsHashed, Targets, Scanning, Of, DigestOf
<1>5. EventsAreTrue'
  BY DEF ScanInv, EventsAreTrue, IsTrue
<1>6. VisitsAreDue'
  <2>1. \A p : VisitedIn(p)' = VisitedIn(p) /\ Wanted(p)' = Wanted(p)
    BY DEF VisitedIn, Wanted
  <2>2. \A v \in visits : DigestOf(manifests[1], v.record[1])' = DigestOf(manifests[1], v.record[1])
    BY DEF DigestOf
  <2>3. InPass' /\ ~InPass => pass = 1
    BY <1>2 DEF ScanInv, Passes
  <2> QED
    BY <2>1, <2>2, <2>3 DEF ScanInv, VisitsAreDue
<1> QED
  BY <1>1, <1>3, <1>4, <1>5, <1>6 DEF ScanInv

\* A shard that is replaced gets a new stamp.
LEMMA WorldKeeps ==
  ASSUME ScanInv, World
  PROVE  ScanInv'
<1>1. ASSUME NEW c \in Sources, ChangeSource(c) PROVE ScanInv'
  <2>1. UNCHANGED <<shards, scan, worker, stage>>
    BY <1>1 DEF ChangeSource, Drift, bench
  <2> QED
    BY <2>1, ScanStays DEF ScanInv, TypeOK
<1>2. ASSUME NEW s \in Shards, NEW c \in Contents, ReplaceShard(s, c) PROVE ScanInv'
  <2>1. /\ shards' = [shards EXCEPT ![s] = [content |-> c, stamp |-> @.stamp + 1]]
        /\ UNCHANGED <<scan, worker, stage>>
    BY <1>2 DEF ReplaceShard, Drift, bench
  <2>2. shards \in [Shards -> [content : Contents, stamp : Nat]]
    BY DEF ScanInv, TypeOK
  <2>3. shards' \in [Shards -> [content : Contents, stamp : Nat]]
    BY <2>1, <2>2
  <2>4. TypeOK'
    BY <2>1, <2>3 DEF ScanInv, TypeOK, scan
  <2>5. Passes' /\ EventsAreTrue'
    BY <2>1 DEF ScanInv, Passes, InPass, EventsAreTrue, IsTrue, scan
  <2>6. ASSUME stage = "decode", opened.stamp = shards'[at].stamp
        PROVE  shards'[at] = shards[at]
    <3>1. at \in Shards /\ opened.stamp <= shards[at].stamp
      BY <2>6 DEF ScanInv, OpenShardIsHashed, TypeOK, Shards
    <3>2. opened.stamp \in Nat /\ shards[at].stamp \in Nat
      BY <2>2, <3>1 DEF ScanInv, TypeOK
    <3> QED
      BY <2>1, <2>2, <2>6, <3>1, <3>2
  <2>7. stage = "decode" => opened.stamp <= shards'[at].stamp
    <3>1. SUFFICES ASSUME stage = "decode" PROVE opened.stamp <= shards'[at].stamp
      OBVIOUS
    <3>2. at \in Shards /\ opened.stamp <= shards[at].stamp
      BY <3>1 DEF ScanInv, OpenShardIsHashed, TypeOK, Shards
    <3>3. opened.stamp \in Nat /\ shards[at].stamp \in Nat
      BY <2>2, <3>2 DEF ScanInv, TypeOK
    <3> QED
      BY <2>1, <2>2, <3>2, <3>3
  <2>8. OpenShardIsHashed'
    BY <2>1, <2>6, <2>7 DEF ScanInv, OpenShardIsHashed, Targets, Scanning, Of, DigestOf, scan
  <2>9. VisitsAreDue'
    BY <2>1 DEF ScanInv, VisitsAreDue, VisitedIn, Wanted, DigestOf, InPass, scan
  <2> QED
    BY <2>4, <2>5, <2>8, <2>9 DEF ScanInv
<1> QED
  BY <1>1, <1>2 DEF World

-----------------------------------------------------------------------------
(* The passes *)

\* The end of a pass in failure, or any step that gives the passes up.
LEMMA GivesUp ==
  ASSUME ScanInv, UNCHANGED <<shards, worker, pass, subset, visits>>,
         stage' \in Stages \ ({"new", "open", "decode"} \union Benchmark),
         at' \in 1 .. NumShards + 1, opened' \in [content : Contents, stamp : Nat],
         read' \subseteq Read, events' \subseteq events,
         \/ UNCHANGED manifests
         \/ /\ pass = 2
            /\ \E m \in Manifest : /\ manifests' = Append(manifests, m)
                                   /\ \A e \in m.events : IsTrue(e)
  PROVE  ScanInv'
<1>1. manifests \in Seq(Manifest)
  BY DEF ScanInv, TypeOK
<1>2. manifests' \in Seq(Manifest)
  BY <1>1
<1>3. TypeOK'
  BY <1>2 DEF ScanInv, TypeOK
<1>4. Passes' /\ OpenShardIsHashed'
  BY DEF ScanInv, Passes, OpenShardIsHashed, InPass
<1>5. EventsAreTrue'
  <2>1. \A i \in DOMAIN manifests' : \A e \in manifests'[i].events : IsTrue(e)
    BY <1>1 DEF ScanInv, EventsAreTrue
  <2> QED
    BY <2>1 DEF ScanInv, EventsAreTrue, IsTrue
<1>6. VisitsAreDue'
  <2>1. CASE UNCHANGED manifests
    BY <2>1, VisitsStay DEF ScanInv, InPass
  <2>2. CASE pass = 2
    <3>1. visits = {}
      BY <2>2, NoVisits DEF ScanInv
    <3> QED
      BY <2>2, <3>1 DEF ScanInv, VisitsAreDue, VisitedIn, InPass
  <2> QED
    BY <2>1, <2>2
<1> QED
  BY <1>3, <1>4, <1>5, <1>6 DEF ScanInv

\* The shard that is opened for a visit has the content of the manifest.
LEMMA OpenKeeps ==
  ASSUME ScanInv, OpenShard
  PROVE  ScanInv'
<1>1. /\ stage = "open" /\ at \in Shards /\ at \in Nat /\ at <= NumShards
      /\ shards[at] \in [content : Contents, stamp : Nat]
      /\ read = {}
  BY M4Assumption DEF OpenShard, ScanInv, TypeOK, OpenShardIsHashed, Shards
<1>2. /\ UNCHANGED <<shards, worker, pass, read, events, manifests, subset, visits>>
  BY DEF OpenShard, Quiet, world, bench
<1>3. CASE stage' = "measure" /\ UNCHANGED <<opened, at>>
  <2>1. "measure" \in Stages \ ({"new", "open", "decode"} \union Benchmark)
    BY DEF Stages, Benchmark, Reaping
  <2> QED
    BY <1>2, <1>3, <2>1, GivesUp DEF ScanInv, TypeOK
<1>4. CASE stage' = "decode" /\ at' = at /\ opened' = shards[at]
           /\ (~Scanning => shards[at].content = DigestOf(manifests[1], at))
  <2>1. TypeOK'
    BY <1>1, <1>2, <1>4 DEF ScanInv, TypeOK, Stages, Captured
  <2>2. InPass' /\ InPass /\ stage' \notin Benchmark
    BY <1>1, <1>4 DEF InPass, Benchmark, Reaping
  <2>3. Passes'
    BY <1>2, <1>4, <2>2 DEF ScanInv, Passes
  <2>4. EventsAreTrue'
    BY <1>2 DEF ScanInv, EventsAreTrue, IsTrue
  <2>5. VisitsAreDue'
    BY <1>2, <1>4, <2>2 DEF ScanInv, VisitsAreDue, VisitedIn, Wanted, DigestOf
  <2>6. OpenShardIsHashed'
    BY <1>1, <1>2, <1>4 DEF OpenShardIsHashed, Scanning, DigestOf
  <2> QED
    BY <2>1, <2>3, <2>4, <2>5, <2>6 DEF ScanInv
<1>5. CASE stage' = "open" /\ at' = at + 1 /\ UNCHANGED opened
           /\ ~Scanning /\ Of(at, Targets) = {}
  <2> at + 1 \in 1 .. NumShards + 1
    BY <1>1, M4Assumption DEF Shards
  <2>1. TypeOK'
    BY <1>1, <1>2, <1>5 DEF ScanInv, TypeOK
  <2>2. InPass' /\ InPass /\ stage' \notin Benchmark
    BY <1>1, <1>5 DEF InPass, Benchmark, Reaping
  <2>3. Passes' /\ OpenShardIsHashed'
    BY <1>1, <1>2, <1>5, <2>2 DEF ScanInv, Passes, OpenShardIsHashed
  <2>4. EventsAreTrue'
    BY <1>2 DEF ScanInv, EventsAreTrue, IsTrue
  <2>5. Targets = Wanted(pass) /\ Targets \subseteq Records
    BY <1>5, <2>2, TargetsAreRecords DEF ScanInv
  <2>6. \A e \in Wanted(pass) : e[1] < at + 1 => e[1] < at
    <3>1. \A e \in Wanted(pass) : e[1] \in Nat /\ e[1] # at
      BY <1>5, <2>5 DEF Of, Records, Shards
    <3> QED
      BY <1>1, <3>1
  <2>7. \A e \in Wanted(pass) : e[1] < at => e[1] < at + 1
    <3>1. \A e \in Wanted(pass) : e[1] \in Nat
      BY <2>5 DEF Records, Shards
    <3> QED
      BY <1>1, <3>1
  <2>8. {e \in Wanted(pass) : e[1] < at + 1} = {e \in Wanted(pass) : e[1] < at}
    BY <2>6, <2>7
  <2>9. VisitsAreDue'
    BY <1>2, <1>5, <2>2, <2>8 DEF ScanInv, VisitsAreDue, VisitedIn, Wanted, DigestOf
  <2> QED
    BY <2>1, <2>3, <2>4, <2>9 DEF ScanInv
<1> QED
  BY <1>3, <1>4, <1>5 DEF OpenShard, Goto

\* A record is read of the content that was hashed, or the file is another one.
LEMMA DecodeKeeps ==
  ASSUME ScanInv, DecodeRecord
  PROVE  ScanInv'
<1>1. /\ stage = "decode" /\ InPass
      /\ UNCHANGED <<shards, stage, worker, pass, at, opened, events, manifests, subset,
                     visits>>
  BY DEF DecodeRecord, InPass, Quiet, world, bench
<1>2. PICK e \in Undecoded :
         read' = read \union {[record |-> e, content |-> shards[at].content]}
  BY DEF DecodeRecord
<1>3. at \in Shards
  BY <1>1 DEF ScanInv, TypeOK, OpenShardIsHashed, Shards
<1>4. e \in Of(at, Targets) /\ e \in Records
  BY <1>1, TargetsAreRecords DEF Undecoded, Of, ScanInv
<1>5. shards[at].content \in Contents
  BY <1>3 DEF ScanInv, TypeOK
<1>6. read' \subseteq Read
  BY <1>2, <1>4, <1>5 DEF ScanInv, TypeOK, Read
<1>7. TypeOK'
  BY <1>1, <1>6 DEF ScanInv, TypeOK
<1>8. Passes' /\ EventsAreTrue'
  BY <1>1 DEF ScanInv, Passes, InPass, EventsAreTrue, IsTrue
<1>9. VisitsAreDue'
  BY <1>1, VisitsStay DEF ScanInv, InPass
<1>10. Of(at, Targets)' = Of(at, Targets) /\ Scanning' = Scanning
       /\ DigestOf(manifests[1], at)' = DigestOf(manifests[1], at)
  BY <1>1 DEF Of, Targets, Scanning, DigestOf
<1>11. OpenShardIsHashed'
  BY <1>1, <1>2, <1>4, <1>10 DEF ScanInv, OpenShardIsHashed
<1> QED
  BY <1>7, <1>8, <1>9, <1>11 DEF ScanInv

\* A shard counts only if the file is still the one that was opened.
LEMMA CloseKeeps ==
  ASSUME ScanInv, CloseShard
  PROVE  ScanInv'
<1>1. /\ stage = "decode" /\ InPass /\ at \in Shards /\ at \in Nat /\ at <= NumShards
      /\ at + 1 \in 1 .. NumShards + 1 /\ NumShards \in Nat
  BY M4Assumption DEF CloseShard, InPass, ScanInv, TypeOK, OpenShardIsHashed, Shards
<1>2. /\ UNCHANGED <<shards, worker, pass, manifests, subset>>
      /\ read' = {} /\ opened' = [content |-> opened.content, stamp |-> 0]
  BY DEF CloseShard, Quiet, world, bench
<1>3. opened' \in [content : Contents, stamp : Nat]
  BY <1>2 DEF ScanInv, TypeOK
<1>4. CASE stage' = "measure" /\ UNCHANGED <<at, events, visits>>
  <2>1. "measure" \in Stages \ ({"new", "open", "decode"} \union Benchmark)
    BY DEF Stages, Benchmark, Reaping
  <2> QED
    BY <1>2, <1>3, <1>4, <2>1, GivesUp DEF ScanInv, TypeOK
<1>5. CASE /\ FileIsSame /\ at' = at + 1 /\ stage' = "open"
           /\ IF Scanning
              THEN events' = events \union {EventOf(x) : x \in read} /\ UNCHANGED visits
              ELSE /\ visits' = visits \union
                        {[pass |-> pass, record |-> x.record, content |-> x.content] :
                           x \in read}
                   /\ UNCHANGED events
  <2>1. /\ shards[at].stamp = opened.stamp
        /\ \A x \in read : x.content = opened.content /\ x.record \in Of(at, Targets)
        /\ ~Scanning => opened.content = DigestOf(manifests[1], at)
    BY <1>1, <1>5 DEF FileIsSame, ScanInv, OpenShardIsHashed
  <2>2. \A x \in read : EventOf(x) \in Event /\ IsTrue(EventOf(x))
    BY <2>1 DEF EventOf, Event, IsTrue, ScanInv, TypeOK, Read
  <2>3. InPass' /\ stage' \in Stages /\ stage' \notin Benchmark
    BY <1>5 DEF InPass, Stages, Captured, Benchmark, Reaping
  <2>4. ~Scanning => pass \in {3, 4, 5} /\ Targets = Wanted(pass) /\ Targets \subseteq Records
    BY <1>1, TargetsAreRecords DEF ScanInv
  <2>5. TypeOK'
    <3>1. events' \subseteq Event
      BY <1>5, <2>2 DEF ScanInv, TypeOK
    <3>2. visits' \subseteq Visit
      BY <1>5, <2>4 DEF ScanInv, TypeOK, Visit, Read
    <3> QED
      BY <1>1, <1>2, <1>3, <1>5, <2>3, <3>1, <3>2 DEF ScanInv, TypeOK
  <2>6. Passes'
    BY <1>1, <1>2, <1>5, <2>3 DEF ScanInv, Passes
  <2>7. OpenShardIsHashed'
    BY <1>2, <1>5 DEF OpenShardIsHashed
  <2>8. EventsAreTrue'
    <3>1. \A e \in events' : IsTrue(e)
      BY <1>5, <2>2 DEF ScanInv, EventsAreTrue
    <3>2. \A i \in DOMAIN manifests' : \A e \in manifests'[i].events : IsTrue(e)
      BY <1>2 DEF ScanInv, EventsAreTrue
    <3> QED
      BY <3>1, <3>2 DEF EventsAreTrue, IsTrue
  <2>9. VisitsAreDue'
    <3>1. CASE Scanning
      <4>1. visits = {} /\ visits' = {}
        BY <1>5, <3>1, NoVisits DEF Scanning, ScanInv
      <4>2. pass' <= 2 /\ pass' \in Nat
        BY <1>2, <3>1 DEF Scanning, ScanInv, TypeOK
      <4> QED
        BY <4>1, <4>2 DEF VisitsAreDue, VisitedIn
    <3>2. CASE ~Scanning
      <4> DEFINE new == {[pass |-> pass, record |-> x.record, content |-> x.content] :
                           x \in read}
      <4>1. visits' = visits \union new
        BY <1>5, <3>2
      <4>2. {v.record : v \in {w \in new : w.pass = pass}} = Of(at, Wanted(pass))
        <5>1. \A e \in Of(at, Targets) : \E x \in read : x.record = e
          BY DEF CloseShard, Undecoded
        <5>2. Of(at, Targets) = Of(at, Wanted(pass))
          BY <2>4, <3>2
        <5>3. \A x \in read : \E v \in new : v.pass = pass /\ v.record = x.record
          <6> TAKE x \in read
          <6> [pass |-> pass, record |-> x.record, content |-> x.content] \in new
            OBVIOUS
          <6> QED
            OBVIOUS
        <5>4. \A v \in new : v.record \in Of(at, Targets)
          BY <2>1
        <5> HIDE DEF new
        <5> QED
          BY <5>1, <5>2, <5>3, <5>4
      <4>3. \A p \in {3, 4, 5} \ {pass} : VisitedIn(p)' = VisitedIn(p)
        BY <4>1 DEF VisitedIn
      <4>4. VisitedIn(pass)' = VisitedIn(pass) \union Of(at, Wanted(pass))
        BY <1>2, <4>1, <4>2 DEF VisitedIn
      <4>5. VisitedIn(pass) = {e \in Wanted(pass) : e[1] < at}
        BY <1>1, <2>4, <3>2 DEF ScanInv, VisitsAreDue
      <4>6. \A e \in Wanted(pass) : e[1] \in Nat
        BY <2>4, <3>2 DEF Records, Shards
      <4>7. VisitedIn(pass)' = {e \in Wanted(pass) : e[1] < at + 1}
        <5>1. \A e \in Wanted(pass) : e[1] < at + 1 <=> e[1] < at \/ e[1] = at
          BY <1>1, <4>6
        <5> QED
          BY <4>4, <4>5, <5>1 DEF Of
      <4>8. \A p : Wanted(p)' = Wanted(p)
        BY <1>2 DEF Wanted
      <4>9. \A v \in visits' : v.content = DigestOf(manifests[1], v.record[1])
        <5>1. \A v \in new : v.record[1] = at /\ v.content = opened.content
          BY <2>1 DEF Of
        <5> QED
          BY <2>1, <3>2, <4>1, <5>1 DEF ScanInv, VisitsAreDue
      <4>10. \A v \in visits' : v.content' = DigestOf(manifests[1], v.record[1])'
        BY <1>2, <4>9 DEF DigestOf
      <4>11. \A p \in {3, 4, 5} :
               /\ p < pass' => VisitedIn(p)' = Wanted(p)'
               /\ p = pass' => VisitedIn(p)' = {e \in Wanted(p)' : e[1] < at'}
               /\ p > pass' => VisitedIn(p)' = {}
        BY <1>2, <1>5, <4>3, <4>7, <4>8 DEF ScanInv, VisitsAreDue
      <4> QED
        BY <4>10, <4>11 DEF VisitsAreDue
    <3> QED
      BY <3>1, <3>2
  <2> QED
    BY <2>5, <2>6, <2>7, <2>8, <2>9 DEF ScanInv
<1> QED
  BY <1>4, <1>5 DEF CloseShard, Goto

\* Of a manifest that is made of true events.
LEMMA MadeManifest ==
  ASSUME ScanInv
  PROVE  LET manifest == [events |-> events, selection |->
                            Selection({e.record : e \in {x \in events : x.eligible}})]
         IN /\ manifest \in Manifest
            /\ \A e \in manifest.events : IsTrue(e)
<1> DEFINE manifest == [events |-> events, selection |->
                          Selection({e.record : e \in {x \in events : x.eligible}})]
<1>1. manifest = ManifestOf(events)
  BY DEF ManifestOf, EligibleOf
<1>2. events \in SUBSET Event
  BY DEF ScanInv, TypeOK
<1>3. \A e \in events : IsTrue(e)
  BY DEF ScanInv, EventsAreTrue
<1> QED
  BY <1>1, <1>2, <1>3 DEF Manifest

\* The second manifest is the first one, or the command gives up.
LEMMA EndScanKeeps ==
  ASSUME ScanInv, EndScan
  PROVE  ScanInv'
<1> DEFINE eligible == {e.record : e \in {x \in events : x.eligible}}
           manifest == [events |-> events, selection |-> Selection(eligible)]
<1>1. /\ stage = "open" /\ InPass /\ pass <= 2 /\ pass \in 1 .. 6 /\ read = {}
      /\ UNCHANGED <<shards, worker, opened, read, subset, visits>> /\ events' = {}
  BY DEF EndScan, InPass, Scanning, ScanInv, TypeOK, OpenShardIsHashed, Quiet, world, bench
<1>2. manifest \in Manifest /\ \A e \in manifest.events : IsTrue(e)
  BY MadeManifest
<1>3. \/ /\ manifests' = Append(manifests, manifest) /\ (pass = 2 => manifest = manifests[1])
         /\ pass' = pass + 1 /\ at' = 1 /\ stage' = "open"
      \/ /\ manifests' = Append(manifests, manifest) /\ pass = 2
         /\ stage' = "measure" /\ UNCHANGED <<pass, at>>
      \/ UNCHANGED manifests /\ stage' = "measure" /\ UNCHANGED <<pass, at>>
  BY <1>1 DEF EndScan, NextPass, Goto
<1>4. manifests \in Seq(Manifest) /\ (pass = 1 => Len(manifests) = 0)
      /\ (pass = 2 => Len(manifests) = 1)
  BY <1>1 DEF ScanInv, TypeOK, Passes
<1> HIDE DEF manifest, eligible
<1>5. CASE stage' = "open"
  <2>1. /\ manifests' = Append(manifests, manifest) /\ pass' = pass + 1 /\ at' = 1
        /\ (pass = 2 => manifest = manifests[1])
    BY <1>3, <1>5
  <2>2. /\ manifests' \in Seq(Manifest)
        /\ pass = 1 => Len(manifests') = 1
        /\ pass = 2 => /\ Len(manifests') = 2
                       /\ manifests'[1] = manifest /\ manifests'[2] = manifest
    BY <1>2, <1>4, <2>1
  <2>3. InPass' /\ stage' \in Stages /\ stage' \notin Benchmark
    BY <1>5 DEF InPass, Stages, Captured, Benchmark, Reaping
  <2>4. TypeOK'
    BY <1>1, <2>1, <2>2, <2>3, M4Assumption DEF ScanInv, TypeOK
  <2>5. Passes'
    BY <1>1, <1>5, <2>1, <2>2, <2>3 DEF Passes
  <2>6. OpenShardIsHashed'
    BY <1>1, <1>5 DEF OpenShardIsHashed
  <2>7. EventsAreTrue'
    <3>1. \A i \in DOMAIN manifests' : \A e \in manifests'[i].events : IsTrue(e)
      BY <1>2, <1>4, <2>1 DEF ScanInv, EventsAreTrue
    <3> QED
      BY <1>1, <3>1 DEF EventsAreTrue, IsTrue
  <2>8. VisitsAreDue'
    <3>1. visits' = {}
      BY <1>1, NoVisits DEF ScanInv
    <3>2. pass' \in {2, 3} /\ \A e \in Records : e[1] \in Nat \ {0}
      BY <1>1, <2>1 DEF Records, Shards
    <3>3. pass' = 3 => Wanted(3)' \subseteq Records
      <4>1. pass' = 3 => manifests'[1] = manifest
        BY <1>1, <2>1, <2>2
      <4> QED
        BY <1>2, <4>1, ManifestTypes DEF Wanted
    <3>4. \A p \in {3, 4, 5} : VisitedIn(p)' = {}
      BY <3>1 DEF VisitedIn
    <3>5. pass' = 3 => {e \in Wanted(3)' : e[1] < at'} = {}
      BY <2>1, <3>2, <3>3
    <3> QED
      BY <3>1, <3>2, <3>4, <3>5 DEF VisitsAreDue
  <2> QED
    BY <2>4, <2>5, <2>6, <2>7, <2>8 DEF ScanInv
<1>6. CASE stage' = "measure" /\ UNCHANGED <<pass, at>>
  <2>1. "measure" \in Stages \ ({"new", "open", "decode"} \union Benchmark)
    BY DEF Stages, Benchmark, Reaping
  <2>2. UNCHANGED manifests \/ (pass = 2 /\ manifests' = Append(manifests, manifest))
    BY <1>3, <1>6
  <2> QED
    BY <1>1, <1>2, <1>6, <2>1, <2>2, GivesUp DEF ScanInv, TypeOK
<1> QED
  BY <1>3, <1>5, <1>6

\* A visit that is over has seen all that was due.
LEMMA EndVisitKeeps ==
  ASSUME ScanInv, EndVisit
  PROVE  ScanInv'
<1>1. /\ stage = "open" /\ InPass /\ at = NumShards + 1 /\ read = {}
      /\ UNCHANGED <<shards, worker, opened, read, events, manifests, visits>>
  BY M4Assumption
     DEF EndVisit, InPass, ScanInv, TypeOK, OpenShardIsHashed, Quiet, world, bench
<1>2. ~Scanning /\ pass \in {3, 4, 5} /\ Targets = Wanted(pass) /\ Targets \subseteq Records
  BY <1>1, TargetsAreRecords DEF EndVisit, ScanInv
<1>3. \/ stage' = "measure" /\ UNCHANGED <<pass, at, subset>>
      \/ /\ pass' = pass + 1 /\ at' = 1
         /\ stage' = IF pass = 5 THEN "start" ELSE "open"
         /\ pass # 3 => UNCHANGED subset
         /\ pass = 3 => subset' = IDMSubset(manifests[1].selection.selected)
  BY DEF EndVisit, NextPass, Goto
<1>4. CASE stage' = "measure" /\ UNCHANGED <<pass, at, subset>>
  <2>1. "measure" \in Stages \ ({"new", "open", "decode"} \union Benchmark)
    BY DEF Stages, Benchmark, Reaping
  <2> QED
    BY <1>1, <1>4, <2>1, GivesUp DEF ScanInv, TypeOK
<1>5. CASE /\ pass' = pass + 1 /\ at' = 1
           /\ stage' = IF pass = 5 THEN "start" ELSE "open"
           /\ pass # 3 => UNCHANGED subset
           /\ pass = 3 => subset' = IDMSubset(manifests[1].selection.selected)
  <2>1. manifests[1].selection.selected \subseteq Records
    BY <1>2, FirstManifest DEF ScanInv
  <2>2. subset' \subseteq Records
    BY <1>5, <2>1 DEF IDMSubset, IDMQualified, First, ScanInv, TypeOK
  <2>3. stage' \in Stages /\ pass' \in 1 .. 6 /\ at' \in 1 .. NumShards + 1
    BY <1>2, <1>5, M4Assumption DEF Stages, Captured, Benchmark
  <2>4. TypeOK'
    BY <1>1, <2>2, <2>3 DEF ScanInv, TypeOK
  <2>5. Passes'
    BY <1>1, <1>2, <1>5 DEF ScanInv, Passes, InPass, Benchmark, Reaping
  <2>6. OpenShardIsHashed' /\ EventsAreTrue'
    BY <1>1, <1>5 DEF OpenShardIsHashed, ScanInv, EventsAreTrue, IsTrue
  <2>7. \A p \in {3, 4, 5} : VisitedIn(p)' = VisitedIn(p)
    BY <1>1 DEF VisitedIn
  <2>8. \A p \in {3, 4, 5} : p <= pass \/ p # 5 => Wanted(p)' = Wanted(p)
    BY <1>1, <1>2, <1>5 DEF Wanted
  <2>9. VisitedIn(pass) = Wanted(pass)
    <3>1. \A e \in Wanted(pass) : e[1] < at
      BY <1>1, <1>2, M4Assumption DEF Records, Shards
    <3>2. VisitedIn(pass) = {e \in Wanted(pass) : e[1] < at}
      BY <1>1, <1>2 DEF ScanInv, VisitsAreDue
    <3> QED
      BY <3>1, <3>2
  <2>10. \A p \in {3, 4, 5} : {e \in Wanted(p)' : e[1] < at'} = {}
    <3>1. \A p \in {3, 4, 5} : Wanted(p)' \subseteq Records
      BY <1>1, <2>1, <2>2 DEF Wanted
    <3>2. \A e \in Records : ~(e[1] < 1)
      BY DEF Records, Shards
    <3> QED
      BY <1>5, <3>1, <3>2
  <2>11. \A p \in {3, 4, 5} :
           /\ p < pass' => VisitedIn(p)' = Wanted(p)'
           /\ p >= pass' => VisitedIn(p)' = {}
    <3>1. \A p \in {3, 4, 5} : (p < pass' <=> p <= pass) /\ (p >= pass' <=> p > pass)
      BY <1>2, <1>5
    <3>2. \A p \in {3, 4, 5} : p <= pass => VisitedIn(p) = Wanted(p)
      BY <1>2, <2>9 DEF ScanInv, VisitsAreDue
    <3>3. \A p \in {3, 4, 5} : p > pass => VisitedIn(p) = {}
      BY DEF ScanInv, VisitsAreDue
    <3> QED
      BY <2>7, <2>8, <3>1, <3>2, <3>3
  <2>12. \A v \in visits' : v.content = DigestOf(manifests[1], v.record[1])'
    BY <1>1 DEF ScanInv, VisitsAreDue, DigestOf
  <2>13. \A p \in {3, 4, 5} :
           /\ p = pass' => VisitedIn(p)' = {e \in Wanted(p)' : e[1] < at'}
           /\ p > pass' => VisitedIn(p)' = {}
    <3>1. pass' \in Nat
      BY <1>2, <1>5
    <3> QED
      BY <2>10, <2>11, <3>1
  <2>14. VisitsAreDue'
    BY <2>11, <2>12, <2>13 DEF VisitsAreDue
  <2> QED
    BY <2>4, <2>5, <2>6, <2>14 DEF ScanInv
<1> QED
  BY <1>3, <1>4, <1>5

-----------------------------------------------------------------------------
(* The specification *)

\* The steps outside the passes.
LEMMA OtherStepsScan ==
  ASSUME ScanInv,
         \/ Prepare \/ StartWorker \/ Poll \/ Receive \/ Reap \/ Judge
         \/ Measure \/ CloseCapture \/ CheckSource \/ LinkReport \/ UnlinkPending
         \/ DeliverStatus \/ Trouble \/ Worker \/ UNCHANGED vars
  PROVE  ScanInv'
<1> USE DEF Goto, Quiet, world, bench, Terminate, Join
<1>1. UNCHANGED <<shards, scan>>
  BY DEF Prepare, StartWorker, Poll, Receive, Reap, Kill, Judge, Measure, CloseCapture,
         CheckSource, LinkReport, UnlinkPending, DeliverStatus, Trouble, Raise,
         RuntimePrints, Interrupt, Crash, Worker, Answer, ExitWorker, WorkerPrints, vars
<1>2. worker' \in {"none", "working", "sent", "exited", "died"}
  BY DEF Prepare, StartWorker, Poll, Receive, Reap, Kill, Judge, Measure, CloseCapture,
         CheckSource, LinkReport, UnlinkPending, DeliverStatus, Trouble, Raise,
         RuntimePrints, Interrupt, Crash, Worker, Answer, ExitWorker, WorkerPrints, vars,
         ScanInv, TypeOK, Alive
<1>3. /\ stage' \in Stages
      /\ \/ stage' = stage \/ stage' \notin {"new", "open", "decode"}
         \/ stage = "new" /\ stage' = "open"
      /\ stage' \in Benchmark => stage \in Benchmark
  BY DEF Prepare, StartWorker, Poll, Receive, Reap, Kill, Judge, Measure, CloseCapture,
         CheckSource, LinkReport, UnlinkPending, DeliverStatus, Trouble, Raise,
         RuntimePrints, Interrupt, Crash, Worker, Answer, ExitWorker, WorkerPrints, vars,
         ScanInv, TypeOK, Stages, Captured, Benchmark, Reaping, Publication, Ended
<1> QED
  BY <1>1, <1>2, <1>3, ScanStays

\* Every step keeps what is said of the passes.
LEMMA ScanStep == ScanInv /\ [Next]_vars => ScanInv'
<1> SUFFICES ASSUME ScanInv, [Next]_vars PROVE ScanInv'
  OBVIOUS
<1>1. CASE Command
  BY <1>1, OpenKeeps, DecodeKeeps, CloseKeeps, EndScanKeeps, EndVisitKeeps, OtherStepsScan
     DEF Command
<1>2. CASE Trouble \/ Worker \/ UNCHANGED vars
  BY <1>2, OtherStepsScan
<1>3. CASE World
  BY <1>3, WorldKeeps
<1> QED
  BY <1>1, <1>2, <1>3 DEF Next

\* Nothing that a pending aggregate rests on moves any more.
LEMMA EndStep == ScanInv /\ EndIsEarned /\ [Next]_vars => EndIsEarned'
<1> SUFFICES ASSUME ScanInv, EndIsEarned, [Next]_vars PROVE EndIsEarned'
  OBVIOUS
<1> USE DEF Goto, Quiet, world, bench, scan, EndIsEarned, Captured, Benchmark, Reaping,
            Publication, Ended
<1>1. CASE Prepare \/ OpenShard \/ DecodeRecord \/ CloseShard \/ EndScan \/ EndVisit
           \/ StartWorker \/ Poll \/ Receive
  BY <1>1 DEF Prepare, OpenShard, DecodeRecord, CloseShard, EndScan, EndVisit, NextPass,
              StartWorker, Poll, Receive
<1>2. CASE Reap
  BY <1>2 DEF Reap, Terminate, Join, Kill
<1>3. CASE Judge
  <2>1. pass = 6
    BY <1>3 DEF Judge, ScanInv, Passes
  <2> QED
    BY <1>3, <2>1 DEF Judge, AnswerCounts
<1>4. CASE Measure \/ CloseCapture \/ CheckSource \/ LinkReport \/ UnlinkPending
           \/ DeliverStatus
  BY <1>4 DEF Measure, CloseCapture, CheckSource, LinkReport, UnlinkPending, DeliverStatus
<1>5. CASE Trouble
  BY <1>5 DEF Trouble, Raise, RuntimePrints, Interrupt, Crash
<1>6. CASE Worker
  BY <1>6 DEF Worker, Answer, ExitWorker, WorkerPrints, Alive
<1>7. CASE World
  BY <1>7 DEF World, ChangeSource, ReplaceShard, Drift
<1>8. CASE UNCHANGED vars
  BY <1>8 DEF vars
<1> QED
  BY <1>1, <1>2, <1>3, <1>4, <1>5, <1>6, <1>7, <1>8 DEF Next, Command

\* The invariant of the command.
LEMMA AcceptanceInvariant == Spec => []AcceptanceInv
<1>1. AcceptanceInv /\ [Next]_vars => AcceptanceInv'
  BY ScanStep, EndStep DEF AcceptanceInv, ScanInv
<1> QED
  BY <1>1, AcceptanceInit, PTL DEF Spec

-----------------------------------------------------------------------------
(* What a report rests on *)

\* A report of run_acceptance rests on one version of every shard, which both scans
\* and all three visits saw, and on a benchmark worker that answered and is gone.
THEOREM ReportSafety == Spec => []ReportIsEarned
<1>1. AcceptanceInv => ReportIsEarned
  <2> SUFFICES ASSUME AcceptanceInv, report PROVE ReportIsEarned
    BY DEF ReportIsEarned
  <2>1. pass = 6 /\ worker = "exited" /\ message = "report" /\ transcript = 0
    BY DEF AcceptanceInv, EndIsEarned
  <2>2. Len(manifests) = 2 /\ manifests[1] = manifests[2] /\ 1 \in DOMAIN manifests
    BY <2>1, FirstManifest DEF AcceptanceInv, Passes
  <2>3. \A e \in manifests[1].events : e.eligible = (e.record[2] \in EligibleIn[e.digest])
    BY <2>2 DEF AcceptanceInv, EventsAreTrue, IsTrue
  <2>4. ASSUME NEW p \in {3, 4, 5}
        PROVE  LET seen == {v \in visits : v.pass = p}
               IN /\ {v.record : v \in seen} =
                       (IF p = 5 THEN subset ELSE manifests[1].selection.selected)
                  /\ \A v \in seen : v.content = DigestOf(manifests[1], v.record[1])
    BY <2>1 DEF AcceptanceInv, VisitsAreDue, VisitedIn, Wanted
  <2> QED
    BY <2>1, <2>2, <2>3, <2>4 DEF ReportIsEarned
<1> QED
  BY <1>1, AcceptanceInvariant, PTL

-----------------------------------------------------------------------------
(* Counting: the first records of a set, and sums over shards *)

\* The rankings of records that tell all of them apart.
Ranks == {r \in [Records -> Nat] : IsInjective(r)}

\* The first n of a set are n, or all of them.
LEMMA FirstSize ==
  ASSUME NEW S \in SUBSET Records, IsFiniteSet(S), NEW rank \in Ranks, NEW n \in Nat
  PROVE  /\ First(n, S, rank) \subseteq S
         /\ IsFiniteSet(First(n, S, rank))
         /\ Cardinality(First(n, S, rank)) =
              IF n < Cardinality(S) THEN n ELSE Cardinality(S)
<1> DEFINE Below(e) == {f \in S : Before(rank, f, e)}
           pos == [e \in S |-> Cardinality(Below(e))]
           size == Cardinality(S)
           least == IF n < size THEN n ELSE size
           F == First(n, S, rank)
<1>1. size \in Nat
  BY FS_CardinalityType
<1>2. ASSUME NEW e \in S
      PROVE  IsFiniteSet(Below(e)) /\ Cardinality(Below(e)) \in 0 .. size - 1
  <2>1. e \notin Below(e) /\ Below(e) \in SUBSET S
    BY DEF Before, Ranks
  <2>2. IsFiniteSet(Below(e)) /\ Cardinality(Below(e)) <= size /\ Cardinality(Below(e)) # size
    BY <2>1, FS_Subset
  <2>3. Cardinality(Below(e)) \in Nat
    BY <2>2, FS_CardinalityType
  <2> QED
    BY <2>2, <2>3, <1>1
<1>3. ASSUME NEW a \in S, NEW b \in S, rank[a] < rank[b]
      PROVE  Cardinality(Below(a)) # Cardinality(Below(b))
  <2>1. a \in Below(b) /\ a \notin Below(a) /\ Below(a) \in SUBSET Below(b)
    BY <1>3 DEF Before, Ranks
  <2> QED
    BY <2>1, <1>2, FS_Subset
<1>4. \A a, b \in S : pos[a] = pos[b] => a = b
  <2>1. SUFFICES ASSUME NEW a \in S, NEW b \in S, a # b
                 PROVE  Cardinality(Below(a)) # Cardinality(Below(b))
    BY DEF pos
  <2>2. rank[a] \in Nat /\ rank[b] \in Nat /\ rank[a] # rank[b]
    BY <2>1 DEF Ranks, IsInjective
  <2>3. rank[a] < rank[b] \/ rank[b] < rank[a]
    BY <2>2
  <2> QED
    BY <2>3, <1>3
<1>5. pos \in [S -> 0 .. size - 1]
  BY <1>2
<1>6. pos \in Injection(S, 0 .. size - 1)
  <2> HIDE DEF pos, size
  <2> QED
    BY <1>4, <1>5, Fun_IsInj
<1>7. IsFiniteSet(0 .. size - 1) /\ Cardinality(0 .. size - 1) = size
  BY <1>1, FS_Interval
<1>8. \A i \in 0 .. size - 1 : \E e \in S : pos[e] = i
  <2> HIDE DEF pos, size
  <2>1. size = Cardinality(0 .. size - 1) /\ size = Cardinality(S)
    BY <1>7 DEF size
  <2>2. pos \in Surjection(S, 0 .. size - 1)
    BY <1>6, <1>7, <2>1, FS_Injection
  <2> QED
    BY <2>2 DEF Surjection
<1>9. F = {e \in S : pos[e] < n}
  BY DEF First
<1>10. F \in SUBSET S
  BY <1>9
<1>11. IsFiniteSet(F)
  BY <1>10, FS_Subset
<1> DEFINE g == [e \in F |-> pos[e]]
<1>12. g \in [F -> 0 .. least - 1] /\ \A a, b \in F : g[a] = g[b] => a = b
  <2> HIDE DEF pos
  <2> QED
    BY <1>1, <1>4, <1>5, <1>9
<1>13. \A i \in 0 .. least - 1 : \E e \in F : g[e] = i
  <2> HIDE DEF pos
  <2> QED
    BY <1>1, <1>8, <1>9
<1>14. ExistsBijection(F, 0 .. least - 1)
  <2> HIDE DEF g, F, least
  <2>1. g \in Bijection(F, 0 .. least - 1)
    BY <1>12, <1>13, Fun_IsBij
  <2> QED
    BY <2>1 DEF ExistsBijection
<1>15. Cardinality(0 .. least - 1) = least
  <2>1. least \in Nat
    BY <1>1
  <2> HIDE DEF least
  <2> QED
    BY <2>1, FS_Interval
<1> QED
  <2> HIDE DEF F, least
  <2>1. Cardinality(F) = least
    BY <1>11, <1>14, <1>15, FS_Bijection
  <2> QED
    BY <1>10, <1>11, <2>1 DEF F, least

\* A set of subsets that holds each one whose smaller neighbours it holds, holds all.
LEMMA SubsetInduction ==
  ASSUME NEW S, IsFiniteSet(S), NEW Good,
         \A T \in SUBSET S : (\A x \in T : T \ {x} \in Good) => T \in Good
  PROVE  SUBSET S \subseteq Good
<1> DEFINE Bad == {T \in SUBSET S : T \notin Good}
           R == StrictSubsetOrdering(S)
<1>1. SUFFICES ASSUME Bad # {} PROVE FALSE
  OBVIOUS
<1>2. IsWellFoundedOn(R, SUBSET S)
  BY FS_StrictSubsetOrderingWellFounded, FS_FiniteSubsetsOfFinite
<1>3. Bad \subseteq SUBSET S
  OBVIOUS
<1>4. PICK T \in Bad : \A U \in Bad : <<U, T>> \notin R
  <2> HIDE DEF Bad, R
  <2> QED
    BY <1>1, <1>2, <1>3, WFMin
<1>5. ASSUME NEW x \in T
      PROVE  T \ {x} \in Good
  <2>1. <<T \ {x}, T>> \in R
    BY <1>4 DEF StrictSubsetOrdering
  <2> QED
    BY <1>4, <2>1
<1> QED
  BY <1>4, <1>5

\* The argument that a sum over a set takes next.
ChosenOf(s) == CHOOSE x \in s : TRUE

\* How a sum is taken: one argument after the other.
AddsUp(sum, q) ==
  sum = [s \in SUBSET DOMAIN q |->
           IF s = {} THEN 0 ELSE q[ChosenOf(s)] + sum[s \ {ChosenOf(s)}]]

\* The sum over each set of arguments, as the size of a set of as many pairs.
Heap(q, s) == UNION {{a} \X (1 .. q[a]) : a \in s}

\* One argument more is one pile more.
LEMMA HeapGrows ==
  ASSUME NEW S, IsFiniteSet(S), NEW q \in [S -> Nat], NEW s \in SUBSET S, NEW x \in s
  PROVE  /\ IsFiniteSet(Heap(q, s))
         /\ Cardinality(Heap(q, s)) = q[x] + Cardinality(Heap(q, s \ {x}))
<1> DEFINE Pile(a) == {a} \X (1 .. q[a])
<1>1. ASSUME NEW a \in S
      PROVE  IsFiniteSet(Pile(a)) /\ Cardinality(Pile(a)) = q[a]
  <2>1. IsFiniteSet({a}) /\ Cardinality({a}) = 1
    BY FS_Singleton
  <2>2. q[a] \in Nat
    OBVIOUS
  <2>3. IsFiniteSet(1 .. q[a]) /\ Cardinality(1 .. q[a]) = q[a]
    BY <2>2, FS_Interval
  <2>4. IsFiniteSet(Pile(a)) /\ Cardinality(Pile(a)) = 1 * q[a]
    BY <2>1, <2>3, FS_Product
  <2> QED
    BY <2>2, <2>4
<1>2. ASSUME NEW t \in SUBSET S
      PROVE  IsFiniteSet(Heap(q, t))
  <2> DEFINE Piles == {Pile(a) : a \in t}
             f == [a \in t |-> Pile(a)]
  <2>1. IsFiniteSet(t)
    BY FS_Subset
  <2>2. f \in Surjection(t, Piles)
    BY DEF Surjection
  <2>3. IsFiniteSet(Piles)
    <3> HIDE DEF f, Piles
    <3> QED
      BY <2>1, <2>2, FS_Surjection
  <2>4. \A P \in Piles : IsFiniteSet(P)
    BY <1>1
  <2>5. IsFiniteSet(UNION Piles)
    <3> HIDE DEF Piles
    <3> QED
      BY <2>3, <2>4, FS_UNION
  <2> QED
    BY <2>5 DEF Heap
<1>3. Heap(q, s) = Pile(x) \union Heap(q, s \ {x})
  BY DEF Heap
<1>4. Pile(x) \intersect Heap(q, s \ {x}) = {}
  BY DEF Heap
<1>5. IsFiniteSet(Heap(q, s)) /\ IsFiniteSet(Heap(q, s \ {x}))
  BY <1>2
<1>6. x \in S /\ q[x] \in Nat
  OBVIOUS
<1>7. /\ Cardinality(Heap(q, s)) = q[x] + Cardinality(Heap(q, s \ {x})) - Cardinality({})
      /\ Cardinality(Heap(q, s \ {x})) \in Nat
  <2> DEFINE A == Pile(x)
             B == Heap(q, s \ {x})
  <2>1. IsFiniteSet(A) /\ Cardinality(A) = q[x]
    BY <1>1, <1>6
  <2>2. IsFiniteSet(B) /\ A \intersect B = {} /\ Heap(q, s) = A \union B
    BY <1>3, <1>4, <1>5
  <2> HIDE DEF A, B
  <2>3. Cardinality(B) \in Nat
    BY <2>2, FS_CardinalityType
  <2>4. Cardinality(A \union B)
          = Cardinality(A) + Cardinality(B) - Cardinality(A \intersect B)
    BY <2>1, <2>2, FS_Union
  <2> QED
    BY <2>1, <2>2, <2>3, <2>4 DEF B
<1> QED
  BY <1>5, <1>6, <1>7, FS_EmptySet

\* The sum of a function is taken this way.
LEMMA SumAddsUp ==
  ASSUME NEW S, IsFiniteSet(S), NEW q \in [S -> Nat]
  PROVE  \E sum : AddsUp(sum, q) /\ SumFunction(q) = sum[S]
<1> DEFINE heap == [s \in SUBSET S |-> Cardinality(Heap(q, s))]
           Sum == CHOOSE sum : AddsUp(sum, q)
<1>1. DOMAIN q = S
  OBVIOUS
<1>2. AddsUp(heap, q)
  <2>1. ASSUME NEW s \in SUBSET S
        PROVE  heap[s] = IF s = {} THEN 0 ELSE q[ChosenOf(s)] + heap[s \ {ChosenOf(s)}]
    <3>1. CASE s = {}
      <4>1. Heap(q, {}) = {}
        BY DEF Heap
      <4> QED
        BY <3>1, <4>1, FS_EmptySet
    <3>2. CASE s # {}
      <4>1. ChosenOf(s) \in s
        BY <3>2 DEF ChosenOf
      <4>2. Cardinality(Heap(q, s))
              = q[ChosenOf(s)] + Cardinality(Heap(q, s \ {ChosenOf(s)}))
        BY <4>1, HeapGrows
      <4>3. s \ {ChosenOf(s)} \in SUBSET S
        OBVIOUS
      <4> QED
        BY <3>2, <4>2, <4>3
    <3> QED
      BY <3>1, <3>2
  <2>2. heap = [s \in SUBSET S |->
                  IF s = {} THEN 0 ELSE q[ChosenOf(s)] + heap[s \ {ChosenOf(s)}]]
    <3>1. DOMAIN heap = SUBSET S /\ heap = [s \in SUBSET S |-> heap[s]]
      OBVIOUS
    <3> HIDE DEF heap
    <3> QED
      BY <2>1, <3>1
  <2> QED
    BY <1>1, <2>2 DEF AddsUp
<1>3. AddsUp(Sum, q)
  <2> HIDE DEF heap
  <2> QED
    BY <1>2
<1>4. SumFunction(q) = Sum[S]
  BY <1>1 DEF SumFunction, SumFunctionOnSet, FoldFunctionOnSet, MapThenFoldSet, AddsUp, ChosenOf
<1> QED
  BY <1>3, <1>4

-----------------------------------------------------------------------------
(* The cohort *)

\* The smaller of two numbers.
LEMMA MinOfTwo ==
  ASSUME NEW a \in Nat, NEW b \in Nat
  PROVE  Min({a, b}) = IF a < b THEN a ELSE b
<1> DEFINE m == IF a < b THEN a ELSE b
<1>1. m \in {a, b} /\ \A y \in {a, b} : m =< y
  OBVIOUS
<1>2. ASSUME NEW x \in {a, b}, \A y \in {a, b} : x =< y
      PROVE  x = m
  BY <1>2
<1> HIDE DEF m
<1>3. Min({a, b}) \in {a, b} /\ \A y \in {a, b} : Min({a, b}) =< y
  BY <1>1 DEF Min
<1>4. Min({a, b}) = m
  BY <1>2, <1>3
<1> QED
  BY <1>4 DEF m

\* The shards are finitely many, and so are the records.
LEMMA FiniteWorld == IsFiniteSet(Shards) /\ IsFiniteSet(Records)
<1>1. IsFiniteSet(Shards)
  BY M4Assumption, FS_Interval DEF Shards
<1> QED
  BY <1>1, M4Assumption, FS_Product DEF Records

\* What each shard gives first.
Given(eligible, T) == UNION {First(Quota[s], Of(s, eligible), Rank) : s \in T}

\* A shard gives its quota, or all it has; then the rest is its deficit.
LEMMA ShardGives ==
  ASSUME NEW E \in SUBSET Records, NEW s \in Shards
  PROVE  /\ Of(s, E) \in SUBSET E /\ IsFiniteSet(Of(s, E))
         /\ Cardinality(Of(s, E)) \in Nat /\ Quota[s] \in Nat
         /\ First(Quota[s], Of(s, E), Rank) \subseteq Of(s, E)
         /\ IsFiniteSet(First(Quota[s], Of(s, E), Rank))
         /\ Deficits(E)[s] \in Nat
         /\ Cardinality(First(Quota[s], Of(s, E), Rank)) + Deficits(E)[s] = Quota[s]
         /\ Deficits(E)[s] > 0 => Cardinality(Of(s, E)) < Quota[s]
<1>1. Of(s, E) \in SUBSET E /\ Of(s, E) \in SUBSET Records
  BY DEF Of
<1>2. IsFiniteSet(Of(s, E))
  BY <1>1, FiniteWorld, FS_Subset
<1>3. Cardinality(Of(s, E)) \in Nat
  BY <1>2, FS_CardinalityType
<1>4. Quota[s] \in Nat /\ Rank \in Ranks
  BY M4Assumption DEF Ranks
<1>5. /\ First(Quota[s], Of(s, E), Rank) \subseteq Of(s, E)
      /\ IsFiniteSet(First(Quota[s], Of(s, E), Rank))
      /\ Cardinality(First(Quota[s], Of(s, E), Rank)) =
           IF Quota[s] < Cardinality(Of(s, E)) THEN Quota[s] ELSE Cardinality(Of(s, E))
  BY <1>1, <1>2, <1>4, FirstSize
<1>6. Deficits(E)[s] = IF Cardinality(Of(s, E)) < Quota[s]
                       THEN Quota[s] - Cardinality(Of(s, E)) ELSE 0
  BY DEF Deficits
<1> QED
  BY <1>1, <1>2, <1>3, <1>4, <1>5, <1>6

\* It gives records of its own.
LEMMA GivenIsOf ==
  ASSUME NEW E \in SUBSET Records, NEW T \in SUBSET Shards
  PROVE  \A e \in Given(E, T) : e \in E /\ e[1] \in T
<1>1. SUFFICES ASSUME NEW e \in Given(E, T) PROVE e \in E /\ e[1] \in T
  OBVIOUS
<1>2. PICK s \in T : e \in First(Quota[s], Of(s, E), Rank)
  BY <1>1 DEF Given
<1>3. e \in Of(s, E)
  BY <1>2, ShardGives
<1> QED
  BY <1>2, <1>3 DEF Of

\* What the shards give and what they lack are the quotas.
LEMMA QuotasAddUp ==
  ASSUME NEW E \in SUBSET Records
  PROVE  /\ SumFunction(Deficits(E)) \in Nat
         /\ Cardinality(Initially(E)) + SumFunction(Deficits(E)) = Target
         /\ SumFunction(Deficits(E)) > 0 => \E s \in Shards : Deficits(E)[s] > 0
<1> DEFINE D == Deficits(E)
<1>1. IsFiniteSet(Shards) /\ IsFiniteSet(E)
  BY FiniteWorld, FS_Subset
<1>2. D \in [Shards -> Nat]
  <2>1. \A s \in Shards : D[s] \in Nat
    BY ShardGives
  <2>2. D = [s \in Shards |-> D[s]]
    BY DEF Deficits
  <2> HIDE DEF D
  <2> QED
    BY <2>1, <2>2
<1>3. Quota \in [Shards -> Nat] /\ SumFunction(Quota) = Target
  BY M4Assumption
<1>4. PICK quotas : AddsUp(quotas, Quota) /\ SumFunction(Quota) = quotas[Shards]
  BY <1>1, <1>3, SumAddsUp
<1>5. PICK lacks : AddsUp(lacks, D) /\ SumFunction(D) = lacks[Shards]
  <2> HIDE DEF D
  <2> QED
    BY <1>1, <1>2, SumAddsUp
<1> DEFINE Good == {T \in SUBSET Shards :
              /\ quotas[T] \in Nat /\ lacks[T] \in Nat
              /\ Cardinality(Given(E, T)) + lacks[T] = quotas[T]
              /\ lacks[T] > 0 => \E s \in T : D[s] > 0}
<1>6. ASSUME NEW T \in SUBSET Shards, \A x \in T : T \ {x} \in Good
      PROVE  T \in Good
  <2>1. /\ quotas[T] = IF T = {} THEN 0
                       ELSE Quota[ChosenOf(T)] + quotas[T \ {ChosenOf(T)}]
        /\ lacks[T] = IF T = {} THEN 0 ELSE D[ChosenOf(T)] + lacks[T \ {ChosenOf(T)}]
    <3> HIDE DEF D, Good
    <3>1. DOMAIN Quota = Shards /\ DOMAIN D = Shards
      BY <1>2, <1>3
    <3>2. quotas[T] = IF T = {} THEN 0
                      ELSE Quota[ChosenOf(T)] + quotas[T \ {ChosenOf(T)}]
      BY <1>4, <3>1 DEF AddsUp
    <3>3. lacks[T] = IF T = {} THEN 0 ELSE D[ChosenOf(T)] + lacks[T \ {ChosenOf(T)}]
      BY <1>5, <3>1 DEF AddsUp
    <3> QED
      BY <3>2, <3>3
  <2>2. CASE T = {}
    <3>1. Given(E, {}) = {}
      BY DEF Given
    <3> QED
      BY <2>1, <2>2, <3>1, FS_EmptySet
  <2>3. CASE T # {}
    <3> DEFINE c == ChosenOf(T)
               U == T \ {c}
               A == First(Quota[c], Of(c, E), Rank)
               B == Given(E, U)
    <3>1. c \in T /\ c \in Shards
      BY <2>3 DEF ChosenOf
    <3>2. U \in Good
      BY <1>6, <3>1
    <3>3. /\ A \subseteq Of(c, E) /\ IsFiniteSet(A) /\ Cardinality(A) + D[c] = Quota[c]
          /\ D[c] \in Nat /\ Quota[c] \in Nat
      BY <3>1, ShardGives
    <3>4. Given(E, T) = A \union B
      BY <3>1 DEF Given
    <3>5. \A e \in B : e \in E /\ e[1] \in U
      BY <3>1, GivenIsOf
    <3>6. A \intersect B = {}
      BY <3>3, <3>5 DEF Of
    <3>7. IsFiniteSet(B)
      BY <1>1, <3>5, FS_Subset
    <3> HIDE DEF A, B, U, D, c
    <3>8. Cardinality(A \union B) = Cardinality(A) + Cardinality(B) - Cardinality({})
      BY <3>3, <3>6, <3>7, FS_Union
    <3>9. Cardinality(A) \in Nat /\ Cardinality(B) \in Nat /\ Cardinality({}) = 0
      BY <3>3, <3>7, FS_CardinalityType, FS_EmptySet
    <3>10. quotas[T] = Quota[c] + quotas[U] /\ lacks[T] = D[c] + lacks[U]
      BY <2>1, <2>3 DEF c, U
    <3>11. /\ quotas[U] \in Nat /\ lacks[U] \in Nat
           /\ Cardinality(B) + lacks[U] = quotas[U]
           /\ lacks[U] > 0 => \E s \in U : D[s] > 0
      BY <3>2 DEF B
    <3>12. /\ quotas[T] \in Nat /\ lacks[T] \in Nat
           /\ Cardinality(Given(E, T)) + lacks[T] = quotas[T]
      BY <3>3, <3>4, <3>8, <3>9, <3>10, <3>11
    <3>13. lacks[T] > 0 => \E s \in T : D[s] > 0
      BY <3>1, <3>3, <3>10, <3>11 DEF U
    <3> QED
      BY <3>12, <3>13
  <2> QED
    BY <2>2, <2>3
<1>7. Shards \in Good
  <2>1. SUBSET Shards \subseteq Good
    <3> HIDE DEF Good
    <3> QED
      BY <1>1, <1>6, SubsetInduction
  <2> HIDE DEF Good
  <2> QED
    BY <2>1
<1>8. Initially(E) = Given(E, Shards)
  BY DEF Initially, Given
<1> QED
  BY <1>3, <1>4, <1>5, <1>7, <1>8

\* What a shard gave first is what the cohort has of it before the redistribution.
LEMMA InitiallyOf ==
  ASSUME NEW E \in SUBSET Records, NEW s \in Shards
  PROVE  Of(s, Initially(E)) = First(Quota[s], Of(s, E), Rank)
<1>1. ASSUME NEW e \in Of(s, Initially(E))
      PROVE  e \in First(Quota[s], Of(s, E), Rank)
  <2>1. e[1] = s /\ e \in Initially(E)
    BY DEF Of
  <2>2. PICK t \in Shards : e \in First(Quota[t], Of(t, E), Rank)
    BY <2>1 DEF Initially
  <2>3. e \in Of(t, E)
    BY <2>2, ShardGives
  <2>4. t = s
    BY <2>1, <2>3 DEF Of
  <2> QED
    BY <2>2, <2>4
<1>2. ASSUME NEW e \in First(Quota[s], Of(s, E), Rank)
      PROVE  e \in Of(s, Initially(E))
  <2>1. e \in Of(s, E)
    BY ShardGives
  <2>2. e[1] = s
    BY <2>1 DEF Of
  <2>3. e \in Initially(E)
    BY DEF Initially
  <2> QED
    BY <2>2, <2>3 DEF Of
<1> QED
  BY <1>1, <1>2

\* With enough eligible records the redistribution fills the cohort.
LEMMA RedistributionFills ==
  ASSUME NEW E \in SUBSET Records, ~FallbackUsed(E)
  PROVE  /\ Initially(E) \subseteq E
         /\ Redistributed(E) \subseteq E \ Initially(E)
         /\ Needed(E) = SumFunction(Deficits(E)) /\ Needed(E) \in Nat
         /\ Cardinality(Redistributed(E)) = Needed(E)
         /\ IsFiniteSet(Redistributed(E))
         /\ Cardinality(Initially(E) \union Redistributed(E)) = Target
<1> DEFINE I == Initially(E)
           X == Redistributed(E)
           L == E \ I
<1>1. I \in SUBSET E
  <2>1. I = Given(E, Shards)
    BY DEF Initially, Given
  <2> QED
    BY <2>1, GivenIsOf
<1>2. IsFiniteSet(E) /\ IsFiniteSet(I) /\ IsFiniteSet(L) /\ L \in SUBSET Records
  <2>1. IsFiniteSet(E)
    BY FiniteWorld, FS_Subset
  <2>2. L \in SUBSET E /\ L \in SUBSET Records
    OBVIOUS
  <2> QED
    BY <1>1, <2>1, <2>2, FS_Subset
<1>3. Cardinality(E) \in Nat /\ Cardinality(I) \in Nat /\ Cardinality(L) \in Nat
  BY <1>2, FS_CardinalityType
<1>4. Cardinality(L) = Cardinality(E) - Cardinality(I)
  <2>1. E \intersect I = I
    BY <1>1
  <2> QED
    BY <1>2, <2>1, FS_Difference
<1>5. /\ SumFunction(Deficits(E)) \in Nat
      /\ Cardinality(I) + SumFunction(Deficits(E)) = Target
  BY QuotasAddUp
<1>6. Needed(E) = SumFunction(Deficits(E)) /\ Needed(E) \in Nat
  BY <1>3, <1>5, M4Assumption DEF Needed
<1>7. Target \in Nat /\ Cardinality(E) >= Target
  BY <1>3, M4Assumption DEF FallbackUsed
<1>8. SecondRank \in Ranks
  BY M4Assumption DEF Ranks
<1>9. X \subseteq L /\ IsFiniteSet(X) /\ Cardinality(X) = Needed(E)
  <2>1. X = First(Needed(E), L, SecondRank)
    BY DEF Redistributed
  <2> HIDE DEF X, L
  <2>2. Needed(E) <= Cardinality(L)
    BY <1>3, <1>4, <1>5, <1>6, <1>7
  <2>3. /\ X \subseteq L /\ IsFiniteSet(X)
        /\ Cardinality(X) = IF Needed(E) < Cardinality(L) THEN Needed(E) ELSE Cardinality(L)
    BY <1>2, <1>6, <1>8, <2>1, FirstSize
  <2> QED
    BY <1>3, <1>6, <2>2, <2>3
<1>10. Cardinality(I \union X) = Target
  <2>1. I \intersect X = {}
    BY <1>9
  <2> HIDE DEF I, X, L
  <2>2. Cardinality(I \union X) = Cardinality(I) + Cardinality(X) - Cardinality({})
    BY <1>2, <1>9, <2>1, FS_Union
  <2> QED
    BY <1>3, <1>5, <1>6, <1>9, <2>2, FS_EmptySet
<1> QED
  BY <1>1, <1>6, <1>9, <1>10

\* What CohortIsExact says of one selection sel from the records E.
CohortOf(E, sel) ==
  LET Got(s) == Cardinality(Of(s, sel.selected))
      Has(s) == Cardinality(Of(s, E))
  IN /\ sel.selected \subseteq E
     /\ Cardinality(sel.selected) = Min({Target, Cardinality(E)})
     /\ \A s \in Shards : Got(s) >= Min({Quota[s], Has(s)})
     /\ Cardinality(E) >= Target =>
          /\ sel.redistributed = SumFunction(sel.deficits)
          /\ \A s \in Shards : Got(s) > Quota[s] => \E t \in Shards : Got(t) < Quota[t]

\* A selection is the cohort of the records it is made of.
LEMMA SelectionIsExact ==
  ASSUME NEW E \in SUBSET Records
  PROVE  CohortOf(E, Selection(E))
<1> DEFINE C == Selection(E).selected
           Got(s) == Cardinality(Of(s, C))
           Has(s) == Cardinality(Of(s, E))
<1>1. IsFiniteSet(E) /\ Cardinality(E) \in Nat /\ Target \in Nat
  BY FiniteWorld, FS_Subset, FS_CardinalityType, M4Assumption
<1>2. Min({Target, Cardinality(E)}) = IF Target < Cardinality(E) THEN Target ELSE Cardinality(E)
  BY <1>1, MinOfTwo
<1>3. ASSUME NEW s \in Shards
      PROVE  /\ Has(s) \in Nat /\ Quota[s] \in Nat
             /\ Min({Quota[s], Has(s)}) = IF Quota[s] < Has(s) THEN Quota[s] ELSE Has(s)
  BY ShardGives, MinOfTwo
<1>4. CASE FallbackUsed(E)
  <2>1. C = E
    BY <1>4 DEF Selection
  <2>2. Cardinality(E) < Target
    BY <1>4 DEF FallbackUsed
  <2>3. \A s \in Shards : Got(s) >= Min({Quota[s], Has(s)})
    BY <1>3, <2>1
  <2> QED
    BY <1>1, <1>2, <2>1, <2>2, <2>3 DEF CohortOf
<1>5. CASE ~FallbackUsed(E)
  <2> DEFINE I == Initially(E)
             X == Redistributed(E)
  <2>1. C = I \union X
    BY <1>5 DEF Selection
  <2>2. /\ I \subseteq E /\ X \subseteq E \ I
        /\ Needed(E) = SumFunction(Deficits(E)) /\ Needed(E) \in Nat
        /\ Cardinality(X) = Needed(E) /\ IsFiniteSet(X)
        /\ Cardinality(I \union X) = Target
    BY <1>5, RedistributionFills
  <2>3. C \subseteq E /\ Cardinality(C) = Min({Target, Cardinality(E)})
    BY <1>1, <1>2, <1>5, <2>1, <2>2 DEF FallbackUsed
  <2>4. ASSUME NEW s \in Shards
        PROVE  /\ Of(s, C) \in SUBSET Of(s, E) /\ IsFiniteSet(Of(s, C))
               /\ Got(s) \in Nat /\ Got(s) <= Has(s)
               /\ Got(s) >= Min({Quota[s], Has(s)})
               /\ Got(s) > Quota[s] => X # {}
    <3> DEFINE G == First(Quota[s], Of(s, E), Rank)
               O == Of(s, C)
               H == Of(s, E)
    <3>1. /\ IsFiniteSet(H) /\ IsFiniteSet(G) /\ G \subseteq H
          /\ Deficits(E)[s] \in Nat /\ Cardinality(G) + Deficits(E)[s] = Quota[s]
          /\ Deficits(E)[s] > 0 => Cardinality(H) < Quota[s]
      BY ShardGives
    <3>2. O \in SUBSET H
      BY <2>3 DEF Of
    <3>3. G \in SUBSET O
      <4>1. G = Of(s, I)
        BY InitiallyOf
      <4>2. Of(s, I) \in SUBSET Of(s, C)
        BY <2>1 DEF Of
      <4> QED
        BY <4>1, <4>2
    <3>4. X = {} => O = G
      BY <2>1, InitiallyOf
    <3>5. Deficits(E)[s] = 0 \/ Deficits(E)[s] = Quota[s] - Has(s)
      BY DEF Deficits
    <3> HIDE DEF G, O, H, X, C
    <3>6. IsFiniteSet(O) /\ Cardinality(O) <= Cardinality(H) /\ Cardinality(G) <= Cardinality(O)
      BY <3>1, <3>2, <3>3, FS_Subset
    <3>7. Cardinality(O) \in Nat /\ Cardinality(G) \in Nat /\ Cardinality(H) \in Nat
      BY <3>1, <3>6, FS_CardinalityType
    <3>8. Got(s) = Cardinality(O) /\ Has(s) = Cardinality(H)
      BY DEF O, H
    <3> HIDE DEF Got, Has
    <3>9. Got(s) >= Min({Quota[s], Has(s)})
      BY <1>3, <3>1, <3>5, <3>6, <3>7, <3>8
    <3>10. Got(s) > Quota[s] => X # {}
      BY <1>3, <3>1, <3>4, <3>7, <3>8
    <3> QED
      BY <3>2, <3>6, <3>7, <3>8, <3>9, <3>10 DEF O, H
  <2>5. ASSUME NEW s \in Shards, Got(s) > Quota[s]
        PROVE  \E t \in Shards : Got(t) < Quota[t]
    <3>1. X # {}
      BY <2>4, <2>5
    <3>2. Needed(E) > 0
      <4> HIDE DEF X
      <4> QED
        BY <2>2, <3>1, FS_EmptySet
    <3>3. PICK t \in Shards : Deficits(E)[t] > 0
      BY <2>2, <3>2, QuotasAddUp
    <3>4. Has(t) < Quota[t]
      BY <3>3, ShardGives
    <3>5. Got(t) \in Nat /\ Got(t) <= Has(t)
      BY <2>4
    <3>6. Has(t) \in Nat /\ Quota[t] \in Nat
      BY <1>3
    <3> HIDE DEF Got, Has
    <3> QED
      BY <3>4, <3>5, <3>6
  <2>6. Selection(E).redistributed = SumFunction(Selection(E).deficits)
    BY <1>5, <2>2 DEF Selection
  <2> QED
    BY <2>3, <2>4, <2>5, <2>6 DEF CohortOf
<1> QED
  BY <1>4, <1>5

\* Whatever the shards hold and however they are ranked, each manifest of the cohort
\* selection (waymax_cohort.py) has exactly the target or everything there is, no shard
\* gets less than its quota while it has more to give, and no shard gets more than its
\* quota unless another is short.
THEOREM CohortSafety == Spec => []CohortIsExact
<1>1. AcceptanceInv => CohortIsExact
  <2>1. SUFFICES ASSUME AcceptanceInv PROVE CohortIsExact
    OBVIOUS
  <2>2. manifests \in Seq(Manifest)
    BY <2>1 DEF AcceptanceInv, TypeOK
  <2>3. ASSUME NEW i \in DOMAIN manifests
        PROVE  CohortOf(EligibleOf(manifests[i].events), manifests[i].selection)
    <3>1. manifests[i] \in Manifest
      BY <2>2
    <3>2. PICK scanned \in SUBSET Event : manifests[i] = ManifestOf(scanned)
      BY <3>1 DEF Manifest
    <3>3. /\ manifests[i].events = scanned
          /\ manifests[i].selection = Selection(EligibleOf(scanned))
      BY <3>2 DEF ManifestOf
    <3> QED
      BY <3>3, EligibleIsRecords, SelectionIsExact
  <2> QED
    BY <2>3 DEF CohortIsExact, CohortOf, EligibleOf
<1> QED
  BY <1>1, AcceptanceInvariant, PTL

=============================================================================
