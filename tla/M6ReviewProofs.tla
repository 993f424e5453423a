----------------------------- MODULE M6ReviewProofs -----------------------------
(***************************************************************************)
(* Proofs about M6Review, for any number of finalize-review commands: whose*)
(* work an accepted run is, what exit code 0 means, and that a failed or a *)
(* rejected run stays closed.                                              *)
(***************************************************************************)
EXTENDS M6Review, TLAPS

-----------------------------------------------------------------------------
(* The way of a command from its first write to its end *)

AfterMark      == {"reopen", "emit", "done"}
AfterCommit    == {"collect", "authorize", "mark"} \union AfterMark
AfterManifest  == {"write_committed"} \union AfterCommit
AfterSummary   == {"commit", "reject", "write_manifest"} \union AfterManifest
AfterDecisions == {"summarize", "write_summary"} \union AfterSummary
Path           == {"fill", "seal", "decide", "write_decisions"} \union AfterDecisions
Failing        == {"poison", "write_failure", "diagnose", "invalidate"}
Steps          == Path \union Failing \union {"adopt", "failed", "dead"}

\* From which step on a command has written a file that it signs.
Since == [f \in Signed |->
  CASE f = "review-decisions"  -> AfterDecisions
    [] f = "execution-summary" -> AfterSummary
    [] f = "result-manifest"   -> AfterManifest
    [] f = "COMMITTED"         -> AfterCommit
    [] f = "TERMINAL_SUCCESS"  -> AfterMark]

\* The run command of an official run hands over before it signs anything.
HandsOver(p) == mode = "official" /\ p = Runner

\* What p has signed by now.
Own(p) ==
  IF HandsOver(p) THEN {}
  ELSE {f \in Signed : pc[p] \in Since[f] /\ (f \in ReviewFiles => mode = "official")}

\* What the directory holds if p is the only one that ever had it in hand.
Written(p) ==
  {"PENDING"} \union Own(p)
    \union (IF pc[p] = "fill" THEN {} ELSE {"precursor"})
    \union (IF mode = "official" /\ pc[p] \notin {"fill", "seal"}
            THEN {"AWAITING_REVIEW"} ELSE {})

SignedBy(p, f) == disk[f] = "exact" /\ author[f] = p

-----------------------------------------------------------------------------
(* The inductive invariant *)

TypeOK ==
  /\ mode \in {"official", "unreviewed"}
  /\ reviews \in [Processes -> {"accept", "reject"}]
  /\ disk \in [File -> Bytes]
  /\ author \in [Signed -> Processes]
  /\ rejection \in BOOLEAN
  /\ pc \in [Processes -> Steps]
  /\ stage \in [Processes -> {"command", "bootstrap"}]
  /\ held \in [Processes -> BOOLEAN]
  /\ contended \in BOOLEAN /\ unrecorded \in BOOLEAN /\ powerLost \in BOOLEAN

\* Which steps which command can be in, and when it holds the run.
Roles ==
  /\ held[Runner]
  /\ mode = "official" =>
       pc[Runner] \in Failing \union {"fill", "seal", "collect", "emit", "done",
                                      "failed", "dead"}
  /\ mode # "official" =>
       pc[Runner] \notin {"seal", "adopt", "decide", "write_decisions", "summarize",
                          "write_summary", "reject"}
  /\ \A p \in Finalizers :
       /\ pc[p] \notin {"fill", "seal"}
       /\ pc[p] = "adopt" => ~held[p]
       /\ pc[p] \notin {"adopt", "failed"} => held[p] /\ mode = "official"

\* Only a command whose reviewers accept commits, and only one whose reviewers do
\* not rejects.
Outcomes ==
  \A p \in Finalizers :
    /\ pc[p] = "reject" => reviews[p] = "reject"
    /\ pc[p] \in AfterSummary \ {"reject"} => reviews[p] = "accept"

\* What was there before the review.
Opened ==
  /\ disk["PENDING"] = "exact"
  /\ pc[Runner] \in {"seal", "commit"} => disk["precursor"] = "exact"
  /\ mode = "official" /\ Present("AWAITING_REVIEW") => disk["precursor"] = "exact"
  /\ mode = "official" /\ pc[Runner] \in {"collect", "emit", "done"} =>
       disk["AWAITING_REVIEW"] = "exact"

\* A command that gets on has written what it has written.
OwnWork == \A p \in Processes : \A f \in Own(p) : SignedBy(p, f)

\* The success marker of an official run is the last of five files of one command.
MarkedByOne ==
  mode = "official" /\ Present("TERMINAL_SUCCESS") =>
    LET p == author["TERMINAL_SUCCESS"]
    IN /\ p \in Finalizers /\ reviews[p] = "accept"
       /\ \A f \in ReviewFiles \union Seals : SignedBy(p, f)

\* A command that holds the run and fails leaves a failure record or tried to.
Closing ==
  \A p \in Processes :
    /\ pc[p] = "invalidate" =>
         Present("TERMINAL_SUCCESS") \/ Present("TERMINAL_FAILURE") \/ unrecorded
    /\ pc[p] = "failed" /\ held[p] => Present("TERMINAL_FAILURE") \/ unrecorded

\* As long as the run was never in two hands at once, a live command is alone, and
\* nobody takes up a run that is finished.
InOneHand ==
  /\ contended => \E p \in Finalizers : held[p]
  /\ ~contended =>
       \A p, q \in Processes :
         p # q /\ held[p] /\ Live(p) => ~(held[q] /\ Live(q)) /\ ~Finishes(q)

\* p has always been alone with the run.
Alone(p) ==
  /\ ~contended /\ held[p]
  /\ HandsOver(p) /\ pc[p] = "done" => \A q \in Finalizers : ~held[q]

\* Then the directory holds what p has written, up to a marker that was never synced.
OnlyOwnWork ==
  \A p \in Processes :
    Alone(p) /\ pc[p] \in Path =>
      /\ Members \ {"AWAITING_REVIEW"} = Written(p) \ {"AWAITING_REVIEW"}
      /\ \A f \in Members \ {"AWAITING_REVIEW"} : disk[f] = "exact"
      /\ "AWAITING_REVIEW" \in Members => "AWAITING_REVIEW" \in Written(p)
      /\ "AWAITING_REVIEW" \in Written(p) =>
           Whole("AWAITING_REVIEW") \/ (powerLost /\ pc[p] = "done")

\* A rejection that was recorded is never touched again.
RejectedForGood ==
  rejection /\ disk["TERMINAL_FAILURE"] = "exact" /\ ~contended =>
    /\ mode = "official"
    /\ Members \ {"AWAITING_REVIEW"} =
         {"PENDING", "precursor", "TERMINAL_FAILURE"} \union ReviewFiles
    /\ \A f \in Members \ {"AWAITING_REVIEW"} : disk[f] = "exact"
    /\ Whole("AWAITING_REVIEW") \/ powerLost
    /\ \A f \in ReviewFiles : reviews[author[f]] = "reject"
    /\ \A p \in Processes :
         held[p] /\ Live(p) => pc[p] \in {"poison", "invalidate"} /\ stage[p] = "bootstrap"

ReviewInv ==
  /\ TypeOK /\ Roles /\ Outcomes /\ Opened /\ OwnWork /\ MarkedByOne
  /\ Closing /\ InOneHand /\ OnlyOwnWork /\ RejectedForGood

LEMMA ReviewInit == Init => ReviewInv
<1> SUFFICES ASSUME Init PROVE ReviewInv
  OBVIOUS
<1> USE ReviewAssumption DEF Init, File, Signed, ReviewFiles, Seals
<1>1. TypeOK
  BY DEF TypeOK, Bytes, Processes, Steps, Path, Failing
<1>2. Roles /\ Outcomes /\ Opened
  BY DEF Roles, Outcomes, Opened, Processes, Present, Failing, AfterSummary,
         AfterManifest, AfterCommit, AfterMark
<1>3. \A p \in Processes : Own(p) = {}
  BY DEF Own, Since, Processes, AfterDecisions, AfterSummary, AfterManifest,
         AfterCommit, AfterMark
<1>4. OwnWork /\ MarkedByOne /\ Closing /\ RejectedForGood
  BY <1>3 DEF OwnWork, MarkedByOne, Closing, RejectedForGood, Present, Processes
<1>5. InOneHand
  BY DEF InOneHand, Processes, Finishes
<1>6. OnlyOwnWork
  <2> SUFFICES ASSUME NEW p \in Processes, Alone(p), pc[p] \in Path
               PROVE  /\ Members = Written(p)
                      /\ "AWAITING_REVIEW" \notin Members
                      /\ "AWAITING_REVIEW" \notin Written(p)
                      /\ \A f \in Members : disk[f] = "exact"
    BY DEF OnlyOwnWork
  <2>1. pc[p] = "fill"
    BY DEF Alone, Processes
  <2>2. Written(p) = {"PENDING"}
    BY <2>1, <1>3 DEF Written
  <2> QED
    BY <2>2 DEF Members, Present
<1> QED
  BY <1>1, <1>2, <1>4, <1>5, <1>6 DEF ReviewInv

-----------------------------------------------------------------------------
(* What every step leaves alone *)

\* A command past its first step holds the run, and nobody adopts in other modes.
LEMMA InHand ==
  ASSUME ReviewInv, NEW p \in Processes, pc[p] \notin {"adopt", "failed"}
  PROVE  held[p]
BY DEF ReviewInv, Roles, Processes

\* While a command is alive and the run was never contended, nobody else can say
\* to have been alone with it.
LEMMA NoOtherAlone ==
  ASSUME ReviewInv, NEW p \in Processes, NEW q \in Processes, p # q,
         held[p], Live(p), pc[q] \in Path
  PROVE  ~Alone(q)
<1> SUFFICES ASSUME Alone(q) PROVE FALSE
  OBVIOUS
<1>1. held[q] /\ ~Live(q) /\ ~Finishes(q)
  BY ReviewAssumption DEF Alone, ReviewInv, InOneHand
<1>2. pc[q] = "done" /\ HandsOver(q)
  BY <1>1 DEF Live, Finishes, HandsOver, Path, AfterDecisions, AfterSummary,
              AfterManifest, AfterCommit, AfterMark
<1> QED
  BY <1>2 DEF Alone, HandsOver, Processes

\* What is exact stays, whoever signed it.
Sticky ==
  \A f \in File : disk[f] = "exact" =>
    disk'[f] = "exact" /\ (f \in Signed => author'[f] = author[f])

LEMMA CreateIsSticky ==
  ASSUME TypeOK, NEW p \in Processes, NEW f \in File, NEW b \in Bytes,
         ~Present(f), Create(p, f, b)
  PROVE  Sticky /\ disk' \in [File -> Bytes] /\ author' \in [Signed -> Processes]
<1>1. disk[f] = "absent"
  BY DEF Present
<1>2. disk' \in [File -> Bytes] /\ author' \in [Signed -> Processes]
  BY DEF TypeOK, Create
<1>3. Sticky
  BY <1>1 DEF Sticky, TypeOK, Create
<1> QED
  BY <1>2, <1>3

\* The work of a command that stays where it is stays.
LEMMA WorkStays ==
  ASSUME ReviewInv, Sticky, UNCHANGED mode, NEW p \in Processes, UNCHANGED pc[p]
  PROVE  \A f \in Own(p)' : SignedBy(p, f)'
<1>1. Own(p)' = Own(p)
  BY DEF Own, HandsOver
<1>2. \A f \in Own(p) : f \in File /\ f \in Signed
  BY DEF Own, File
<1> QED
  BY <1>1, <1>2 DEF ReviewInv, OwnWork, Sticky, SignedBy

-----------------------------------------------------------------------------
(* Lemmas about kinds of steps *)

\* A command on its way gives up, before or after a file of its appeared.
LEMMA FailsKeeps ==
  ASSUME ReviewInv, NEW p \in Processes, pc[p] \in Path \ {"done"},
         NEW who \in {"command", "bootstrap"}, Fails(p, who), Quiet,
         \/ UNCHANGED files
         \/ \E f \in File \ {"TERMINAL_FAILURE"}, b \in Bytes \ {"absent"} :
              /\ ~Present(f) /\ Create(p, f, b)
              /\ f = "AWAITING_REVIEW" => pc[p] = "seal"
              /\ f = "TERMINAL_SUCCESS" => pc[p] = "mark"
  PROVE  ReviewInv'
<1> USE DEF Fails, Quiet, ghosts, files
<1>a. pc[p] \notin {"adopt", "failed", "dead", "poison", "invalidate"} /\ Live(p) /\ held[p]
  BY InHand DEF Path, AfterDecisions, AfterSummary, AfterManifest, AfterCommit,
                AfterMark, Live
<1>b. TypeOK /\ pc' = [pc EXCEPT ![p] = "poison"] /\ "poison" \notin Path
  BY DEF ReviewInv, Path, AfterDecisions, AfterSummary, AfterManifest, AfterCommit,
         AfterMark
<1>c. /\ Sticky /\ disk' \in [File -> Bytes] /\ author' \in [Signed -> Processes]
      /\ \A f \in File : Present(f) => Present(f)'
  BY <1>b, CreateIsSticky DEF TypeOK, Sticky, Create, Present
<1>1. TypeOK'
  BY <1>b, <1>c DEF TypeOK, Steps, Failing
<1>2. Roles' /\ Outcomes'
  BY <1>a, <1>b DEF ReviewInv, Roles, Outcomes, TypeOK, Processes, Failing,
     AfterSummary, AfterManifest, AfterCommit, AfterMark
<1>3. Opened'
  <2>1. "AWAITING_REVIEW" \in File /\ "precursor" \in File /\ "PENDING" \in File
    BY DEF File
  <2>2. Present("AWAITING_REVIEW")' => Present("AWAITING_REVIEW") \/ pc[p] = "seal"
    BY <1>b, <2>1 DEF Create, Present, TypeOK
  <2>3. pc[p] = "seal" => p = Runner
    BY DEF ReviewInv, Roles, Processes
  <2> QED
    BY <1>b, <1>c, <2>1, <2>2, <2>3 DEF ReviewInv, Opened, Sticky, TypeOK, Processes
<1>4. OwnWork'
  <2> SUFFICES ASSUME NEW q \in Processes PROVE \A f \in Own(q)' : SignedBy(q, f)'
    BY DEF OwnWork
  <2>1. CASE q = p
    BY <1>b, <2>1 DEF Own, Since, Signed, ReviewFiles, Seals, AfterDecisions,
       AfterSummary, AfterManifest, AfterCommit, AfterMark, TypeOK
  <2>2. CASE q # p
    BY <1>b, <1>c, <2>2, WorkStays DEF TypeOK
  <2> QED
    BY <2>1, <2>2
<1>5. MarkedByOne'
  <2> DEFINE q == author'["TERMINAL_SUCCESS"]
  <2> SUFFICES ASSUME mode = "official", Present("TERMINAL_SUCCESS")'
               PROVE  /\ q \in Finalizers /\ reviews[q] = "accept"
                      /\ \A f \in ReviewFiles \union Seals :
                           disk'[f] = "exact" /\ author'[f] = q
    BY DEF MarkedByOne, SignedBy
  <2>0. /\ "TERMINAL_SUCCESS" \in File /\ "TERMINAL_SUCCESS" \in Signed
        /\ \A f \in ReviewFiles \union Seals : f \in File /\ f \in Signed
    BY DEF File, Signed
  <2>1. CASE Present("TERMINAL_SUCCESS")
    <3>1. author'["TERMINAL_SUCCESS"] = author["TERMINAL_SUCCESS"]
      BY <1>b, <2>0, <2>1 DEF TypeOK, Create
    <3> QED
      BY <1>c, <2>0, <2>1, <3>1 DEF ReviewInv, MarkedByOne, SignedBy, Sticky
  <2>2. CASE ~Present("TERMINAL_SUCCESS")
    <3>1. pc[p] = "mark" /\ author'["TERMINAL_SUCCESS"] = p
      BY <1>b, <2>0, <2>2 DEF TypeOK, Create, Present
    <3>2. p \in Finalizers /\ reviews[p] = "accept"
      BY <3>1 DEF ReviewInv, Roles, Outcomes, Processes, Failing, AfterSummary,
                  AfterManifest, AfterCommit
    <3>3. ReviewFiles \union Seals \subseteq Own(p)
      BY <3>1, <3>2, ReviewAssumption DEF Own, HandsOver, Since, Signed, ReviewFiles, Seals,
         AfterDecisions, AfterSummary, AfterManifest, AfterCommit, AfterMark
    <3> QED
      BY <1>c, <2>0, <3>1, <3>2, <3>3 DEF ReviewInv, OwnWork, SignedBy, Sticky
  <2> QED
    BY <2>1, <2>2
<1>6. Closing'
  BY <1>b, <1>c DEF ReviewInv, Closing, TypeOK, File, Signed
<1>7. InOneHand'
  BY <1>a, <1>b DEF ReviewInv, InOneHand, TypeOK, Live, Finishes
<1>8. OnlyOwnWork'
  <2> SUFFICES ASSUME NEW q \in Processes, Alone(q)', pc'[q] \in Path PROVE FALSE
    BY DEF OnlyOwnWork
  <2>1. q # p /\ pc'[q] = pc[q] /\ Alone(q)
    BY <1>b DEF TypeOK, Alone, HandsOver
  <2> QED
    BY <1>a, <2>1, NoOtherAlone
<1>9. RejectedForGood'
  <2>1. disk'["TERMINAL_FAILURE"] = disk["TERMINAL_FAILURE"]
    BY <1>b DEF TypeOK, Create, File
  <2> QED
    BY <1>a, <2>1 DEF ReviewInv, RejectedForGood
<1> QED
  BY <1>1, <1>2, <1>3, <1>4, <1>5, <1>6, <1>7, <1>8, <1>9 DEF ReviewInv

\* A command gets on without writing anything.
Moves ==
  {<<"decide", "write_decisions">>, <<"summarize", "write_summary">>,
   <<"commit", "write_manifest">>, <<"collect", "authorize">>, <<"collect", "emit">>,
   <<"authorize", "mark">>, <<"reopen", "emit">>, <<"emit", "done">>}

LEMMA ProgressKeeps ==
  ASSUME ReviewInv, NEW p \in Processes, NEW next,
         <<pc[p], next>> \in Moves, pc[p] = "collect" => (next = "emit" <=> HandsOver(p)),
         Goto(p, next), Quiet, UNCHANGED files
  PROVE  ReviewInv'
<1> USE DEF Goto, Quiet, ghosts, files
<1> DEFINE Late == AfterDecisions \union {"write_decisions"}
<1>a. /\ pc[p] \in Path \ {"done"} /\ pc[p] \notin {"adopt", "failed", "fill", "seal"}
      /\ Live(p) /\ held[p]
  BY InHand DEF Moves, Path, AfterDecisions, AfterSummary, AfterManifest, AfterCommit,
                AfterMark, Live
<1>b. /\ TypeOK /\ pc' = [pc EXCEPT ![p] = next] /\ next \in Path
      /\ next \notin {"fill", "seal", "adopt", "reject", "collect", "decide", "summarize"}
  BY DEF ReviewInv, Moves, Path, AfterDecisions, AfterSummary, AfterManifest,
         AfterCommit, AfterMark
<1>1. TypeOK'
  BY <1>b DEF TypeOK, Steps
<1>2. Roles' /\ Outcomes'
  BY <1>a, <1>b, ReviewAssumption DEF ReviewInv, Roles, Outcomes, TypeOK, Processes,
     Failing, Moves, HandsOver, AfterSummary, AfterManifest, AfterCommit, AfterMark
<1>3. Opened'
  BY <1>b DEF ReviewInv, Roles, Opened, TypeOK, Moves, Present, Processes, Failing
<1>c. Own(p)' = Own(p)
  <2>1. HandsOver(p) \/ \A f \in Signed : pc[p] \in Since[f] <=> next \in Since[f]
    BY DEF Moves, Since, Signed, ReviewFiles, Seals, AfterDecisions, AfterSummary,
           AfterManifest, AfterCommit, AfterMark
  <2>2. pc'[p] = next /\ HandsOver(p)' = HandsOver(p)
    BY <1>b DEF TypeOK, HandsOver
  <2> QED
    BY <2>1, <2>2 DEF Own
<1>4. OwnWork'
  <2> SUFFICES ASSUME NEW q \in Processes PROVE \A f \in Own(q)' : SignedBy(q, f)'
    BY DEF OwnWork
  <2>1. CASE q = p
    BY <1>c, <2>1 DEF ReviewInv, OwnWork, SignedBy
  <2>2. CASE q # p
    BY <1>b, <2>2, WorkStays DEF TypeOK, Sticky
  <2> QED
    BY <2>1, <2>2
<1>5. MarkedByOne'
  BY DEF ReviewInv, MarkedByOne, SignedBy, Present
<1>6. Closing'
  BY <1>b DEF ReviewInv, Closing, TypeOK, Present, Moves
<1>7. InOneHand'
  BY <1>a, <1>b DEF ReviewInv, InOneHand, TypeOK, Live, Finishes
<1>8. OnlyOwnWork'
  <2> SUFFICES ASSUME NEW q \in Processes, Alone(q)', pc'[q] \in Path
               PROVE  /\ Members' \ {"AWAITING_REVIEW"} = Written(q)' \ {"AWAITING_REVIEW"}
                      /\ \A f \in Members' \ {"AWAITING_REVIEW"} : disk'[f] = "exact"
                      /\ "AWAITING_REVIEW" \in Members' => "AWAITING_REVIEW" \in Written(q)'
                      /\ "AWAITING_REVIEW" \in Written(q)' =>
                           Whole("AWAITING_REVIEW")' \/ (powerLost' /\ pc'[q] = "done")
    BY DEF OnlyOwnWork
  <2>1. q = p
    <3>1. q # p => pc'[q] = pc[q] /\ Alone(q)
      BY <1>b DEF TypeOK, Alone, HandsOver
    <3> QED
      BY <1>a, <3>1, NoOtherAlone
  <2>2. Alone(p)
    BY <1>a, <2>1 DEF Alone
  <2>3. Written(p)' = Written(p)
    BY <1>a, <1>b, <1>c DEF Written, TypeOK
  <2> QED
    BY <1>a, <2>1, <2>2, <2>3 DEF ReviewInv, OnlyOwnWork, Members, Present, Whole
<1>9. RejectedForGood'
  BY <1>a DEF ReviewInv, RejectedForGood, Path, AfterDecisions, AfterSummary,
     AfterManifest, AfterCommit, AfterMark
<1> QED
  BY <1>1, <1>2, <1>3, <1>4, <1>5, <1>6, <1>7, <1>8, <1>9 DEF ReviewInv

\* A command writes its next file.
Writings ==
  {<<"fill", "precursor", "seal">>, <<"fill", "precursor", "commit">>,
   <<"seal", "AWAITING_REVIEW", "collect">>,
   <<"write_decisions", "review-decisions", "summarize">>,
   <<"write_summary", "execution-summary", "commit">>,
   <<"write_summary", "execution-summary", "reject">>,
   <<"write_manifest", "result-manifest", "write_committed">>,
   <<"write_committed", "COMMITTED", "collect">>,
   <<"mark", "TERMINAL_SUCCESS", "reopen">>}

LEMMA PublishKeeps ==
  ASSUME ReviewInv, NEW p \in Processes, NEW f, NEW next,
         <<pc[p], f, next>> \in Writings,
         pc[p] = "fill" => (next = "seal" <=> mode = "official"),
         pc[p] = "write_summary" => (next = "commit" <=> reviews[p] = "accept"),
         Writes(p, f), Goto(p, next), Quiet
  PROVE  ReviewInv'
<1> USE DEF Goto, Quiet, ghosts, Writes
<1>a. /\ pc[p] \in Path \ {"done"} /\ pc[p] \notin {"adopt", "failed"}
      /\ Live(p) /\ held[p]
  BY InHand DEF Writings, Path, AfterDecisions, AfterSummary, AfterManifest, AfterCommit,
                AfterMark, Live
<1>b. /\ TypeOK /\ pc' = [pc EXCEPT ![p] = next] /\ next \in Path /\ pc'[p] = next
      /\ next \notin {"done", "fill"}
      /\ f \in File \ {"PENDING", "TERMINAL_FAILURE", "failure-details"}
  BY DEF ReviewInv, TypeOK, Writings, Path, AfterDecisions, AfterSummary, AfterManifest,
         AfterCommit, AfterMark, File, Signed, ReviewFiles, Seals
<1>c. /\ Sticky /\ disk' \in [File -> Bytes] /\ author' \in [Signed -> Processes]
      /\ disk' = [disk EXCEPT ![f] = "exact"] /\ disk'[f] = "exact"
      /\ f \in Signed => author'[f] = p
      /\ \A g \in File : Present(g)' <=> Present(g) \/ g = f
  BY <1>b, CreateIsSticky DEF TypeOK, Create, Present, Bytes
<1>d. /\ pc[p] \in {"fill", "seal"} => p = Runner
      /\ pc[p] = "seal" => mode = "official"
      /\ pc[p] \notin {"fill", "seal"} => ~HandsOver(p)
      /\ f \in ReviewFiles => mode = "official" /\ p \in Finalizers
      /\ p = Runner /\ mode = "official" => pc[p] \in {"fill", "seal"}
  BY DEF ReviewInv, Roles, Writings, HandsOver, Processes, Failing, ReviewFiles
<1>1. TypeOK'
  BY <1>b, <1>c DEF TypeOK, Steps
<1>2. Roles' /\ Outcomes'
  BY <1>b, <1>d, ReviewAssumption DEF ReviewInv, Roles, Outcomes, TypeOK, Processes,
     Failing, Writings, AfterSummary, AfterManifest, AfterCommit, AfterMark
<1>3. Opened'
  <2>1. /\ "AWAITING_REVIEW" \in File /\ "precursor" \in File /\ "PENDING" \in File
        /\ f = "AWAITING_REVIEW" <=> pc[p] = "seal"
        /\ f = "precursor" <=> pc[p] = "fill"
    BY DEF File, Writings
  <2>2. disk'["PENDING"] = "exact"
    BY <1>c, <2>1 DEF ReviewInv, Opened, Sticky
  <2>3. pc'[Runner] \in {"seal", "commit"} => disk'["precursor"] = "exact"
    BY <1>b, <1>c, <1>d, <2>1 DEF ReviewInv, Opened, Sticky, Writings, TypeOK, ReviewFiles
  <2>4. mode = "official" /\ Present("AWAITING_REVIEW")' => disk'["precursor"] = "exact"
    BY <1>c, <1>d, <2>1 DEF ReviewInv, Opened, Sticky
  <2>5. mode = "official" /\ pc'[Runner] \in {"collect", "emit", "done"} =>
          disk'["AWAITING_REVIEW"] = "exact"
    BY <1>b, <1>c, <1>d, <2>1 DEF ReviewInv, Opened, Sticky, Writings, TypeOK
  <2> QED
    BY <2>2, <2>3, <2>4, <2>5 DEF Opened
<1>e. Own(p)' = Own(p) \union ({f} \intersect Signed)
  <2>1. CASE HandsOver(p)
    BY <1>b, <1>d, <2>1 DEF Own, HandsOver, Writings, Signed, ReviewFiles, Seals
  <2>2. CASE ~HandsOver(p)
    <3>1. \A g \in Signed : (g \in ReviewFiles /\ mode # "official") \/
            (next \in Since[g] <=> pc[p] \in Since[g] \/ g = f)
      BY <1>d, <2>2 DEF Writings, Since, Signed, ReviewFiles, Seals, AfterDecisions,
         AfterSummary, AfterManifest, AfterCommit, AfterMark, HandsOver
    <3> QED
      BY <1>b, <1>d, <2>2, <3>1 DEF Own, HandsOver
  <2> QED
    BY <2>1, <2>2
<1>4. OwnWork'
  <2> SUFFICES ASSUME NEW q \in Processes PROVE \A g \in Own(q)' : SignedBy(q, g)'
    BY DEF OwnWork
  <2>1. CASE q = p
    BY <1>c, <1>e, <2>1 DEF ReviewInv, OwnWork, SignedBy, Sticky, Own, File
  <2>2. CASE q # p
    BY <1>b, <1>c, <2>2, WorkStays DEF TypeOK
  <2> QED
    BY <2>1, <2>2
<1>5. MarkedByOne'
  <2> DEFINE q == author'["TERMINAL_SUCCESS"]
  <2> SUFFICES ASSUME mode = "official", Present("TERMINAL_SUCCESS")'
               PROVE  /\ q \in Finalizers /\ reviews[q] = "accept"
                      /\ \A g \in ReviewFiles \union Seals :
                           disk'[g] = "exact" /\ author'[g] = q
    BY DEF MarkedByOne, SignedBy
  <2>0. /\ "TERMINAL_SUCCESS" \in File /\ "TERMINAL_SUCCESS" \in Signed
        /\ \A g \in ReviewFiles \union Seals : g \in File /\ g \in Signed
    BY DEF File, Signed
  <2>1. CASE f # "TERMINAL_SUCCESS"
    <3>1. Present("TERMINAL_SUCCESS") /\ author'["TERMINAL_SUCCESS"] = author["TERMINAL_SUCCESS"]
      BY <1>c, <2>0, <2>1 DEF Create
    <3> QED
      BY <1>c, <2>0, <3>1 DEF ReviewInv, MarkedByOne, SignedBy, Sticky
  <2>2. CASE f = "TERMINAL_SUCCESS"
    <3>1. pc[p] = "mark" /\ author'["TERMINAL_SUCCESS"] = p
      BY <1>c, <2>0, <2>2 DEF Writings
    <3>2. p \in Finalizers /\ reviews[p] = "accept"
      BY <1>d, <3>1 DEF ReviewInv, Outcomes, Processes, AfterSummary, AfterManifest,
                        AfterCommit
    <3>3. ReviewFiles \union Seals \subseteq Own(p)
      BY <3>1, <3>2, ReviewAssumption DEF Own, HandsOver, Since, Signed, ReviewFiles, Seals,
         AfterDecisions, AfterSummary, AfterManifest, AfterCommit, AfterMark
    <3> QED
      BY <1>c, <2>0, <3>1, <3>2, <3>3 DEF ReviewInv, OwnWork, SignedBy, Sticky
  <2> QED
    BY <2>1, <2>2
<1>6. Closing'
  <2>1. next \notin {"invalidate", "failed"}
    BY DEF Writings
  <2> QED
    BY <1>b, <1>c, <2>1 DEF ReviewInv, Closing, TypeOK, File, Signed
<1>7. InOneHand'
  BY <1>a, <1>b DEF ReviewInv, InOneHand, TypeOK, Live, Finishes
<1>8. OnlyOwnWork'
  <2> DEFINE AR == "AWAITING_REVIEW"
  <2> SUFFICES ASSUME NEW q \in Processes, Alone(q)', pc'[q] \in Path
               PROVE  /\ Members' \ {AR} = Written(q)' \ {AR}
                      /\ \A g \in Members' \ {AR} : disk'[g] = "exact"
                      /\ AR \in Members' => AR \in Written(q)'
                      /\ AR \in Written(q)' => Whole(AR)'
    BY DEF OnlyOwnWork
  <2>1. q = p
    <3>1. q # p => pc'[q] = pc[q] /\ Alone(q)
      BY <1>b DEF TypeOK, Alone, HandsOver
    <3> QED
      BY <1>a, <3>1, NoOtherAlone
  <2>2. Alone(p)
    BY <1>a, <2>1 DEF Alone
  <2>3. Written(p)' = Written(p) \union {f}
    <3>1. f \in Signed <=> f \notin {"precursor", AR}
      BY DEF Writings, Signed, ReviewFiles, Seals
    <3>2. CASE pc[p] = "fill"
      <4>1. f = "precursor" /\ next \in {"seal", "commit"} /\ Own(p)' = Own(p)
        BY <1>e, <3>1, <3>2 DEF Writings
      <4> QED
        BY <1>b, <3>2, <4>1 DEF Written
    <3>3. CASE pc[p] = "seal"
      <4>1. f = AR /\ next = "collect" /\ Own(p)' = Own(p) /\ mode = "official"
        BY <1>d, <1>e, <3>1, <3>3 DEF Writings
      <4> QED
        BY <1>b, <3>3, <4>1 DEF Written
    <3>4. CASE pc[p] \notin {"fill", "seal"}
      <4>1. next \notin {"fill", "seal"} /\ Own(p)' = Own(p) \union {f}
        BY <1>e, <3>1, <3>4 DEF Writings
      <4> QED
        BY <1>b, <3>4, <4>1 DEF Written
    <3> QED
      BY <3>2, <3>3, <3>4
  <2>4. Members' = Members \union {f}
    BY <1>b, <1>c DEF Members
  <2>5. /\ Members \ {AR} = Written(p) \ {AR}
        /\ \A g \in Members \ {AR} : disk[g] = "exact"
        /\ AR \in Members => AR \in Written(p)
        /\ AR \in Written(p) => Whole(AR)
    BY <1>a, <2>2 DEF ReviewInv, OnlyOwnWork
  <2>6. \A g \in Members' \ {AR} : disk'[g] = "exact"
    BY <1>c, <2>4, <2>5 DEF Sticky, Members
  <2>7. AR \in Written(p)' => Whole(AR)'
    BY <1>b, <1>c, <2>3, <2>5 DEF Whole, TypeOK, File
  <2> QED
    BY <2>1, <2>3, <2>4, <2>5, <2>6, <2>7
<1>9. RejectedForGood'
  <2>1. disk'["TERMINAL_FAILURE"] = disk["TERMINAL_FAILURE"]
    BY <1>b, <1>c DEF TypeOK, File
  <2> QED
    BY <1>a, <2>1 DEF ReviewInv, RejectedForGood, Path, AfterDecisions, AfterSummary,
     AfterManifest, AfterCommit, AfterMark
<1> QED
  BY <1>1, <1>2, <1>3, <1>4, <1>5, <1>6, <1>7, <1>8, <1>9 DEF ReviewInv

-----------------------------------------------------------------------------
(* The actions *)

\* A run that can be adopted holds nothing that anybody signed, so whoever adopts it
\* either is alone or knows of a live command that holds it.
LEMMA AdoptKeeps ==
  ASSUME ReviewInv, NEW p \in Processes, AdoptAwaitingReview(p)
  PROVE  ReviewInv'
<1> USE DEF AdoptAwaitingReview, Goto, files
<1>a. p \in Finalizers /\ ~held[p] /\ pc[p] = "adopt" /\ TypeOK
  BY DEF ReviewInv, Roles, Processes, Failing
<1>b. UNCHANGED <<mode, reviews, disk, author, rejection, unrecorded, powerLost>>
  OBVIOUS
<1>c. "failed" \notin Path /\ "decide" \in Path
  BY DEF Path, AfterDecisions, AfterSummary, AfterManifest, AfterCommit, AfterMark
<1>1. TypeOK'
  BY <1>c DEF ReviewInv, TypeOK, Steps
<1>2. Outcomes' /\ MarkedByOne'
  <2>1. Outcomes'
    BY <1>a, <1>b DEF ReviewInv, Outcomes, TypeOK, Processes, AfterSummary, AfterManifest,
       AfterCommit, AfterMark
  <2>2. MarkedByOne'
    BY <1>b DEF ReviewInv, MarkedByOne, SignedBy, Present
  <2> QED
    BY <2>1, <2>2
<1>3. Roles' /\ Opened'
  BY <1>a, <1>b, ReviewAssumption
  DEF ReviewInv, Roles, Opened, TypeOK, Adoptable, Processes, Present
<1>4. OwnWork'
  <2> SUFFICES ASSUME NEW q \in Processes PROVE \A f \in Own(q)' : SignedBy(q, f)'
    BY DEF OwnWork
  <2>1. CASE q = p
    BY <1>a, <2>1 DEF Own, Since, Signed, ReviewFiles, Seals, TypeOK, AfterDecisions,
                      AfterSummary, AfterManifest, AfterCommit, AfterMark
  <2>2. CASE q # p
    BY <1>a, <1>b, <2>2, WorkStays DEF TypeOK, Sticky
  <2> QED
    BY <2>1, <2>2
<1>5. CASE Goto(p, "failed") /\ UNCHANGED <<held, contended>>
  <2>1. Closing'
    BY <1>a, <1>b, <1>5 DEF ReviewInv, Closing, TypeOK, Present
  <2>2. InOneHand'
    BY <1>a, <1>b, <1>5 DEF ReviewInv, InOneHand, TypeOK, Live, Finishes
  <2>3. OnlyOwnWork'
    <3> DEFINE AR == "AWAITING_REVIEW"
    <3> SUFFICES ASSUME NEW q \in Processes, Alone(q)', pc'[q] \in Path
                 PROVE  /\ Members' \ {AR} = Written(q)' \ {AR}
                        /\ \A f \in Members' \ {AR} : disk'[f] = "exact"
                        /\ AR \in Members' => AR \in Written(q)'
                        /\ AR \in Written(q)' =>
                             Whole(AR)' \/ (powerLost' /\ pc'[q] = "done")
      BY DEF OnlyOwnWork
    <3>1. Alone(q) /\ pc'[q] = pc[q]
      BY <1>a, <1>c, <1>5 DEF TypeOK, Alone, HandsOver
    <3>2. Written(q)' = Written(q) /\ Members' = Members
      BY <1>b, <3>1 DEF Written, Own, HandsOver, Members, Present
    <3> QED
      BY <1>b, <3>1, <3>2 DEF ReviewInv, OnlyOwnWork, Whole
  <2>4. RejectedForGood'
    BY <1>a, <1>b, <1>5 DEF ReviewInv, RejectedForGood, TypeOK, Members, Present, Whole, Live
  <2> QED
    BY <1>1, <1>2, <1>3, <1>4, <2>1, <2>2, <2>3, <2>4 DEF ReviewInv
<1>6. CASE /\ Adoptable /\ Goto(p, "decide") /\ held' = [held EXCEPT ![p] = TRUE]
           /\ contended' = (contended \/ \E q \in Processes \ {p} : held[q] /\ Live(q))
  <2>a. /\ pc'[p] = "decide" /\ held'[p] /\ mode = "official"
        /\ \A q \in Processes \ {p} : pc'[q] = pc[q] /\ held'[q] = held[q]
    BY <1>6, <1>a DEF TypeOK, Adoptable
  <2>b. \A q \in Processes : ~Finishes(q)
    <3> SUFFICES ASSUME NEW q \in Processes, Finishes(q) PROVE FALSE
      OBVIOUS
    <3>1. "TERMINAL_SUCCESS" \in Own(q)
      BY <2>a DEF Finishes, Own, HandsOver, Since, Signed, ReviewFiles, AfterMark
    <3> QED
      BY <1>6, <3>1 DEF ReviewInv, OwnWork, SignedBy, Adoptable, Members, Present, File,
                        Signed
  <2>1. Closing'
    BY <1>b, <2>a DEF ReviewInv, Closing, Present
  <2>2. InOneHand'
    BY <1>6, <1>a, <2>a, <2>b DEF InOneHand, Live, Finishes
  <2>3. OnlyOwnWork'
    <3> DEFINE AR == "AWAITING_REVIEW"
    <3> SUFFICES ASSUME NEW q \in Processes, Alone(q)', pc'[q] \in Path
                 PROVE  /\ Members' = Written(q)' /\ Whole(AR)'
                        /\ \A f \in Members' \ {AR} : disk'[f] = "exact"
      BY DEF OnlyOwnWork
    <3>1. q = p
      <4> SUFFICES ASSUME q # p PROVE FALSE
        OBVIOUS
      <4>1. held[q] /\ ~Live(q) /\ pc[q] \in Path
        BY <1>6, <2>a DEF Alone
      <4>2. pc[q] = "done"
        BY <1>c, <4>1 DEF Live, Path, AfterDecisions, AfterSummary, AfterManifest,
                          AfterCommit, AfterMark
      <4>3. HandsOver(q)
        BY <2>a, <2>b, <4>2 DEF Finishes, HandsOver
      <4> QED
        BY <1>a, <1>b, <2>a, <4>2, <4>3 DEF Alone, HandsOver
    <3>2. Own(p)' = {}
      BY <2>a DEF Own, Since, Signed, ReviewFiles, Seals, AfterDecisions,
                  AfterSummary, AfterManifest, AfterCommit, AfterMark
    <3>3. Written(p)' = {"PENDING", "precursor", AR}
      BY <1>b, <2>a, <3>2 DEF Written
    <3> QED
      BY <1>6, <1>b, <3>1, <3>3
      DEF ReviewInv, Opened, Adoptable, Members, Present, Whole
  <2>4. RejectedForGood'
    BY <1>6, <1>b DEF RejectedForGood, Adoptable, Members, Present, File
  <2> QED
    BY <1>1, <1>2, <1>3, <1>4, <2>1, <2>2, <2>3, <2>4 DEF ReviewInv
<1> QED
  BY <1>5, <1>6

\* A live command on its way out disturbs at most the records of the failure.
LEMMA EndsKeeps ==
  ASSUME ReviewInv, NEW p \in Processes, held[p], Live(p), pc[p] # "adopt",
         NEW end \in Failing \union {"failed", "dead"}, pc' = [pc EXCEPT ![p] = end],
         stage' \in [Processes -> {"command", "bootstrap"}],
         UNCHANGED <<mode, reviews, held, contended, powerLost>>,
         rejection' \in BOOLEAN, unrecorded' \in BOOLEAN,
         \/ UNCHANGED files
         \/ \E f \in {"TERMINAL_FAILURE", "failure-details"}, b \in Bytes \ {"absent"} :
              ~Present(f) /\ Create(p, f, b)
  PROVE  /\ TypeOK' /\ Roles' /\ Outcomes' /\ Opened' /\ OwnWork' /\ MarkedByOne'
         /\ InOneHand' /\ OnlyOwnWork' /\ Sticky
         /\ \A f \in File : Present(f) => Present(f)'
<1> USE DEF files
<1>a. TypeOK /\ end \notin Path /\ end # "adopt"
  BY DEF ReviewInv, Failing, Path, AfterDecisions, AfterSummary, AfterManifest, AfterCommit,
         AfterMark
<1>b. /\ Sticky /\ disk' \in [File -> Bytes] /\ author' \in [Signed -> Processes]
      /\ \A f \in File : Present(f) => Present(f)'
      /\ \A f \in File \ {"TERMINAL_FAILURE", "failure-details"} : disk'[f] = disk[f]
      /\ \A f \in Signed : author'[f] = author[f]
  <2>1. CASE UNCHANGED files
    BY <1>a, <2>1 DEF TypeOK, Sticky, Present
  <2>2. CASE \E f \in {"TERMINAL_FAILURE", "failure-details"}, b \in Bytes \ {"absent"} :
               ~Present(f) /\ Create(p, f, b)
    <3>1. PICK f \in {"TERMINAL_FAILURE", "failure-details"}, b \in Bytes \ {"absent"} :
                 ~Present(f) /\ Create(p, f, b)
      BY <2>2
    <3>2. f \in File /\ f \notin Signed
      BY DEF File, Signed, ReviewFiles, Seals
    <3>3. Sticky /\ disk' \in [File -> Bytes] /\ author' \in [Signed -> Processes]
      BY <1>a, <3>1, <3>2, CreateIsSticky
    <3> QED
      BY <1>a, <3>1, <3>2, <3>3 DEF TypeOK, Create, Present
  <2> QED
    BY <2>1, <2>2
<1>1. TypeOK'
  BY <1>a, <1>b DEF TypeOK, Steps
<1>2. Roles' /\ Outcomes'
  BY <1>a DEF ReviewInv, Roles, Outcomes, TypeOK, Processes, Failing, Live,
     AfterSummary, AfterManifest, AfterCommit, AfterMark
<1>3. Opened'
  BY <1>a, <1>b DEF ReviewInv, Opened, TypeOK, File, Present, Processes, Failing
<1>4. OwnWork'
  <2> SUFFICES ASSUME NEW q \in Processes PROVE \A f \in Own(q)' : SignedBy(q, f)'
    BY DEF OwnWork
  <2>1. CASE q = p
    <3>1. \A f \in Signed : end \notin Since[f]
      BY DEF Since, Signed, ReviewFiles, Seals, Failing, AfterDecisions, AfterSummary,
             AfterManifest, AfterCommit, AfterMark
    <3> QED
      BY <1>a, <2>1, <3>1 DEF Own, TypeOK
  <2>2. CASE q # p
    BY <1>a, <1>b, <2>2, WorkStays DEF TypeOK
  <2> QED
    BY <2>1, <2>2
<1>5. MarkedByOne'
  <2>1. /\ "TERMINAL_SUCCESS" \in File /\ "TERMINAL_SUCCESS" \in Signed
        /\ \A f \in ReviewFiles \union Seals : f \in File /\ f \in Signed
    BY DEF File, Signed
  <2>2. disk'["TERMINAL_SUCCESS"] = disk["TERMINAL_SUCCESS"]
    BY <1>b DEF File, Signed
  <2> QED
    BY <1>b, <2>1, <2>2 DEF ReviewInv, MarkedByOne, SignedBy, Present, Sticky
<1>7. InOneHand'
  BY <1>a DEF ReviewInv, InOneHand, TypeOK, Live, Finishes, Failing
<1>8. OnlyOwnWork'
  <2> SUFFICES ASSUME NEW q \in Processes, Alone(q)', pc'[q] \in Path PROVE FALSE
    BY DEF OnlyOwnWork
  <2>1. q # p /\ pc'[q] = pc[q] /\ Alone(q)
    BY <1>a DEF TypeOK, Alone, HandsOver
  <2> QED
    BY <2>1, NoOtherAlone
<1> QED
  BY <1>1, <1>2, <1>3, <1>4, <1>5, <1>7, <1>8, <1>b

\* What an attempt to record a failure does to the record.
LEMMA RecordEffect ==
  ASSUME TypeOK, NEW p \in Processes, NEW rejected \in BOOLEAN, Record(p, rejected)
  PROVE  /\ rejection' \in BOOLEAN /\ unrecorded' \in BOOLEAN
         /\ Present("TERMINAL_FAILURE")' \/ unrecorded'
         /\ Present("TERMINAL_FAILURE") => UNCHANGED <<files, rejection>>
         /\ ~Present("TERMINAL_FAILURE") => rejection' = rejected
         /\ \/ UNCHANGED files
            \/ \E f \in {"TERMINAL_FAILURE", "failure-details"}, b \in Bytes \ {"absent"} :
                 ~Present(f) /\ Create(p, f, b)
BY DEF Record, Writes, RaisesIn, TypeOK, Bytes, Present

LEMMA LookKeeps ==
  ASSUME ReviewInv, NEW p \in Processes, LookForMarkers(p)
  PROVE  ReviewInv'
<1> USE DEF LookForMarkers, AfterPoison, Goto, Quiet, ghosts, files
<1>1. TypeOK /\ pc[p] = "poison" /\ held[p] /\ Live(p)
  BY InHand DEF ReviewInv, Live
<1>2. PICK end \in Failing : pc' = [pc EXCEPT ![p] = end]
  BY DEF Failing
<1>3. end = "invalidate" => Present("TERMINAL_SUCCESS") \/ Present("TERMINAL_FAILURE")
  BY <1>1, <1>2 DEF Members, TypeOK
<1>4. Present("TERMINAL_FAILURE") /\ stage[p] = "bootstrap" => end = "invalidate"
  BY <1>1, <1>2 DEF Members, TypeOK, File
<1>5. Closing'
  BY <1>1, <1>2, <1>3 DEF ReviewInv, Closing, TypeOK, Present, Failing
<1>6. RejectedForGood'
  BY <1>1, <1>2, <1>4 DEF ReviewInv, RejectedForGood, TypeOK, Members, Present, Whole, Live
<1>7. stage' \in [Processes -> {"command", "bootstrap"}]
  BY <1>1 DEF TypeOK
<1>8. /\ TypeOK' /\ Roles' /\ Outcomes' /\ Opened' /\ OwnWork' /\ MarkedByOne'
      /\ InOneHand' /\ OnlyOwnWork'
  BY <1>1, <1>2, <1>7, EndsKeeps DEF TypeOK
<1> QED
  BY <1>5, <1>6, <1>8 DEF ReviewInv

LEMMA WriteFailureKeeps ==
  ASSUME ReviewInv, NEW p \in Processes, WriteFailure(p)
  PROVE  ReviewInv'
<1> USE DEF WriteFailure, AfterPoison, Goto
<1>1. TypeOK /\ pc[p] = "write_failure" /\ held[p] /\ Live(p)
  BY InHand DEF ReviewInv, Live
<1>2. PICK end \in Failing : pc' = [pc EXCEPT ![p] = end] /\ stage' = stage
  BY DEF Failing
<1>3. /\ rejection' \in BOOLEAN /\ unrecorded' \in BOOLEAN
      /\ Present("TERMINAL_FAILURE")' \/ unrecorded'
      /\ Present("TERMINAL_FAILURE") => UNCHANGED <<files, rejection>>
      /\ ~Present("TERMINAL_FAILURE") => ~rejection'
      /\ \/ UNCHANGED files
         \/ \E f \in {"TERMINAL_FAILURE", "failure-details"}, b \in Bytes \ {"absent"} :
              ~Present(f) /\ Create(p, f, b)
  BY <1>1, RecordEffect
<1>4. UNCHANGED <<mode, reviews, held, contended, powerLost>>
  BY DEF Record
<1>5. Closing'
  BY <1>1, <1>2, <1>3, <1>4 DEF Closing
<1>6. RejectedForGood'
  BY <1>1, <1>3, <1>4 DEF ReviewInv, RejectedForGood, files, Present
<1>8. /\ TypeOK' /\ Roles' /\ Outcomes' /\ Opened' /\ OwnWork' /\ MarkedByOne'
      /\ InOneHand' /\ OnlyOwnWork'
  <2>1. stage' \in [Processes -> {"command", "bootstrap"}] /\ pc[p] # "adopt"
    BY <1>1, <1>2 DEF TypeOK
  <2> HIDE DEF WriteFailure, AfterPoison, Goto
  <2> QED
    BY <1>1, <1>2, <1>3, <1>4, <2>1, EndsKeeps
<1> QED
  BY <1>5, <1>6, <1>8 DEF ReviewInv

LEMMA DiagnoseKeeps ==
  ASSUME ReviewInv, NEW p \in Processes, Diagnose(p)
  PROVE  ReviewInv'
<1> USE DEF Diagnose, Fails, Quiet, ghosts
<1>1. TypeOK /\ pc[p] = "diagnose" /\ held[p] /\ Live(p)
  BY InHand DEF ReviewInv, Live
<1>2. "poison" \in Failing /\ pc' = [pc EXCEPT ![p] = "poison"]
  BY DEF Failing
<1>3. stage' \in [Processes -> {"command", "bootstrap"}]
  BY <1>1 DEF TypeOK
<1>4. \/ UNCHANGED files
      \/ \E f \in {"TERMINAL_FAILURE", "failure-details"}, b \in Bytes \ {"absent"} :
           ~Present(f) /\ Create(p, f, b)
  BY DEF Bytes
<1>5. disk'["TERMINAL_FAILURE"] = disk["TERMINAL_FAILURE"]
  BY <1>1 DEF Create, TypeOK, File, files
<1>8. /\ TypeOK' /\ Roles' /\ Outcomes' /\ Opened' /\ OwnWork' /\ MarkedByOne'
      /\ InOneHand' /\ OnlyOwnWork' /\ \A f \in File : Present(f) => Present(f)'
  BY <1>1, <1>2, <1>3, <1>4, EndsKeeps DEF TypeOK
<1>6. Closing'
  BY <1>1, <1>2, <1>8 DEF ReviewInv, Closing, TypeOK, File, Signed
<1>7. RejectedForGood'
  BY <1>1, <1>5 DEF ReviewInv, RejectedForGood
<1> QED
  BY <1>6, <1>7, <1>8 DEF ReviewInv

LEMMA InvalidateKeeps ==
  ASSUME ReviewInv, NEW p \in Processes, Invalidate(p)
  PROVE  ReviewInv'
<1> USE DEF Invalidate, Goto
<1>1. TypeOK /\ pc[p] = "invalidate" /\ held[p] /\ Live(p)
  BY InHand DEF ReviewInv, Live
<1>2. pc' = [pc EXCEPT ![p] = "failed"] /\ stage' = stage
  OBVIOUS
<1>3. CASE Present("TERMINAL_SUCCESS") /\ ~Present("TERMINAL_FAILURE")
  <2>1. Record(p, FALSE)
    BY <1>3
  <2>2. /\ rejection' \in BOOLEAN /\ unrecorded' \in BOOLEAN
        /\ Present("TERMINAL_FAILURE")' \/ unrecorded'
        /\ ~rejection'
        /\ \/ UNCHANGED files
           \/ \E f \in {"TERMINAL_FAILURE", "failure-details"}, b \in Bytes \ {"absent"} :
                ~Present(f) /\ Create(p, f, b)
    BY <1>1, <1>3, <2>1, RecordEffect
  <2>3. UNCHANGED <<mode, reviews, held, contended, powerLost>>
    BY <2>1 DEF Record
  <2>4. Closing' /\ RejectedForGood'
    BY <2>2 DEF Closing, RejectedForGood
  <2>5. /\ TypeOK' /\ Roles' /\ Outcomes' /\ Opened' /\ OwnWork' /\ MarkedByOne'
        /\ InOneHand' /\ OnlyOwnWork'
    <3>1. stage' \in [Processes -> {"command", "bootstrap"}] /\ pc[p] # "adopt"
      BY <1>1, <1>2 DEF TypeOK
    <3> HIDE DEF Invalidate, Goto
    <3> QED
      BY <1>1, <1>2, <2>2, <2>3, <3>1, EndsKeeps
  <2> QED
    BY <2>4, <2>5 DEF ReviewInv
<1>4. CASE ~(Present("TERMINAL_SUCCESS") /\ ~Present("TERMINAL_FAILURE"))
  <2>1. UNCHANGED <<mode, reviews, held, contended, powerLost, rejection, unrecorded, files>>
    BY <1>4 DEF Quiet, ghosts
  <2>2. Closing'
    BY <1>1, <1>2, <1>4, <2>1 DEF ReviewInv, Closing, TypeOK, Present, files
  <2>3. RejectedForGood'
    BY <1>1, <1>2, <2>1
    DEF ReviewInv, RejectedForGood, TypeOK, Members, Present, Whole, Live, files
  <2>5. /\ TypeOK' /\ Roles' /\ Outcomes' /\ Opened' /\ OwnWork' /\ MarkedByOne'
        /\ InOneHand' /\ OnlyOwnWork'
    BY <1>1, <1>2, <2>1, EndsKeeps DEF TypeOK
  <2> QED
    BY <2>2, <2>3, <2>5 DEF ReviewInv
<1> QED
  BY <1>3, <1>4

LEMMA CrashKeeps ==
  ASSUME ReviewInv, NEW p \in Processes, Crash(p)
  PROVE  ReviewInv'
<1> USE DEF Crash, Quiet, ghosts, files
<1>1. TypeOK /\ pc[p] # "adopt" /\ held[p] /\ Live(p)
  BY DEF ReviewInv, Roles, Processes, Failing
<1>2. Closing'
  BY <1>1 DEF ReviewInv, Closing, TypeOK, Present
<1>3. RejectedForGood'
  BY <1>1 DEF ReviewInv, RejectedForGood, TypeOK, Members, Present, Whole, Live
<1>4. /\ TypeOK' /\ Roles' /\ Outcomes' /\ Opened' /\ OwnWork' /\ MarkedByOne'
      /\ InOneHand' /\ OnlyOwnWork'
  BY <1>1, EndsKeeps DEF TypeOK
<1> QED
  BY <1>2, <1>3, <1>4 DEF ReviewInv

\* A rejection that is recorded in a run of one hand finds only what it may find.
LEMMA RejectKeeps ==
  ASSUME ReviewInv, NEW p \in Processes, RecordRejection(p)
  PROVE  ReviewInv'
<1>a. /\ TypeOK /\ pc[p] = "reject" /\ held[p] /\ Live(p) /\ p \in Finalizers
      /\ mode = "official" /\ reviews[p] = "reject" /\ pc[p] \in Path \ {"done"}
  BY InHand DEF ReviewInv, RecordRejection, Live, Roles, Outcomes, Processes, Failing, Path,
     AfterDecisions, AfterSummary
<1>1. CASE MayCommit(p) /\ Record(p, TRUE) /\ Fails(p, "bootstrap")
  <2>1. ~Present("TERMINAL_FAILURE") /\ Whole("AWAITING_REVIEW")
    BY <1>1, <1>a, ReviewAssumption DEF MayCommit, Members, File
  <2>2. /\ rejection' /\ unrecorded' \in BOOLEAN
        /\ Present("TERMINAL_FAILURE")' \/ unrecorded'
        /\ \/ UNCHANGED files
           \/ \E f \in {"TERMINAL_FAILURE", "failure-details"}, b \in Bytes \ {"absent"} :
                ~Present(f) /\ Create(p, f, b)
    BY <1>1, <1>a, <2>1, RecordEffect
  <2>3. UNCHANGED <<mode, reviews, held, contended, powerLost>>
    BY <1>1 DEF Record
  <2>4. /\ "poison" \in Failing /\ pc' = [pc EXCEPT ![p] = "poison"]
        /\ stage' = [stage EXCEPT ![p] = "bootstrap"]
        /\ stage' \in [Processes -> {"command", "bootstrap"}] /\ pc[p] # "adopt"
    BY <1>1, <1>a DEF Fails, Failing, TypeOK
  <2>5. /\ TypeOK' /\ Roles' /\ Outcomes' /\ Opened' /\ OwnWork' /\ MarkedByOne'
        /\ InOneHand' /\ OnlyOwnWork' /\ Sticky
    BY <1>a, <2>2, <2>3, <2>4, EndsKeeps
  <2>6. Closing'
    BY <1>a, <2>2, <2>4 DEF ReviewInv, Closing, TypeOK
  <2>7. ASSUME disk'["TERMINAL_FAILURE"] = "exact", ~contended
        PROVE  /\ Members' \ {"AWAITING_REVIEW"} =
                    {"PENDING", "precursor", "TERMINAL_FAILURE"} \union ReviewFiles
               /\ \A f \in Members' \ {"AWAITING_REVIEW"} : disk'[f] = "exact"
               /\ Whole("AWAITING_REVIEW")'
               /\ \A f \in ReviewFiles : reviews[author'[f]] = "reject"
    <3> DEFINE AR == "AWAITING_REVIEW"
    <3>1. Own(p) = ReviewFiles
      BY <1>a, ReviewAssumption DEF Own, HandsOver, Since, Signed, ReviewFiles, Seals,
         AfterDecisions, AfterSummary, AfterManifest, AfterCommit, AfterMark
    <3>2. Alone(p)
      BY <1>a, <2>7 DEF Alone
    <3>3. /\ Members \ {AR} = {"PENDING", "precursor"} \union ReviewFiles
          /\ \A f \in Members \ {AR} : disk[f] = "exact"
      BY <1>a, <3>1, <3>2 DEF ReviewInv, OnlyOwnWork, Written, ReviewFiles
    <3>4. Members' = Members \union {"TERMINAL_FAILURE"}
          /\ \A f \in File \ {"TERMINAL_FAILURE"} : disk'[f] = disk[f]
      <4>1. Record(p, TRUE) /\ Create(p, "TERMINAL_FAILURE", "exact")
        BY <1>1, <1>a, <2>1, <2>7
        DEF Record, Writes, RaisesIn, Present, Create, TypeOK, files, File
      <4> QED
        BY <1>a, <4>1 DEF Create, TypeOK, Members, Present, File
    <3>5. \A f \in ReviewFiles : f \in File /\ f \in Signed
      BY DEF File, Signed
    <3>6. \A f \in ReviewFiles : author'[f] = p
      BY <2>5, <3>1, <3>5 DEF ReviewInv, OwnWork, SignedBy, Sticky
    <3>7. Whole(AR)'
      BY <2>1, <3>4 DEF Whole, File
    <3> QED
      BY <1>a, <2>7, <3>3, <3>4, <3>6, <3>7 DEF Members
  <2>8. ~contended => \A q \in Processes :
          held'[q] /\ Live(q)' => pc'[q] \in {"poison", "invalidate"} /\ stage'[q] = "bootstrap"
    BY <1>a, <2>3, <2>4 DEF ReviewInv, InOneHand, TypeOK, Live
  <2>9. RejectedForGood'
    BY <1>a, <2>3, <2>7, <2>8 DEF RejectedForGood
  <2> QED
    BY <2>5, <2>6, <2>9 DEF ReviewInv
<1>2. CASE Quiet /\ UNCHANGED files /\ \E who \in {"command", "bootstrap"} : Fails(p, who)
  BY <1>2, <1>a, FailsKeeps
<1> QED
  BY <1>1, <1>2 DEF RecordRejection

\* A power cut ends every command that holds the run, and spares what was synced.
LEMMA PowerKeeps ==
  ASSUME ReviewInv, PowerLoss
  PROVE  ReviewInv'
<1>a. /\ TypeOK /\ UNCHANGED <<mode, reviews, author, rejection, stage, held, contended>>
      /\ powerLost' /\ unrecorded' \in BOOLEAN
  BY DEF ReviewInv, PowerLoss, TypeOK
<1>b. \A p \in Processes : pc'[p] = IF Live(p) /\ held[p] THEN "dead" ELSE pc[p]
  BY DEF PowerLoss
<1>c. /\ disk' \in [File -> Bytes]
      /\ \A f \in File : /\ disk[f] \in {"exact", "absent"} => disk'[f] = disk[f]
                         /\ disk'[f] = "exact" => disk[f] = "exact"
  <2>1. PICK left \in [{f \in File : disk[f] \in {"torn", "volatile"}} -> Bytes] :
          /\ \A f \in DOMAIN left : left[f] \in Remains[disk[f]]
          /\ disk' = [f \in File |-> IF f \in DOMAIN left THEN left[f] ELSE disk[f]]
    BY DEF PowerLoss
  <2>2. disk' \in [File -> Bytes]
    BY <1>a, <2>1 DEF TypeOK
  <2>3. \A f \in File : disk[f] \in {"exact", "absent"} => disk'[f] = disk[f]
    BY <2>1
  <2>4. \A f \in DOMAIN left : left[f] # "exact"
    BY <2>1 DEF Remains
  <2> QED
    BY <2>1, <2>2, <2>3, <2>4
<1>d. Sticky /\ \A f \in File : Present(f)' => Present(f)
  BY <1>a, <1>c DEF Sticky, Present
<1>1. TypeOK'
  BY <1>a, <1>b, <1>c DEF TypeOK, Steps, PowerLoss
<1>2. Roles' /\ Outcomes'
  BY <1>a, <1>b DEF ReviewInv, Roles, Outcomes, Processes, Failing, Live,
     AfterSummary, AfterManifest, AfterCommit, AfterMark
<1>3. Opened'
  BY <1>a, <1>b, <1>d DEF ReviewInv, Opened, Sticky, Processes, File
<1>4. OwnWork'
  <2> SUFFICES ASSUME NEW q \in Processes PROVE \A f \in Own(q)' : SignedBy(q, f)'
    BY DEF OwnWork
  <2>1. CASE pc'[q] = pc[q]
    BY <1>a, <1>d, <2>1, WorkStays
  <2>2. CASE pc'[q] = "dead"
    BY <2>2 DEF Own, Since, Signed, ReviewFiles, Seals, AfterDecisions,
                AfterSummary, AfterManifest, AfterCommit, AfterMark
  <2> QED
    BY <1>b, <2>1, <2>2
<1>5. MarkedByOne'
  <2>1. /\ "TERMINAL_SUCCESS" \in File
        /\ \A f \in ReviewFiles \union Seals : f \in File /\ f \in Signed
    BY DEF File, Signed
  <2> QED
    BY <1>a, <1>d, <2>1 DEF ReviewInv, MarkedByOne, SignedBy, Sticky
<1>6. Closing'
  <2>1. "TERMINAL_FAILURE" \in File /\ "TERMINAL_SUCCESS" \in File
    BY DEF File, Signed
  <2>2. \A p \in Processes : pc'[p] # "invalidate"
    BY <1>b, InHand DEF Live
  <2>3. \A p \in Processes : pc'[p] = "failed" => pc[p] = "failed"
    BY <1>b
  <2>4. \/ unrecorded
        \/ Present("TERMINAL_FAILURE") /\ ~Present("TERMINAL_FAILURE")'
        => unrecorded'
    BY DEF PowerLoss, Present
  <2> QED
    BY <1>a, <2>2, <2>3, <2>4 DEF ReviewInv, Closing
<1>7. InOneHand'
  BY <1>a, <1>b DEF ReviewInv, InOneHand, Live
<1>8. OnlyOwnWork'
  <2> DEFINE AR == "AWAITING_REVIEW"
  <2> SUFFICES ASSUME NEW q \in Processes, Alone(q)', pc'[q] \in Path
               PROVE  /\ Members' \ {AR} = Written(q)' \ {AR}
                      /\ \A f \in Members' \ {AR} : disk'[f] = "exact"
                      /\ AR \in Members' => AR \in Written(q)'
                      /\ pc'[q] = "done"
    BY <1>a DEF OnlyOwnWork
  <2>1. pc[q] = "done" /\ pc'[q] = "done"
    BY <1>a, <1>b DEF Alone, Live, Path, AfterDecisions, AfterSummary,
                AfterManifest, AfterCommit, AfterMark
  <2>2. Alone(q) /\ Written(q)' = Written(q)
    BY <1>a, <2>1 DEF Alone, HandsOver, Written, Own
  <2>3. /\ Members \ {AR} = Written(q) \ {AR}
        /\ \A f \in Members \ {AR} : disk[f] = "exact"
        /\ AR \in Members => AR \in Written(q)
    BY <2>1, <2>2 DEF ReviewInv, OnlyOwnWork, Path, AfterDecisions, AfterSummary,
                      AfterManifest, AfterCommit, AfterMark
  <2>4. Members' \subseteq Members /\ \A f \in Members : disk[f] = "exact" => f \in Members'
    BY <1>d DEF Members, Sticky, Present
  <2> QED
    BY <1>d, <2>1, <2>2, <2>3, <2>4 DEF Sticky, Members
<1>9. RejectedForGood'
  <2> DEFINE AR == "AWAITING_REVIEW"
  <2> SUFFICES ASSUME rejection, disk'["TERMINAL_FAILURE"] = "exact", ~contended
               PROVE  RejectedForGood'
    BY <1>a DEF RejectedForGood
  <2>1. /\ mode = "official"
        /\ Members \ {AR} = {"PENDING", "precursor", "TERMINAL_FAILURE"} \union ReviewFiles
        /\ \A f \in Members \ {AR} : disk[f] = "exact"
        /\ \A f \in ReviewFiles : reviews[author[f]] = "reject"
    BY <1>c DEF ReviewInv, RejectedForGood, File
  <2>2. Members' \ {AR} = Members \ {AR} /\ \A f \in Members' \ {AR} : disk'[f] = "exact"
    BY <1>d, <2>1 DEF Members, Sticky, Present
  <2>3. \A p \in Processes : ~(held'[p] /\ Live(p)')
    BY <1>a, <1>b DEF Live
  <2> QED
    BY <1>a, <2>1, <2>2, <2>3 DEF RejectedForGood
<1> QED
  BY <1>1, <1>2, <1>3, <1>4, <1>5, <1>6, <1>7, <1>8, <1>9 DEF ReviewInv

-----------------------------------------------------------------------------
(* The specification *)

\* A check gets on without writing, a publication with its file; both may fail.
LEMMA CheckKeeps ==
  ASSUME ReviewInv, NEW p \in Processes, NEW at, NEW holds, NEW next,
         Check(p, at, holds, next), <<at, next>> \in Moves,
         at = "collect" => (next = "emit" <=> HandsOver(p))
  PROVE  ReviewInv'
<1>1. pc[p] = at /\ Quiet /\ UNCHANGED files
  BY DEF Check
<1>2. CASE Goto(p, next)
  BY <1>1, <1>2, ProgressKeeps
<1>3. CASE Fails(p, "command")
  <2>1. pc[p] \in Path \ {"done"}
    BY <1>1 DEF Moves, Path, AfterDecisions, AfterSummary, AfterManifest, AfterCommit,
                AfterMark
  <2> QED
    BY <1>1, <1>3, <2>1, FailsKeeps
<1> QED
  BY <1>2, <1>3 DEF Check

LEMMA PublicationKeeps ==
  ASSUME ReviewInv, NEW p \in Processes, NEW at, NEW f, NEW next,
         Publish(p, at, f, next), <<at, f, next>> \in Writings,
         at = "fill" => (next = "seal" <=> mode = "official"),
         at = "write_summary" => (next = "commit" <=> reviews[p] = "accept")
  PROVE  ReviewInv'
<1>1. pc[p] = at /\ Quiet
  BY DEF Publish
<1>2. CASE Writes(p, f) /\ Goto(p, next)
  BY <1>1, <1>2, PublishKeeps
<1>3. CASE RaisesIn(p, f) /\ Fails(p, "command")
  <2>1. /\ pc[p] \in Path \ {"done"} /\ f \in File \ {"TERMINAL_FAILURE"}
        /\ f = "AWAITING_REVIEW" => pc[p] = "seal"
        /\ f = "TERMINAL_SUCCESS" => pc[p] = "mark"
    BY <1>1 DEF Writings, Path, AfterDecisions, AfterSummary, AfterManifest, AfterCommit,
                AfterMark, File, Signed, ReviewFiles, Seals
  <2> QED
    BY <1>1, <1>3, <2>1, FailsKeeps DEF RaisesIn
<1> QED
  BY <1>2, <1>3 DEF Publish

LEMMA MarkKeeps ==
  ASSUME ReviewInv, NEW p \in Processes, MarkTerminalSuccess(p)
  PROVE  ReviewInv'
<1>1. CASE Check(p, "reopen", Accepted, "emit")
  BY <1>1, CheckKeeps DEF Moves
<1>2. CASE /\ pc[p] = "mark" /\ Quiet
           /\ Writes(p, "TERMINAL_SUCCESS") /\ Goto(p, "reopen")
  BY <1>2, PublishKeeps DEF Writings
<1>3. CASE /\ pc[p] = "mark" /\ Quiet
           /\ RaisesIn(p, "TERMINAL_SUCCESS") /\ Fails(p, "command")
  <2>1. pc[p] \in Path \ {"done"} /\ "TERMINAL_SUCCESS" \in File \ {"TERMINAL_FAILURE"}
    BY <1>3 DEF Path, AfterDecisions, AfterSummary, AfterManifest, AfterCommit, File, Signed
  <2> QED
    BY <1>3, <2>1, FailsKeeps DEF RaisesIn
<1> QED
  BY <1>1, <1>2, <1>3 DEF MarkTerminalSuccess, Ambiguous

LEMMA ReviewStutter == ASSUME ReviewInv, UNCHANGED vars PROVE ReviewInv'
<1> USE DEF vars, files, control, ghosts
<1>1. TypeOK' /\ Roles' /\ Outcomes' /\ Opened' /\ MarkedByOne' /\ Closing' /\ InOneHand'
  BY DEF ReviewInv, TypeOK, Roles, Outcomes, Opened, MarkedByOne, Closing, InOneHand,
         Present, SignedBy, Live, Finishes
<1>2. Members' = Members /\ \A p \in Processes :
        Own(p)' = Own(p) /\ Written(p)' = Written(p) /\ Alone(p)' = Alone(p)
  BY DEF Members, Own, Written, Alone, HandsOver, Present
<1>3. OwnWork' /\ OnlyOwnWork' /\ RejectedForGood'
  BY <1>2 DEF ReviewInv, OwnWork, OnlyOwnWork, RejectedForGood, SignedBy, Whole, Live
<1> QED
  BY <1>1, <1>3 DEF ReviewInv

LEMMA ReviewStep == ReviewInv /\ [Next]_vars => ReviewInv'
<1> SUFFICES ASSUME ReviewInv, [Next]_vars PROVE ReviewInv'
  OBVIOUS
<1>1. CASE UNCHANGED vars
  BY <1>1, ReviewStutter
<1>2. CASE PowerLoss
  BY <1>2, PowerKeeps
<1>3. ASSUME NEW p \in Processes, Step(p) PROVE ReviewInv'
  <2>1. CASE p = Runner /\ FillStore
    BY <2>1, PublicationKeeps DEF FillStore, Writings
  <2>2. CASE p = Runner /\ SealAwaitingReview
    BY <2>2, PublicationKeeps DEF SealAwaitingReview, Writings
  <2>3. CASE AdoptAwaitingReview(p)
    BY <2>3, AdoptKeeps
  <2>4. CASE ReviewSteps(p)
    BY <2>4, CheckKeeps, PublicationKeeps DEF ReviewSteps, Moves, Writings
  <2>5. CASE Commit(p)
    BY <2>5, CheckKeeps, PublicationKeeps DEF Commit, Moves, Writings
  <2>6. CASE CollectTranscript(p)
    BY <2>6, CheckKeeps DEF CollectTranscript, Moves, HandsOver
  <2>7. CASE Authorize(p)
    BY <2>7, CheckKeeps DEF Authorize, Moves
  <2>8. CASE MarkTerminalSuccess(p)
    BY <2>8, MarkKeeps
  <2>9. CASE EmitStatus(p)
    <3>1. pc[p] = "emit" /\ Quiet /\ UNCHANGED files
      BY <2>9 DEF EmitStatus
    <3>2. pc[p] \in Path \ {"done"} /\ <<pc[p], "done">> \in Moves
      BY <3>1 DEF Moves, Path, AfterDecisions, AfterSummary, AfterManifest, AfterCommit,
                  AfterMark
    <3> QED
      BY <2>9, <3>1, <3>2, ProgressKeeps, FailsKeeps DEF EmitStatus
  <2>10. CASE FailurePath(p)
    BY <2>10, LookKeeps, WriteFailureKeeps, RejectKeeps, DiagnoseKeeps, InvalidateKeeps
    DEF FailurePath
  <2> QED
    BY <1>3, <2>1, <2>2, <2>3, <2>4, <2>5, <2>6, <2>7, <2>8, <2>9, <2>10 DEF Step
<1>4. ASSUME NEW p \in Processes, Crash(p) PROVE ReviewInv'
  BY <1>4, CrashKeeps
<1> QED
  BY <1>1, <1>2, <1>3, <1>4 DEF Next

LEMMA ReviewInvariant == Spec => []ReviewInv
BY ReviewInit, ReviewStep, PTL DEF Spec

-----------------------------------------------------------------------------
(* The theorems *)

\* However many finalize-review commands adopt a run, the success marker that
\* mark_terminal_success creates stands on the decisions, the summary and the
\* seals of the same command, whose reviewers accepted.
THEOREM FinalizerSafety == Spec => []OneFinalizer
<1>1. ReviewInv => OneFinalizer
  BY ReviewAssumption DEF ReviewInv, MarkedByOne, OneFinalizer, SignedBy
<1> QED
  BY <1>1, ReviewInvariant, PTL

\* What main reports with exit code 0 is a run that verifies, unless two live
\* commands held it at once or the marker was never synced; an official run
\* command leaves what a finalize-review command can adopt.
THEOREM ExitZeroSafety == Spec => []ExitZeroMeansAccepted
<1> DEFINE AR == "AWAITING_REVIEW"
<1>0. "done" \in Path /\ "done" \in AfterSummary /\ \A f \in Signed : "done" \in Since[f]
  BY DEF Path, Since, Signed, ReviewFiles, Seals, AfterDecisions, AfterSummary, AfterManifest,
         AfterCommit, AfterMark
<1>1. ASSUME ReviewInv, NEW p \in Processes, Finishes(p), ~contended, ~MarkerLost
      PROVE  Accepted
  <2>1. pc[p] = "done" /\ Alone(p) /\ ~HandsOver(p)
    BY <1>1, InHand DEF Finishes, Alone, HandsOver
  <2>2. /\ Members \ {AR} = Written(p) \ {AR}
        /\ \A f \in Members \ {AR} : disk[f] = "exact"
        /\ AR \in Members => AR \in Written(p)
        /\ AR \in Written(p) => Whole(AR)
    <3>1. AR \in Written(p) => mode = "official"
      BY <2>1 DEF Written, Own, Signed, ReviewFiles, Seals
    <3> QED
      BY <1>0, <1>1, <2>1, <3>1 DEF ReviewInv, OnlyOwnWork, MarkerLost
  <2>3. Members = Written(p)
    BY <2>2 DEF Members, Whole, Present, File
  <2>4. Own(p) = {f \in Signed : f \in ReviewFiles => mode = "official"}
    BY <1>0, <2>1 DEF Own
  <2>5. Written(p) = Listed("success")
    BY <2>1, <2>4 DEF Written, Listed, Opening, Artifacts, Signed, ReviewFiles, Seals
  <2>6. ASSUME mode = "official" PROVE SealsBind /\ ReviewsAccept
    <3>1. p \in Finalizers /\ reviews[p] = "accept"
      BY <1>0, <1>1, <2>1, <2>6 DEF ReviewInv, Outcomes, HandsOver, Processes
    <3>2. \A f \in ReviewFiles \union Seals : author[f] = p
      BY <1>1, <2>4, <2>6 DEF ReviewInv, OwnWork, SignedBy, Signed
    <3> QED
      BY <3>1, <3>2 DEF SealsBind, ReviewsAccept, ReviewFiles
  <2> QED
    BY <2>2, <2>3, <2>5, <2>6 DEF Accepted, Verifies, Whole
<1>2. ASSUME ReviewInv, mode = "official", pc[Runner] = "done",
             \A q \in Finalizers : ~held[q]
      PROVE  Adoptable
  <2>1. Alone(Runner) /\ Runner \in Processes /\ Own(Runner) = {}
    BY <1>2 DEF ReviewInv, InOneHand, Alone, Roles, Own, HandsOver, Processes
  <2>2. /\ Members \ {AR} = Written(Runner) \ {AR}
        /\ \A f \in Members \ {AR} : disk[f] = "exact"
    BY <1>0, <1>2, <2>1 DEF ReviewInv, OnlyOwnWork
  <2>3. Written(Runner) \ {AR} = {"PENDING", "precursor"}
    BY <1>2, <2>1 DEF Written
  <2>4. disk[AR] = "exact" /\ AR \in Members
    BY <1>2 DEF ReviewInv, Opened, Members, Present, File
  <2> QED
    BY <1>2, <2>2, <2>3, <2>4 DEF Adoptable, Whole
<1>3. ReviewInv => ExitZeroMeansAccepted
  BY <1>1, <1>2 DEF ExitZeroMeansAccepted
<1> QED
  BY <1>3, ReviewInvariant, PTL

\* _poison and the bootstrap's invalidator close the run of every command that
\* fails, and what _fail_rejected_review recorded stays verifiable as a rejection.
THEOREM ClosedRunSafety == Spec => []ClosedRunStands
<1>1. ASSUME ReviewInv, NEW p \in Processes, pc[p] = "failed", held[p], ~unrecorded
      PROVE  Present("TERMINAL_FAILURE") /\ ~Accepted
  <2>1. Present("TERMINAL_FAILURE") /\ "TERMINAL_FAILURE" \in Members
    BY <1>1 DEF ReviewInv, Closing, Members, File
  <2> QED
    BY <2>1 DEF Accepted, Verifies, Listed, Opening, Artifacts, ReviewFiles, Seals
<1>2. ASSUME ReviewInv, rejection, disk["TERMINAL_FAILURE"] = "exact", ~contended,
             ~MarkerLost
      PROVE  RejectionVerifies
  <2> DEFINE AR == "AWAITING_REVIEW"
  <2>1. /\ Members \ {AR} = {"PENDING", "precursor", "TERMINAL_FAILURE"} \union ReviewFiles
        /\ \A f \in Members \ {AR} : disk[f] = "exact"
        /\ Whole(AR) /\ ReviewsReject
    BY <1>2 DEF ReviewInv, RejectedForGood, MarkerLost, ReviewsReject
  <2>2. AR \in Members
    BY <2>1 DEF Members, Whole, Present, File
  <2> QED
    BY <1>2, <2>1, <2>2 DEF RejectionVerifies, RejectionFiles, Whole
<1>3. ReviewInv => ClosedRunStands
  BY <1>1, <1>2 DEF ClosedRunStands
<1> QED
  BY <1>3, ReviewInvariant, PTL

=============================================================================
